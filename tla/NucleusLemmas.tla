--------------------------- MODULE NucleusLemmas ---------------------------
(***************************************************************************)
(* The inductive invariant of the nucleus, and what each of the kernel's    *)
(* operations on pcbs and semaphores does to the lists, to the counters and *)
(* to the invariant's parts.                                                *)
(***************************************************************************)
EXTENDS Nucleus, ListsProofs, FiniteSetTheorems

-----------------------------------------------------------------------------
(* The inductive invariant.                                                 *)

\* The lists of pcbs, whatever the processor is doing.
ListInv ==
  /\ ListsInjective
  /\ ListsDisjoint
  /\ ReadyByPriority
  /\ SemaphoreQueues
  /\ IsFiniteSet(semd_h)
  /\ softblock_count = Cardinality({p \in Proc : p_sem_add[p] # NULL})

\* Which pcb may be in no list, mode by mode.
ControlInv ==
  /\ \A p \in Proc : list_null(p) => p = active_process
  /\ mode \in {"run", "tick", "kill", "die"} => yield_process = NULL
  /\ mode \in {"run", "kill", "die"} => active_process # NULL
  /\ mode \in {"run", "tick"} /\ active_process # NULL => list_null(active_process)
  /\ mode = "wait" => active_process = NULL /\ yield_process = NULL
                      /\ \A b \in Prio : list_empty(ready_queue[b])
  /\ mode = "sched" /\ yield_process # NULL
        => yield_process = active_process /\ ctrl = "BLOCK"
  /\ mode = "sched" /\ ctrl # "BLOCK" /\ active_process # NULL
        => list_null(active_process)
  /\ mode = "sched" /\ ctrl = "BLOCK" /\ active_process # NULL
        => (list_null(active_process) <=> yield_process = active_process)
  /\ mode \in {"kill", "die"}
        => list_null(active_process) \/ IsFree(active_process)

\* The activations of kill_progeny: only the outermost root is still linked
\* to its parent, and the root is the caller where the handler will block
\* without looking.
KillInv ==
  /\ mode \in {"kill", "die"} <=> kstack # << >>
  /\ mode = "kill" => ctrl # "PRESERVE"
  /\ (mode = "die" \/ (mode = "kill" /\ ctrl = "BLOCK"))
        => kstack[Len(kstack)] = active_process
  /\ \A i \in 1..(Len(kstack) - 1) : p_parent[kstack[i]] = NULL

\* A device semaphore is positive only while the device is idle and nobody
\* waits on it, unless the kernel panicked before it acknowledged the device.
DeviceInv ==
  \A u \in Units : sem[u] # 0 =>
    s_procq[u] = << >> /\ (dev[u] = "ready" \/ mode = "No active process")

\* The types of what the lists are made of.
ListType ==
  /\ pcb_free \in Seq(Proc)
  /\ p_prio \in [Proc -> Prio]
  /\ semd_h \subseteq Sem
  /\ semd_free \in 0..MAX_PROC
  /\ s_procq \in [Sem -> Seq(Proc)]
  /\ p_sem_add \in [Proc -> Sem \cup {NULL}]
  /\ ready_queue \in [Prio -> Seq(Proc)]
  /\ softblock_count \in 0..MAX_PROC

\* The part of them that belongs to the active semaphore list.
AslType ==
  /\ semd_h \subseteq Sem
  /\ semd_free \in 0..MAX_PROC
  /\ s_procq \in [Sem -> Seq(Proc)]
  /\ p_sem_add \in [Proc -> Sem \cup {NULL}]
  /\ softblock_count \in 0..MAX_PROC

\* The part of ListInv that is about it alone.
AslInv ==
  /\ \A s \in Sem : IsInjective(s_procq[s])
  /\ SemaphoreQueues
  /\ IsFiniteSet(semd_h)
  /\ softblock_count = Cardinality({p \in Proc : p_sem_add[p] # NULL})

CountInv == process_count = MAX_PROC - Len(pcb_free)

IInv ==
  /\ TypeOK
  /\ ListInv
  /\ ControlInv
  /\ KillInv
  /\ ProcessTree
  /\ DeviceInv
  /\ CountInv

-----------------------------------------------------------------------------
(* Sizes and words.                                                         *)

\* The pcb table is finite and the null pointer is none of its entries.
LEMMA ProcFacts ==
  /\ IsFiniteSet(Proc) /\ Cardinality(Proc) = MAX_PROC
  /\ MAX_PROC \in Nat \ {0}
  /\ NULL \notin Proc
  /\ \A p \in Proc : p \in Int
  /\ MAX_PROC - 1 \in Proc
<1>1. MAX_PROC \in Nat \ {0}
  BY MaxProcAssumption
<1>2. IsFiniteSet(Proc) /\ Cardinality(Proc) = MAX_PROC
  BY <1>1, FS_Interval DEF Proc
<1> QED
  BY <1>1, <1>2, NullAssumption DEF Proc

\* The null pointer is no semaphore, and semaphores of processes, of devices
\* and of the clock are different.
LEMMA SemFacts ==
  /\ NULL \notin Sem
  /\ \A s \in Sem : s \in Int
  /\ Units \subseteq Sem /\ UserSems \subseteq Sem /\ TIMER_SEM \in Sem
  /\ \A u \in Units : u \notin UserSems /\ u # TIMER_SEM
<1>1. \A s \in UserSems : s \in Int /\ s > 48
  BY UserSemsAssumption DEF TIMER_SEM
<1>2. \A u \in Units : u \in 0..47
  BY UnitsAssumption DEF TIMER_SEM
<1>3. \A s \in Sem : s \in Int
  BY <1>1, <1>2 DEF Sem, TIMER_SEM
<1>4. \A u \in Units : u \notin UserSems /\ u # TIMER_SEM
  BY <1>1, <1>2 DEF TIMER_SEM
<1> QED
  BY <1>3, <1>4, NullAssumption DEF Sem

\* A list that holds no pcb twice is no longer than the table.
LEMMA ListBound ==
  ASSUME NEW q \in Seq(Proc), IsInjective(q)
  PROVE  Len(q) \in 0..MAX_PROC
<1>1. Len(q) \in Nat /\ q \in [1..Len(q) -> Proc]
  OBVIOUS
<1>2. q \in Injection(1..Len(q), Proc)
  BY <1>1 DEF Injection
<1>3. Cardinality(1..Len(q)) <= Cardinality(Proc)
  BY <1>2, ProcFacts, FS_Injection
<1>4. Cardinality(1..Len(q)) = Len(q)
  BY <1>1, FS_Interval
<1> QED
  BY <1>1, <1>3, <1>4, ProcFacts

\* A pid made from a slot and a recycle count is never the null pid, and it
\* does not wrap around (make_pid, scheduler_impl.h).
LEMMA MakePid ==
  ASSUME NEW id \in Proc, NEW rc \in 0..(RECYCLE_MOD - 1)
  PROVE  make_pid(id, rc) = id + rc * PID_SLOTS + 1 /\ make_pid(id, rc) \in Pid \ {0}
<1> DEFINE w == PID_SLOTS * RECYCLE_MOD
           t == rc * PID_SLOTS
<1>1. /\ PID_SLOTS \in Nat /\ MAX_PROC \in Nat \ {0} /\ MAX_PROC < PID_SLOTS
      /\ RECYCLE_MOD \in Nat \ {0} /\ id \in 0..(MAX_PROC - 1)
  BY PidAssumption, MaxProcAssumption DEF Proc
<1>2. t \in Nat /\ w \in Nat /\ t + PID_SLOTS <= w
  <2>1. PICK d \in Nat : RECYCLE_MOD = rc + 1 + d
    <3>1. RECYCLE_MOD - rc - 1 \in Nat /\ RECYCLE_MOD = rc + 1 + (RECYCLE_MOD - rc - 1)
      BY <1>1
    <3> QED
      BY <3>1
  <2>2. w = rc * PID_SLOTS + PID_SLOTS + d * PID_SLOTS
    BY <1>1, <2>1
  <2>3. d * PID_SLOTS \in Nat /\ rc * PID_SLOTS \in Nat
    BY <1>1, <2>1
  <2> QED
    BY <1>1, <2>2, <2>3
<1> HIDE DEF w, t
<1>3. id + t + 1 \in 1..(w - 1)
  BY <1>1, <1>2
<1>4. \A x \in 1..(w - 1) : x % w = x
  BY <1>2
<1> QED
  BY <1>1, <1>2, <1>3, <1>4 DEF make_pid, Pid, w, t

-----------------------------------------------------------------------------
(* Ready queues.                                                            *)

\* r is rq with p put in the queue of its priority, as far as elements go.
AddsReady(rq, p, r) ==
  \A b \in Prio, q \in Proc :
    q \in Range(r[b]) <=> (q # p /\ q \in Range(rq[b])) \/ (q = p /\ b = p_prio[p])

\* r is rq with p taken off the queue c.
TakesReady(rq, c, p, r) ==
  \A b \in Prio, q \in Proc :
    q \in Range(r[b]) <=> q \in Range(rq[b]) /\ (q # p \/ b # c)

\* enqueue_process puts a pcb in the queue of its priority and in no other.
LEMMA Enqueue ==
  ASSUME NEW rq \in [Prio -> Seq(Proc)], NEW p \in Proc, p_prio \in [Proc -> Prio],
         \A b \in Prio : IsInjective(rq[b]),
         NEW r, r = enqueue_process(rq, p)
  PROVE  /\ r \in [Prio -> Seq(Proc)]
         /\ \A b \in Prio : IsInjective(r[b])
         /\ AddsReady(rq, p, r)
<1> DEFINE d(b) == list_sdel(p, rq[b])
<1>1. ASSUME NEW b \in Prio
      PROVE  d(b) \in Seq(Proc) /\ IsInjective(d(b)) /\ Range(d(b)) = Range(rq[b]) \ {p}
  BY <1>1, Sdel
<1>2. ASSUME NEW b \in Prio
      PROVE  /\ list_add_tail(p, d(b)) \in Seq(Proc)
             /\ IsInjective(list_add_tail(p, d(b)))
             /\ Range(list_add_tail(p, d(b))) = Range(rq[b]) \cup {p}
  <2> DEFINE e == d(b)
             t == list_add_tail(p, e)
  <2>1. e \in Seq(Proc) /\ IsInjective(e) /\ Range(e) = Range(rq[b]) \ {p}
    BY <1>1
  <2>2. p \notin Range(e) /\ t = list_add_tail(p, e)
    BY <2>1
  <2> HIDE DEF e, t
  <2>3. t \in Seq(Proc) /\ IsInjective(t) /\ Range(t) = Range(e) \cup {p}
    BY <2>1, <2>2, AddTailNew
  <2>4. Range(e) \cup {p} = Range(rq[b]) \cup {p}
    BY <2>1
  <2> QED
    BY <2>3, <2>4 DEF e, t
<1>3. r = [b \in Prio |-> IF b = p_prio[p] THEN list_add_tail(p, d(b)) ELSE d(b)]
  BY DEF enqueue_process, insert_proc_q
<1> HIDE DEF d
<1> QED
  BY <1>1, <1>2, <1>3 DEF AddsReady

\* dequeue_process takes a pcb off the queue of its priority.
LEMMA Dequeue ==
  ASSUME NEW rq \in [Prio -> Seq(Proc)], NEW p \in Proc, p_prio \in [Proc -> Prio],
         \A b \in Prio : IsInjective(rq[b]),
         NEW r, r = dequeue_process(rq, p)
  PROVE  /\ r \in [Prio -> Seq(Proc)]
         /\ \A b \in Prio : IsInjective(r[b])
         /\ TakesReady(rq, p_prio[p], p, r)
         /\ (\A b \in Prio : p \notin Range(rq[b])) => r = rq
<1> DEFINE d == list_sdel(p, rq[p_prio[p]])
<1>1. /\ p_prio[p] \in Prio
      /\ d \in Seq(Proc) /\ IsInjective(d) /\ Range(d) = Range(rq[p_prio[p]]) \ {p}
      /\ p \notin Range(rq[p_prio[p]]) => d = rq[p_prio[p]]
  BY Sdel
<1>2. r = [rq EXCEPT ![p_prio[p]] = d]
  BY DEF dequeue_process
<1> HIDE DEF d
<1>3. \A b \in Prio : r[b] = IF b = p_prio[p] THEN d ELSE rq[b]
  BY <1>2
<1>4. (\A b \in Prio : p \notin Range(rq[b])) => r = rq
  BY <1>1, <1>2
<1>5. r \in [Prio -> Seq(Proc)]
  BY <1>1, <1>2
<1> QED
  BY <1>1, <1>3, <1>4, <1>5 DEF TakesReady

\* Taking the head of a ready queue.
LEMMA TakeReady ==
  ASSUME NEW rq \in [Prio -> Seq(Proc)], \A b \in Prio : IsInjective(rq[b]),
         NEW c \in Prio, rq[c] # << >>,
         NEW r, r = [rq EXCEPT ![c] = remove_proc_q(@)],
         NEW h, h = head_proc_q(rq[c])
  PROVE  /\ h \in Proc /\ h \in Range(rq[c])
         /\ r \in [Prio -> Seq(Proc)]
         /\ \A b \in Prio : IsInjective(r[b])
         /\ TakesReady(rq, c, h, r)
<1>1. /\ h \in Proc /\ h \in Range(rq[c])
      /\ Tail(rq[c]) \in Seq(Proc) /\ IsInjective(Tail(rq[c]))
      /\ Range(Tail(rq[c])) = Range(rq[c]) \ {h}
  BY TakeHead DEF head_proc_q
<1>2. r = [rq EXCEPT ![c] = Tail(rq[c])]
  BY DEF remove_proc_q
<1> QED
  BY <1>1, <1>2 DEF TakesReady

-----------------------------------------------------------------------------
(* Counting the blocked processes.                                          *)

\* The pcbs that a function p_sem_add says are blocked.
Blocked(f) == {q \in Proc : f[q] # NULL}

\* How many pcbs are blocked after one blocks, or after one is taken off.
LEMMA CountBlocked ==
  ASSUME NEW f, NEW g, NEW p \in Proc, \A q \in Proc \ {p} : g[q] = f[q]
  PROVE  /\ Cardinality(Blocked(f)) \in 0..MAX_PROC
         /\ Cardinality(Blocked(g)) \in 0..MAX_PROC
         /\ f[p] = NULL /\ g[p] # NULL =>
              Cardinality(Blocked(g)) = Cardinality(Blocked(f)) + 1
         /\ f[p] # NULL /\ g[p] = NULL =>
              Cardinality(Blocked(g)) = Cardinality(Blocked(f)) - 1
<1>1. ASSUME NEW h
      PROVE  IsFiniteSet(Blocked(h)) /\ Cardinality(Blocked(h)) \in 0..MAX_PROC
  <2>1. Blocked(h) \in SUBSET Proc
    BY DEF Blocked
  <2>2. IsFiniteSet(Blocked(h)) /\ Cardinality(Blocked(h)) <= MAX_PROC
    BY <2>1, ProcFacts, FS_Subset
  <2>3. Cardinality(Blocked(h)) \in Nat
    BY <2>2, FS_CardinalityType
  <2> QED
    BY <2>2, <2>3, ProcFacts
<1>2. ASSUME f[p] = NULL, g[p] # NULL
      PROVE  Cardinality(Blocked(g)) = Cardinality(Blocked(f)) + 1
  <2>1. Blocked(g) = Blocked(f) \cup {p} /\ p \notin Blocked(f)
    BY <1>2 DEF Blocked
  <2> QED
    BY <1>1, <2>1, FS_AddElement
<1>3. ASSUME f[p] # NULL, g[p] = NULL
      PROVE  Cardinality(Blocked(g)) = Cardinality(Blocked(f)) - 1
  <2>1. Blocked(g) = Blocked(f) \ {p} /\ p \in Blocked(f)
    BY <1>3 DEF Blocked
  <2> QED
    BY <1>1, <2>1, FS_RemoveElement
<1> QED
  BY <1>1, <1>2, <1>3

-----------------------------------------------------------------------------
(* The active semaphore list.                                               *)

\* A pcb that is in no list is not blocked, and the head of the queue of a
\* semaphore is a pcb blocked on it.
LEMMA BlockedFacts ==
  ASSUME AslType, AslInv
  PROVE  /\ \A p \in Proc : IsBlocked(p) <=> p_sem_add[p] # NULL
         /\ \A p \in Proc : is_blocked(p) <=> p_sem_add[p] # NULL
         /\ \A s \in Sem : head_blocked(s) # NULL =>
              head_blocked(s) \in Proc /\ p_sem_add[head_blocked(s)] = s
         /\ \A s \in Sem : head_blocked(s) = NULL <=> s_procq[s] = << >>
<1>1. \A p \in Proc : IsBlocked(p) <=> p_sem_add[p] # NULL
  BY SemFacts DEF AslType, AslInv, SemaphoreQueues, IsBlocked
<1>2. \A s \in Sem : s \in semd_h <=> s_procq[s] # << >>
  BY DEF AslInv, SemaphoreQueues, list_empty
<1>3. \A p \in Proc, s \in Sem : p \in Range(s_procq[s]) <=> p_sem_add[p] = s
  BY DEF AslInv, SemaphoreQueues, list_contains
<1>4. ASSUME NEW s \in Sem
      PROVE  /\ s_procq[s] # << >> => Head(s_procq[s]) \in Proc /\ Head(s_procq[s]) \in Range(s_procq[s])
             /\ s_procq[s] = << >> => Range(s_procq[s]) = {}
  BY TakeHead, EmptyList DEF AslType
<1>5. \A p \in Proc : is_blocked(p) <=> p_sem_add[p] # NULL
  BY <1>2, <1>3, <1>4 DEF is_blocked, find_semd, list_contains, AslType
<1>6. \A s \in Sem : head_blocked(s) = IF s_procq[s] # << >> THEN Head(s_procq[s]) ELSE NULL
  BY <1>2 DEF head_blocked, find_semd
<1> QED
  BY <1>1, <1>3, <1>4, <1>5, <1>6, ProcFacts

\* insert_blocked on a pcb that is not blocked, with a descriptor to spare.
LEMMA InsertBlocked ==
  ASSUME AslType, AslInv, NEW s \in Sem, NEW p \in Proc,
         ~insert_blocked_fails(s, p), insert_blocked(s, p),
         softblock_count' = softblock_count + 1
  PROVE  /\ AslType' /\ AslInv'
         /\ p_sem_add[p] = NULL
         /\ p_sem_add' = [p_sem_add EXCEPT ![p] = s]
         /\ \A r \in Sem \ {s} : s_procq'[r] = s_procq[r]
<1>1. p_sem_add[p] = NULL /\ (s \notin semd_h => semd_free # 0)
  BY DEF insert_blocked_fails, alloc_semd_fails, find_semd
<1>2. /\ \A r \in Sem : r \in semd_h <=> s_procq[r] # << >>
      /\ \A q \in Proc, r \in Sem : q \in Range(s_procq[r]) <=> p_sem_add[q] = r
      /\ semd_free + Cardinality(semd_h) = MAX_PROC
      /\ IsFiniteSet(semd_h)
      /\ \A r \in Sem : IsInjective(s_procq[r])
  BY DEF AslInv, SemaphoreQueues, list_empty, list_contains
<1> DEFINE n == list_add_tail(p, s_procq[s])
<1>3. p \notin Range(s_procq[s])
  BY <1>1, <1>2, SemFacts
<1>4. /\ n \in Seq(Proc) /\ IsInjective(n) /\ Range(n) = Range(s_procq[s]) \cup {p}
  <2>1. s_procq[s] \in Seq(Proc) /\ IsInjective(s_procq[s])
    BY <1>2 DEF AslType
  <2>2. n = list_add_tail(p, s_procq[s])
    OBVIOUS
  <2> HIDE DEF n
  <2> QED
    BY <1>3, <2>1, <2>2, AddTailNew
<1>5. n # << >>
  BY <1>4, EmptyList
<1>6. s_procq' = [s_procq EXCEPT ![s] = n] /\ p_sem_add' = [p_sem_add EXCEPT ![p] = s]
  BY DEF insert_blocked
<1> HIDE DEF n
<1>7. semd_h' = semd_h \cup {s} /\ semd_free' = IF s \in semd_h THEN semd_free ELSE semd_free - 1
  BY DEF insert_blocked, find_semd, alloc_semd
<1>8. IsFiniteSet(semd_h') /\ semd_free' + Cardinality(semd_h') = MAX_PROC
      /\ semd_free' \in 0..MAX_PROC
  <2>1. IsFiniteSet(semd_h \cup {s}) /\ Cardinality(semd_h \cup {s})
          = IF s \in semd_h THEN Cardinality(semd_h) ELSE Cardinality(semd_h) + 1
    BY <1>2, FS_AddElement
  <2>2. Cardinality(semd_h) \in Nat
    BY <1>2, FS_CardinalityType
  <2> QED
    BY <1>1, <1>2, <1>7, <2>1, <2>2, ProcFacts DEF AslType
<1>9. s_procq' \in [Sem -> Seq(Proc)] /\ p_sem_add' \in [Proc -> Sem \cup {NULL}]
      /\ semd_h' \subseteq Sem
  BY <1>4, <1>6, <1>7 DEF AslType
<1>10. \A r \in Sem : s_procq'[r] = IF r = s THEN n ELSE s_procq[r]
  BY <1>6 DEF AslType
<1>11. \A q \in Proc : p_sem_add'[q] = IF q = p THEN s ELSE p_sem_add[q]
  BY <1>6 DEF AslType
<1>12. \A r \in Sem : r \in semd_h' <=> s_procq'[r] # << >>
  BY <1>2, <1>5, <1>7, <1>10
<1>13. \A q \in Proc, r \in Sem : q \in Range(s_procq'[r]) <=> p_sem_add'[q] = r
  BY <1>1, <1>2, <1>3, <1>4, <1>10, <1>11, SemFacts
<1>14. \A r \in Sem : IsInjective(s_procq'[r])
  BY <1>2, <1>4, <1>10
<1>15. softblock_count' = Cardinality({q \in Proc : p_sem_add'[q] # NULL})
       /\ softblock_count' \in 0..MAX_PROC
  <2>1. p_sem_add \in [Proc -> Sem \cup {NULL}] /\ p_sem_add'[p] # NULL
    BY <1>11, SemFacts DEF AslType
  <2>2. Cardinality(Blocked(p_sem_add')) = Cardinality(Blocked(p_sem_add)) + 1
        /\ Cardinality(Blocked(p_sem_add')) \in 0..MAX_PROC
    BY <1>1, <1>11, <2>1, CountBlocked
  <2> QED
    BY <2>2 DEF AslInv, Blocked
<1>16. SemaphoreQueues'
  BY <1>8, <1>12, <1>13 DEF SemaphoreQueues, list_empty, list_contains
<1> QED
  BY <1>1, <1>6, <1>8, <1>9, <1>10, <1>14, <1>15, <1>16 DEF AslType, AslInv

\* out_blocked on a blocked pcb: a descriptor left with no pcb is freed.
LEMMA OutBlocked ==
  ASSUME AslType, AslInv, NEW p \in Proc, p_sem_add[p] # NULL, out_blocked(p),
         softblock_count' = softblock_count - 1
  PROVE  /\ AslType' /\ AslInv'
         /\ p_sem_add' = [p_sem_add EXCEPT ![p] = NULL]
         /\ p_sem_add[p] \in Sem
         /\ \A r \in Sem \ {p_sem_add[p]} : s_procq'[r] = s_procq[r]
         /\ \A r \in Sem : s_procq[r] = << >> => s_procq'[r] = << >>
<1> DEFINE s == p_sem_add[p]
           n == list_sdel(p, s_procq[s])
<1>1. s \in Sem
  BY DEF AslType
<1>2. /\ \A r \in Sem : r \in semd_h <=> s_procq[r] # << >>
      /\ \A q \in Proc, r \in Sem : q \in Range(s_procq[r]) <=> p_sem_add[q] = r
      /\ semd_free + Cardinality(semd_h) = MAX_PROC
      /\ IsFiniteSet(semd_h)
      /\ \A r \in Sem : IsInjective(s_procq[r])
  BY DEF AslInv, SemaphoreQueues, list_empty, list_contains
<1>3. p \in Range(s_procq[s]) /\ s_procq[s] \in Seq(Proc)
  BY <1>1, <1>2 DEF AslType
<1>4. n \in Seq(Proc) /\ IsInjective(n) /\ Range(n) = Range(s_procq[s]) \ {p}
  BY <1>1, <1>2, <1>3, Sdel
<1>5. s_procq[s] # << >> /\ s \in semd_h
  BY <1>1, <1>2, <1>3, EmptyList
<1>6. s_procq' = [s_procq EXCEPT ![s] = n] /\ p_sem_add' = [p_sem_add EXCEPT ![p] = NULL]
  BY DEF out_blocked
<1>7. /\ semd_h' = IF n = << >> THEN semd_h \ {s} ELSE semd_h
      /\ semd_free' = IF n = << >> THEN semd_free + 1 ELSE semd_free
  BY DEF out_blocked, free_semd, list_empty
<1>8. s \in Sem /\ s # NULL /\ s = p_sem_add[p]
  BY <1>1
<1> HIDE DEF n, s
<1>9. IsFiniteSet(semd_h') /\ semd_free' + Cardinality(semd_h') = MAX_PROC
      /\ semd_free' \in 0..MAX_PROC
  <2>1. IsFiniteSet(semd_h \ {s}) /\ Cardinality(semd_h \ {s}) = Cardinality(semd_h) - 1
    BY <1>2, <1>5, FS_RemoveElement
  <2>2. Cardinality(semd_h) \in Nat /\ Cardinality(semd_h \ {s}) \in Nat
    BY <1>2, <2>1, FS_CardinalityType
  <2> QED
    <3>1. CASE n = << >>
      BY <3>1, <1>2, <1>7, <2>1, <2>2, ProcFacts DEF AslType
    <3>2. CASE n # << >>
      BY <3>2, <1>2, <1>7 DEF AslType
    <3> QED
      BY <3>1, <3>2
<1>10. s_procq' \in [Sem -> Seq(Proc)] /\ p_sem_add' \in [Proc -> Sem \cup {NULL}]
      /\ semd_h' \subseteq Sem
  BY <1>4, <1>6, <1>7 DEF AslType
<1>11. \A r \in Sem : s_procq'[r] = IF r = s THEN n ELSE s_procq[r]
  BY <1>6 DEF AslType
<1>12. \A q \in Proc : p_sem_add'[q] = IF q = p THEN NULL ELSE p_sem_add[q]
  BY <1>6 DEF AslType
<1>13. \A r \in Sem : r \in semd_h' <=> s_procq'[r] # << >>
  BY <1>2, <1>5, <1>7, <1>11
<1>14. \A q \in Proc, r \in Sem : q \in Range(s_procq'[r]) <=> p_sem_add'[q] = r
  BY <1>2, <1>4, <1>8, <1>11, <1>12, SemFacts
<1>15. \A r \in Sem : IsInjective(s_procq'[r])
  BY <1>2, <1>4, <1>11
<1>16. softblock_count' = Cardinality({q \in Proc : p_sem_add'[q] # NULL})
       /\ softblock_count' \in 0..MAX_PROC
  <2>1. p_sem_add \in [Proc -> Sem \cup {NULL}] /\ p_sem_add'[p] = NULL
    BY <1>12 DEF AslType
  <2>2. Cardinality(Blocked(p_sem_add')) = Cardinality(Blocked(p_sem_add)) - 1
        /\ Cardinality(Blocked(p_sem_add')) \in 0..MAX_PROC
    BY <1>12, <2>1, CountBlocked
  <2> QED
    BY <2>2 DEF AslInv, Blocked
<1>17. SemaphoreQueues'
  BY <1>9, <1>13, <1>14 DEF SemaphoreQueues, list_empty, list_contains
<1>18. \A r \in Sem : s_procq[r] = << >> => s_procq'[r] = << >>
  BY <1>5, <1>11
<1> QED
  BY <1>6, <1>8, <1>9, <1>10, <1>11, <1>15, <1>16, <1>17, <1>18 DEF AslType, AslInv

-----------------------------------------------------------------------------
(* Blocking, waking, choosing, creating and killing: what becomes of the    *)
(* lists and of the pcbs that are in none.                                  *)

\* ListType and ListInv taken apart.
LEMMA ListParts ==
  /\ ListType <=> AslType /\ pcb_free \in Seq(Proc) /\ p_prio \in [Proc -> Prio]
                  /\ ready_queue \in [Prio -> Seq(Proc)]
  /\ ListInv <=> AslInv /\ IsInjective(pcb_free) /\ ListsDisjoint /\ ReadyByPriority
                 /\ \A b \in Prio : IsInjective(ready_queue[b])
  BY DEF ListType, ListInv, AslType, AslInv, ListsInjective

\* A caller of insert_blocked that hands over a pcb in no list moves it to the
\* queue of the semaphore, and nothing else changes (P and V of semaphores.c).
LEMMA Blocks ==
  ASSUME ListType, ListInv, NEW s \in Sem, NEW p \in Proc, list_null(p),
         ~insert_blocked_fails(s, p), BlockOn(s, p),
         pcb_free' = pcb_free, p_prio' = p_prio
  PROVE  /\ ListType' /\ ListInv'
         /\ ready_queue' = ready_queue
         /\ \A q \in Proc : list_null(q)' <=> list_null(q) /\ q # p
         /\ \A r \in Sem \ {s} : s_procq'[r] = s_procq[r]
<1>1. /\ AslType /\ AslInv /\ ListsDisjoint /\ ReadyByPriority
      /\ p_prio \in [Proc -> Prio] /\ ready_queue \in [Prio -> Seq(Proc)]
      /\ pcb_free \in Seq(Proc) /\ IsInjective(pcb_free)
      /\ \A b \in Prio : IsInjective(ready_queue[b])
  BY ListParts
<1>2. /\ AslType' /\ AslInv'
      /\ p_sem_add[p] = NULL
      /\ p_sem_add' = [p_sem_add EXCEPT ![p] = s]
      /\ \A r \in Sem \ {s} : s_procq'[r] = s_procq[r]
  BY <1>1, InsertBlocked DEF BlockOn
<1>3. ready_queue' = ready_queue
  <2>1. \A b \in Prio : p \notin Range(ready_queue[b])
    BY DEF list_null, IsReady, list_contains
  <2> QED
    BY <1>1, <2>1, Dequeue DEF BlockOn
<1>4. \A q \in Proc : /\ IsFree(q)' <=> IsFree(q)
                      /\ IsReady(q)' <=> IsReady(q)
                      /\ IsBlocked(q)' <=> IsBlocked(q) \/ q = p
  <2>1. \A q \in Proc : IsBlocked(q) <=> p_sem_add[q] # NULL
    BY <1>1, BlockedFacts
  <2>2. \A q \in Proc : IsBlocked(q)' <=> p_sem_add'[q] # NULL
    BY <1>2, SemFacts DEF AslType, AslInv, SemaphoreQueues, IsBlocked
  <2>3. \A q \in Proc : p_sem_add'[q] # NULL <=> p_sem_add[q] # NULL \/ q = p
    BY <1>1, <1>2, SemFacts DEF AslType
  <2> QED
    BY <1>3, <2>1, <2>2, <2>3 DEF IsFree, IsReady
<1>5. ListsDisjoint'
  BY <1>1, <1>4 DEF ListsDisjoint, list_null
<1>6. ReadyByPriority'
  BY <1>1, <1>3 DEF ReadyByPriority
<1>7. \A q \in Proc : list_null(q)' <=> list_null(q) /\ q # p
  BY <1>4 DEF list_null
<1>8. ListType' /\ ListInv'
  BY <1>1, <1>2, <1>3, <1>5, <1>6 DEF ListType, ListInv, AslType, AslInv, ListsInjective
<1> QED
  BY <1>2, <1>3, <1>7, <1>8

\* Waking the first process of a queue moves it to its ready queue.
LEMMA Wakes ==
  ASSUME ListType, ListInv, NEW s \in Sem, head_blocked(s) # NULL, WakeHead(s),
         pcb_free' = pcb_free, p_prio' = p_prio
  PROVE  /\ ListType' /\ ListInv'
         /\ \A q \in Proc : list_null(q)' <=> list_null(q)
         /\ \A r \in Sem \ {s} : s_procq'[r] = s_procq[r]
<1>1. /\ AslType /\ AslInv /\ ListsDisjoint /\ ReadyByPriority
      /\ p_prio \in [Proc -> Prio] /\ ready_queue \in [Prio -> Seq(Proc)]
      /\ pcb_free \in Seq(Proc) /\ IsInjective(pcb_free)
      /\ \A b \in Prio : IsInjective(ready_queue[b])
  BY ListParts
<1> DEFINE p == head_blocked(s)
<1>2. p \in Proc /\ p_sem_add[p] = s
  BY <1>1, BlockedFacts
<1>3. /\ out_blocked(p) /\ softblock_count' = softblock_count - 1
      /\ ready_queue' = enqueue_process(ready_queue, p)
  BY DEF WakeHead
<1> HIDE DEF p
<1>4. /\ AslType' /\ AslInv'
      /\ p_sem_add' = [p_sem_add EXCEPT ![p] = NULL]
      /\ \A r \in Sem \ {s} : s_procq'[r] = s_procq[r]
  BY <1>1, <1>2, <1>3, OutBlocked, SemFacts
<1>5. /\ ready_queue' \in [Prio -> Seq(Proc)]
      /\ \A b \in Prio : IsInjective(ready_queue'[b])
      /\ AddsReady(ready_queue, p, ready_queue')
  BY <1>1, <1>2, <1>3, Enqueue
<1>6. IsBlocked(p) /\ ~IsReady(p)
  BY <1>1, <1>2, BlockedFacts, SemFacts DEF ListsDisjoint
<1>7. \A q \in Proc : /\ IsFree(q)' <=> IsFree(q)
                      /\ IsReady(q)' <=> IsReady(q) \/ q = p
                      /\ IsBlocked(q)' <=> IsBlocked(q) /\ q # p
  <2>1. \A q \in Proc : IsBlocked(q) <=> p_sem_add[q] # NULL
    BY <1>1, BlockedFacts
  <2>2. \A q \in Proc : IsBlocked(q)' <=> p_sem_add'[q] # NULL
    BY <1>4, SemFacts DEF AslType, AslInv, SemaphoreQueues, IsBlocked
  <2>3. \A q \in Proc : p_sem_add'[q] # NULL <=> p_sem_add[q] # NULL /\ q # p
    BY <1>1, <1>4 DEF AslType
  <2>4. p_prio[p] \in Prio
    BY <1>1, <1>2
  <2>5. \A q \in Proc : IsReady(q)' <=> IsReady(q) \/ q = p
    BY <1>5, <1>6, <2>4 DEF IsReady, list_contains, AddsReady
  <2> QED
    BY <2>1, <2>2, <2>3, <2>5 DEF IsFree
<1>8. ListsDisjoint'
  BY <1>1, <1>6, <1>7 DEF ListsDisjoint
<1>9. ReadyByPriority'
  <2>1. \A b \in Prio : \A q \in Range(ready_queue'[b]) : p_prio[q] = b
    BY <1>1, <1>5, RangeByIndex DEF ReadyByPriority, AddsReady
  <2> QED
    BY <2>1 DEF ReadyByPriority
<1>10. \A q \in Proc : list_null(q)' <=> list_null(q)
  BY <1>6, <1>7 DEF list_null
<1>11. ListType' /\ ListInv'
  BY <1>1, <1>4, <1>5, <1>8, <1>9 DEF ListType, ListInv, AslType, AslInv, ListsInjective
<1> QED
  BY <1>4, <1>10, <1>11

\* q is in one of the queues rq.
InReady(rq, q) == \E b \in Prio : q \in Range(rq[b])

\* rq could be the ready queues.
ReadyOK(rq) ==
  /\ rq \in [Prio -> Seq(Proc)]
  /\ \A b \in Prio : IsInjective(rq[b])
  /\ \A b \in Prio : \A q \in Range(rq[b]) : p_prio[q] = b
  /\ \A q \in Proc : InReady(rq, q) => ~IsFree(q) /\ ~IsBlocked(q)

\* r is rq with p added; r is rq with p taken off.
ReadyPlus(rq, p, r) == \A q \in Proc : InReady(r, q) <=> InReady(rq, q) \/ q = p
ReadyMinus(rq, p, r) == \A q \in Proc : InReady(r, q) <=> InReady(rq, q) /\ q # p

\* The ready queues are such queues.
LEMMA ReadyNow ==
  ASSUME ListType, ListInv
  PROVE  ReadyOK(ready_queue) /\ \A q \in Proc : InReady(ready_queue, q) <=> IsReady(q)
<1>1. \A q \in Proc : InReady(ready_queue, q) <=> IsReady(q)
  BY DEF InReady, IsReady, list_contains
<1> QED
  BY <1>1 DEF ListType, ListInv, ReadyOK, ListsInjective, ListsDisjoint, ReadyByPriority

\* Enqueuing a pcb that is neither free nor blocked.
LEMMA ReadyEnqueue ==
  ASSUME NEW rq, ReadyOK(rq), NEW p \in Proc, ~IsFree(p), ~IsBlocked(p),
         p_prio \in [Proc -> Prio], NEW r, r = enqueue_process(rq, p)
  PROVE  ReadyOK(r) /\ ReadyPlus(rq, p, r) /\ ~(r[0] = << >> /\ r[1] = << >>)
<1>1. rq \in [Prio -> Seq(Proc)] /\ \A b \in Prio : IsInjective(rq[b])
  BY DEF ReadyOK
<1>2. /\ r \in [Prio -> Seq(Proc)]
      /\ \A b \in Prio : IsInjective(r[b])
      /\ AddsReady(rq, p, r)
  BY <1>1, Enqueue
<1>3. p_prio[p] \in Prio
  OBVIOUS
<1>4. \A b \in Prio : Range(r[b]) \subseteq Proc
  BY <1>2, RangeByIndex
<1>5. \A b \in Prio : \A q \in Range(r[b]) : p_prio[q] = b
  BY <1>2, <1>4 DEF ReadyOK, AddsReady
<1>6. InReady(rq, p) => p \in Range(rq[p_prio[p]])
  BY DEF InReady, ReadyOK
<1>7. ReadyPlus(rq, p, r)
  BY <1>2, <1>3 DEF ReadyPlus, InReady, AddsReady
<1>8. \A q \in Proc : InReady(r, q) => ~IsFree(q) /\ ~IsBlocked(q)
  BY <1>7 DEF ReadyPlus, ReadyOK
<1>9. ~(r[0] = << >> /\ r[1] = << >>)
  <2>1. p \in Range(r[p_prio[p]])
    BY <1>2, <1>3 DEF AddsReady
  <2>2. Range(<< >>) = {}
    BY NilList
  <2> QED
    BY <1>3, <2>1, <2>2 DEF Prio
<1> QED
  BY <1>2, <1>5, <1>7, <1>8, <1>9 DEF ReadyOK

\* Taking the head of one of the queues.
LEMMA ReadyTake ==
  ASSUME NEW rq, ReadyOK(rq), NEW c \in Prio, rq[c] # << >>,
         NEW r, r = [rq EXCEPT ![c] = remove_proc_q(@)],
         NEW h, h = head_proc_q(rq[c])
  PROVE  h \in Proc /\ InReady(rq, h) /\ ReadyOK(r) /\ ReadyMinus(rq, h, r)
<1>1. rq \in [Prio -> Seq(Proc)] /\ \A b \in Prio : IsInjective(rq[b])
  BY DEF ReadyOK
<1>2. /\ h \in Proc /\ h \in Range(rq[c])
      /\ r \in [Prio -> Seq(Proc)]
      /\ \A b \in Prio : IsInjective(r[b])
      /\ TakesReady(rq, c, h, r)
  BY <1>1, TakeReady
<1>3. \A b \in Prio : Range(r[b]) \subseteq Proc
  BY <1>2, RangeByIndex
<1>4. p_prio[h] = c
  BY <1>2 DEF ReadyOK
<1>5. \A b \in Prio : \A q \in Range(r[b]) : p_prio[q] = b
  BY <1>2, <1>3 DEF ReadyOK, TakesReady
<1>6. ReadyMinus(rq, h, r)
  BY <1>2, <1>4 DEF ReadyMinus, InReady, TakesReady, ReadyOK
<1>7. \A q \in Proc : InReady(r, q) => ~IsFree(q) /\ ~IsBlocked(q)
  BY <1>6 DEF ReadyMinus, ReadyOK
<1>8. InReady(rq, h)
  BY <1>2 DEF InReady
<1> QED
  BY <1>2, <1>5, <1>6, <1>7, <1>8 DEF ReadyOK

\* The lists after a step that only changes the ready queues.
LEMMA ReadyThen ==
  ASSUME ListType, ListInv, ReadyOK(ready_queue'),
         UNCHANGED << pcb_free, p_prio, aslVars, softblock_count >>
  PROVE  /\ ListType' /\ ListInv'
         /\ \A q \in Proc : list_null(q)'
                <=> ~IsFree(q) /\ ~IsBlocked(q) /\ ~InReady(ready_queue', q)
<1>1. \A q \in Proc : /\ IsFree(q)' <=> IsFree(q)
                      /\ IsBlocked(q)' <=> IsBlocked(q)
                      /\ IsReady(q)' <=> InReady(ready_queue', q)
  BY DEF IsFree, IsBlocked, IsReady, InReady, list_contains, aslVars
<1>2. ListsDisjoint'
  BY <1>1 DEF ListInv, ListsDisjoint, ReadyOK
<1>3. ListType'
  BY DEF ListType, ReadyOK, aslVars
<1>4. ReadyByPriority'
  BY DEF ReadyByPriority, ReadyOK
<1>5. SemaphoreQueues' /\ IsFiniteSet(semd_h')
      /\ softblock_count' = Cardinality({p \in Proc : p_sem_add'[p] # NULL})
  BY DEF ListInv, SemaphoreQueues, aslVars
<1>6. ListsInjective'
  BY DEF ListInv, ListsInjective, ReadyOK, aslVars
<1> QED
  BY <1>1, <1>2, <1>3, <1>4, <1>5, <1>6 DEF ListInv, list_null

\* kill_process unlinks a pcb from wherever it is and frees it.
LEMMA Killed ==
  ASSUME ListType, ListInv, NEW p \in Proc, ~IsFree(p),
         UnlinkKilled(p), free_pcb(p), p_prio' = p_prio
  PROVE  /\ ListType' /\ ListInv'
         /\ pcb_free' = list_add(p, pcb_free)
         /\ p_pid' = [p_pid EXCEPT ![p] = NULL_PID]
         /\ \A q \in Proc : IsFree(q)' <=> IsFree(q) \/ q = p
         /\ \A q \in Proc : list_null(q)' <=> list_null(q) /\ q # p
         /\ \A r \in Sem : s_procq[r] = << >> => s_procq'[r] = << >>
<1>1. /\ AslType /\ AslInv /\ ListsDisjoint /\ ReadyByPriority
      /\ p_prio \in [Proc -> Prio] /\ ready_queue \in [Prio -> Seq(Proc)]
      /\ pcb_free \in Seq(Proc) /\ IsInjective(pcb_free)
      /\ \A b \in Prio : IsInjective(ready_queue[b])
  BY ListParts
<1>2. p \notin Range(pcb_free)
  BY DEF IsFree, list_contains
<1>3. pcb_free' = list_add(p, pcb_free) /\ p_pid' = [p_pid EXCEPT ![p] = NULL_PID]
  BY <1>2 DEF free_pcb, list_contains
<1>4. pcb_free' \in Seq(Proc) /\ IsInjective(pcb_free') /\ Range(pcb_free') = Range(pcb_free) \cup {p}
  BY <1>1, <1>2, <1>3, AddHeadNew
<1>5. \A q \in Proc : IsFree(q)' <=> IsFree(q) \/ q = p
  BY <1>4 DEF IsFree, list_contains
<1>6. \A q \in Proc : IsBlocked(q) <=> p_sem_add[q] # NULL
  BY <1>1, BlockedFacts
<1>7. CASE is_blocked(p)
  <2>1. p_sem_add[p] # NULL
    BY <1>1, <1>7, BlockedFacts
  <2>2. out_blocked(p) /\ softblock_count' = softblock_count - 1 /\ ready_queue' = ready_queue
    BY <1>7 DEF UnlinkKilled
  <2>3. /\ AslType' /\ AslInv'
        /\ p_sem_add' = [p_sem_add EXCEPT ![p] = NULL]
        /\ \A r \in Sem : s_procq[r] = << >> => s_procq'[r] = << >>
    BY <1>1, <2>1, <2>2, OutBlocked
  <2>4. \A q \in Proc : IsBlocked(q)' <=> p_sem_add'[q] # NULL
    BY <2>3, SemFacts DEF AslType, AslInv, SemaphoreQueues, IsBlocked
  <2>5. \A q \in Proc : IsBlocked(q)' <=> IsBlocked(q) /\ q # p
    BY <1>1, <1>6, <2>3, <2>4 DEF AslType
  <2>6. \A q \in Proc : IsReady(q)' <=> IsReady(q)
    BY <2>2 DEF IsReady
  <2>7. ~IsReady(p) /\ IsBlocked(p)
    BY <1>1, <1>6, <2>1 DEF ListsDisjoint
  <2>8. ListsDisjoint'
    BY <1>1, <1>5, <2>5, <2>6, <2>7 DEF ListsDisjoint
  <2>9. ReadyByPriority'
    BY <1>1, <2>2 DEF ReadyByPriority
  <2>10. ListType' /\ ListInv'
    BY <1>1, <1>4, <2>2, <2>3, <2>8, <2>9
       DEF ListType, ListInv, AslType, AslInv, ListsInjective
  <2>11. \A q \in Proc : list_null(q)' <=> list_null(q) /\ q # p
    BY <1>5, <2>5, <2>6, <2>7 DEF list_null
  <2> QED
    BY <1>3, <1>5, <2>3, <2>10, <2>11
<1>8. CASE ~is_blocked(p)
  <2>1. p_sem_add[p] = NULL
    BY <1>1, <1>8, BlockedFacts
  <2>2. /\ ready_queue' = dequeue_process(ready_queue, p)
        /\ UNCHANGED << aslVars, softblock_count >>
    BY <1>8 DEF UnlinkKilled
  <2>3. /\ ready_queue' \in [Prio -> Seq(Proc)]
        /\ \A b \in Prio : IsInjective(ready_queue'[b])
        /\ TakesReady(ready_queue, p_prio[p], p, ready_queue')
    BY <1>1, <2>2, Dequeue
  <2>4. \A q \in Proc : IsBlocked(q)' <=> IsBlocked(q)
    BY <2>2 DEF IsBlocked, aslVars
  <2>5. \A q \in Proc : IsReady(q)' <=> IsReady(q) /\ q # p
    BY <1>1, <2>3 DEF IsReady, list_contains, TakesReady, ReadyByPriority
  <2>6. ~IsBlocked(p)
    BY <1>6, <2>1
  <2>7. ListsDisjoint'
    BY <1>1, <1>5, <2>4, <2>5, <2>6 DEF ListsDisjoint
  <2>8. ReadyByPriority'
    <3>1. \A b \in Prio : \A q \in Range(ready_queue'[b]) : p_prio[q] = b
      BY <1>1, <2>3, RangeByIndex DEF ReadyByPriority, TakesReady
    <3> QED
      BY <3>1 DEF ReadyByPriority
  <2>9. AslType' /\ AslInv'
    BY <1>1, <2>2 DEF AslType, AslInv, SemaphoreQueues, aslVars
  <2>10. ListType' /\ ListInv'
    BY <1>1, <1>4, <2>3, <2>7, <2>8, <2>9
       DEF ListType, ListInv, AslType, AslInv, ListsInjective
  <2>11. \A q \in Proc : list_null(q)' <=> list_null(q) /\ q # p
    BY <1>5, <2>4, <2>5 DEF list_null
  <2>12. \A r \in Sem : s_procq[r] = << >> => s_procq'[r] = << >>
    BY <2>2 DEF aslVars
  <2> QED
    BY <1>3, <1>5, <2>10, <2>11, <2>12
<1> QED
  BY <1>7, <1>8

\* spawn_process takes a pcb off the free list and makes it ready.
LEMMA Spawned ==
  ASSUME ListType, ListInv, alloc_pcb # NULL, NEW prio \in Prio,
         spawn_process(alloc_pcb, prio),
         UNCHANGED << semd_h, semd_free, s_procq, softblock_count >>
  PROVE  /\ ListType' /\ ListInv'
         /\ alloc_pcb \in Proc /\ IsFree(alloc_pcb)
         /\ Len(pcb_free') = Len(pcb_free) - 1
         /\ \A q \in Proc : IsFree(q)' <=> IsFree(q) /\ q # alloc_pcb
         /\ \A q \in Proc : list_null(q)' <=> list_null(q)
<1>1. /\ AslType /\ AslInv /\ ListsDisjoint /\ ReadyByPriority
      /\ p_prio \in [Proc -> Prio] /\ ready_queue \in [Prio -> Seq(Proc)]
      /\ pcb_free \in Seq(Proc) /\ IsInjective(pcb_free)
      /\ \A b \in Prio : IsInjective(ready_queue[b])
  BY ListParts
<1>2. pcb_free # << >> /\ alloc_pcb = Head(pcb_free)
  BY DEF alloc_pcb, list_empty
<1> DEFINE c == alloc_pcb
<1>3. c \in Proc /\ c \in Range(pcb_free)
  BY <1>1, <1>2, TakeHead
<1>4. pcb_free' = Tail(pcb_free)
  BY DEF spawn_process, remove_proc_q
<1>5. /\ pcb_free' \in Seq(Proc) /\ Len(pcb_free') = Len(pcb_free) - 1
      /\ IsInjective(pcb_free') /\ Range(pcb_free') = Range(pcb_free) \ {c}
  BY <1>1, <1>2, <1>4, TakeHead
<1>6. /\ p_prio' = [p_prio EXCEPT ![c] = prio]
      /\ p_sem_add' = [p_sem_add EXCEPT ![c] = NULL]
      /\ ready_queue' = [ready_queue EXCEPT ![prio] = insert_proc_q(@, c)]
  BY DEF spawn_process
<1> HIDE DEF c
<1>7. IsFree(c) /\ ~IsReady(c) /\ ~IsBlocked(c)
  BY <1>1, <1>3 DEF IsFree, list_contains, ListsDisjoint
<1>8. p_sem_add' = p_sem_add
  <2>1. p_sem_add[c] = NULL
    BY <1>1, <1>3, <1>7, BlockedFacts
  <2> QED
    BY <1>1, <1>6, <2>1 DEF AslType
<1> DEFINE n == insert_proc_q(ready_queue[prio], c)
<1>9. /\ n \in Seq(Proc) /\ IsInjective(n) /\ Range(n) = Range(ready_queue[prio]) \cup {c}
  <2>1. ready_queue[prio] \in Seq(Proc) /\ IsInjective(ready_queue[prio])
        /\ c \notin Range(ready_queue[prio])
    BY <1>1, <1>7 DEF IsReady, list_contains
  <2>2. n = list_add_tail(c, ready_queue[prio])
    BY <2>1, Sdel DEF insert_proc_q
  <2> HIDE DEF n
  <2> QED
    BY <1>3, <2>1, <2>2, AddTailNew
<1>10. ready_queue' = [ready_queue EXCEPT ![prio] = n]
  BY <1>6
<1> HIDE DEF n
<1>11. /\ ready_queue' \in [Prio -> Seq(Proc)]
       /\ \A b \in Prio : IsInjective(ready_queue'[b])
  BY <1>1, <1>9, <1>10
<1>12. \A q \in Proc, b \in Prio : q \in Range(ready_queue'[b])
          <=> q \in Range(ready_queue[b]) \/ (q = c /\ b = prio)
  BY <1>1, <1>9, <1>10
<1>13. \A q \in Proc : /\ IsFree(q)' <=> IsFree(q) /\ q # c
                       /\ IsReady(q)' <=> IsReady(q) \/ q = c
                       /\ IsBlocked(q)' <=> IsBlocked(q)
  BY <1>5, <1>12 DEF IsFree, IsReady, IsBlocked, list_contains
<1>14. ListsDisjoint'
  BY <1>1, <1>7, <1>13 DEF ListsDisjoint
<1>15. ReadyByPriority'
  <2>1. ASSUME NEW b \in Prio, NEW q \in Range(ready_queue'[b])
        PROVE  p_prio'[q] = b
    <3>1. q \in Proc
      BY <1>11, RangeByIndex
    <3>2. CASE q = c
      BY <1>1, <1>3, <1>6, <1>7, <1>12, <2>1, <3>2 DEF IsReady, list_contains
    <3>3. CASE q # c
      BY <1>1, <1>6, <1>12, <2>1, <3>1, <3>3 DEF ReadyByPriority
    <3> QED
      BY <3>2, <3>3
  <2> QED
    BY <2>1 DEF ReadyByPriority
<1>16. p_prio' \in [Proc -> Prio]
  BY <1>1, <1>6
<1>17. ListType'
  BY <1>1, <1>5, <1>8, <1>11, <1>16 DEF ListType, AslType
<1>18. AslInv'
  BY <1>1, <1>8 DEF AslInv, SemaphoreQueues
<1>19. ListInv'
  BY <1>5, <1>11, <1>14, <1>15, <1>18 DEF ListInv, AslInv, ListsInjective
<1>20. \A q \in Proc : list_null(q)' <=> list_null(q)
  BY <1>7, <1>13 DEF list_null
<1> QED
  BY <1>3, <1>5, <1>7, <1>13, <1>17, <1>19, <1>20 DEF c

-----------------------------------------------------------------------------
(* P and V.                                                                 *)

\* The pcbs in no list stay the same, or lose p.
NullSame == \A q \in Proc : list_null(q)' <=> list_null(q)
NullMinus(p) == \A q \in Proc : list_null(q)' <=> list_null(q) /\ q # p

\* Semaphores other than s are left alone.
OthersSame(s) == \A r \in Sem \ {s} : s_procq'[r] = s_procq[r] /\ sem'[r] = sem[r]

\* A step that leaves the lists alone.
LEMMA ListsUnchanged ==
  ASSUME ListType, ListInv,
         UNCHANGED << pcb_free, p_prio, aslVars, ready_queue, softblock_count >>
  PROVE  ListType' /\ ListInv' /\ NullSame
<1>1. \A q \in Proc : /\ IsFree(q)' <=> IsFree(q)
                      /\ IsBlocked(q)' <=> IsBlocked(q)
                      /\ IsReady(q)' <=> IsReady(q)
  BY DEF IsFree, IsBlocked, IsReady, aslVars
<1>2. ListType'
  BY DEF ListType, aslVars
<1>3. SemaphoreQueues' /\ ListsInjective' /\ IsFiniteSet(semd_h')
      /\ softblock_count' = Cardinality({p \in Proc : p_sem_add'[p] # NULL})
  BY DEF ListInv, SemaphoreQueues, ListsInjective, aslVars
<1>4. ListsDisjoint' /\ ReadyByPriority'
  BY <1>1 DEF ListInv, ListsDisjoint, ReadyByPriority
<1> QED
  BY <1>1, <1>2, <1>3, <1>4 DEF ListInv, NullSame, list_null

\* V wakes, increments or blocks the active process (semaphores.c).
LEMMA VEffect ==
  ASSUME ListType, ListInv, sem \in [Sem -> {0, 1}], NEW s \in Sem, V(s),
         pcb_free' = pcb_free, p_prio' = p_prio,
         active_process \in Proc \cup {NULL},
         active_process # NULL => list_null(active_process)
  PROVE  /\ ListType' /\ ListInv' /\ sem' \in [Sem -> {0, 1}] /\ OthersSame(s)
         /\ ~(V_blocks(s) /\ ~V_fails(s)) => NullSame
         /\ V_blocks(s) /\ ~V_fails(s) => NullMinus(active_process)
         /\ sem[s] = 0 /\ sem'[s] # 0 => s_procq'[s] = << >>
<1>1. AslType /\ AslInv
  BY ListParts
<1>2. CASE sem[s] = 1 /\ V_blocks(s) /\ ~V_fails(s)
  <2>1. BlockOn(s, active_process) /\ ~insert_blocked_fails(s, active_process)
    BY <1>2 DEF V, V_fails
  <2>2. active_process \in Proc /\ list_null(active_process)
    BY <1>2 DEF V_blocks
  <2>3. /\ ListType' /\ ListInv' /\ NullMinus(active_process)
        /\ \A r \in Sem \ {s} : s_procq'[r] = s_procq[r]
    BY <2>1, <2>2, Blocks DEF NullMinus
  <2>4. sem' = sem
    BY <2>1 DEF BlockOn
  <2> QED
    BY <1>2, <2>3, <2>4 DEF OthersSame
<1>3. CASE sem[s] = 1 /\ ~(V_blocks(s) /\ ~V_fails(s))
  <2>1. UNCHANGED semVars
    BY <1>3 DEF V
  <2>2. ListType' /\ ListInv' /\ NullSame
    BY <2>1, ListsUnchanged DEF semVars
  <2> QED
    BY <1>3, <2>1, <2>2 DEF OthersSame, semVars, aslVars
<1>4. CASE sem[s] # 1 /\ head_blocked(s) # NULL
  <2>1. WakeHead(s)
    BY <1>4 DEF V
  <2>2. /\ ListType' /\ ListInv' /\ NullSame
        /\ \A r \in Sem \ {s} : s_procq'[r] = s_procq[r]
    BY <1>4, <2>1, Wakes DEF NullSame
  <2>3. sem' = sem /\ ~V_blocks(s)
    BY <1>4, <2>1 DEF WakeHead, V_blocks
  <2> QED
    BY <1>4, <2>2, <2>3 DEF OthersSame
<1>5. CASE sem[s] # 1 /\ head_blocked(s) = NULL
  <2>1. sem' = [sem EXCEPT ![s] = @ + 1] /\ UNCHANGED << aslVars, ready_queue, softblock_count >>
    BY <1>5 DEF V
  <2>2. ListType' /\ ListInv' /\ NullSame
    BY <2>1, ListsUnchanged
  <2>3. s_procq' = s_procq /\ s_procq[s] = << >>
    BY <1>1, <1>5, <2>1, BlockedFacts DEF aslVars
  <2>4. sem' \in [Sem -> {0, 1}] /\ \A r \in Sem \ {s} : sem'[r] = sem[r]
    BY <1>5, <2>1
  <2>5. ~V_blocks(s)
    BY <1>5 DEF V_blocks
  <2> QED
    BY <2>2, <2>3, <2>4, <2>5 DEF OthersSame
<1> QED
  BY <1>2, <1>3, <1>4, <1>5

\* P blocks the active process, wakes one that waits to V, or decrements.
LEMMA PEffect ==
  ASSUME ListType, ListInv, sem \in [Sem -> {0, 1}], NEW s \in Sem,
         NEW p \in Proc, p = active_process, P(s, p),
         pcb_free' = pcb_free, p_prio' = p_prio, list_null(p)
  PROVE  /\ ListType' /\ ListInv' /\ sem' \in [Sem -> {0, 1}] /\ OthersSame(s)
         /\ \/ mode' = "sched" /\ ctrl' = "BLOCK" /\ NullMinus(p)
            \/ mode' = "sched" /\ ctrl' = "RESCHEDULE" /\ NullSame
            \/ mode' = "PASSEREN failed" /\ ctrl' = ctrl /\ NullSame
         /\ sem[s] = 0 => sem'[s] = 0
<1>1. AslType /\ AslInv
  BY ListParts
<1>2. CASE sem[s] = 0 /\ insert_blocked_fails(s, p)
  <2>1. mode' = "PASSEREN failed" /\ ctrl' = ctrl /\ UNCHANGED semVars
    BY <1>2 DEF P, scheduler_panic
  <2>2. ListType' /\ ListInv' /\ NullSame
    BY <2>1, ListsUnchanged DEF semVars
  <2> QED
    BY <2>1, <2>2 DEF OthersSame, semVars, aslVars
<1>3. CASE sem[s] = 0 /\ ~insert_blocked_fails(s, p)
  <2>1. BlockOn(s, p) /\ mode' = "sched" /\ ctrl' = "BLOCK"
    BY <1>3 DEF P, Return
  <2>2. /\ ListType' /\ ListInv' /\ NullMinus(p)
        /\ \A r \in Sem \ {s} : s_procq'[r] = s_procq[r]
    BY <1>3, <2>1, Blocks DEF NullMinus
  <2>3. sem' = sem
    BY <2>1 DEF BlockOn
  <2> QED
    BY <2>1, <2>2, <2>3 DEF OthersSame
<1>4. CASE sem[s] # 0 /\ head_blocked(s) # NULL
  <2>1. WakeHead(s) /\ mode' = "sched" /\ ctrl' = "RESCHEDULE"
    BY <1>4 DEF P, Return
  <2>2. /\ ListType' /\ ListInv' /\ NullSame
        /\ \A r \in Sem \ {s} : s_procq'[r] = s_procq[r]
    BY <1>4, <2>1, Wakes DEF NullSame
  <2>3. sem' = sem
    BY <2>1 DEF WakeHead
  <2> QED
    BY <2>1, <2>2, <2>3 DEF OthersSame
<1>5. CASE sem[s] # 0 /\ head_blocked(s) = NULL
  <2>1. /\ sem' = [sem EXCEPT ![s] = @ - 1] /\ mode' = "sched" /\ ctrl' = "RESCHEDULE"
        /\ UNCHANGED << aslVars, ready_queue, softblock_count >>
    BY <1>5 DEF P, Return
  <2>2. ListType' /\ ListInv' /\ NullSame
    BY <2>1, ListsUnchanged
  <2>3. sem' \in [Sem -> {0, 1}] /\ \A r \in Sem \ {s} : sem'[r] = sem[r]
    BY <1>5, <2>1
  <2> QED
    BY <1>5, <2>1, <2>2, <2>3 DEF OthersSame, aslVars
<1> QED
  BY <1>2, <1>3, <1>4, <1>5

-----------------------------------------------------------------------------
(* The process tree.                                                        *)

\* The types of what the tree is made of.
TreeType ==
  /\ pcb_free \in Seq(Proc)
  /\ p_pid \in [Proc -> Pid]
  /\ p_parent \in [Proc -> Proc \cup {NULL}]
  /\ p_child \in [Proc -> Seq(Proc)]
  /\ kstack \in Seq(Proc)

\* KillParent as a function of the activations and of the parents.
Above(ks, par, p) ==
  IF \E i \in 1..(Len(ks) - 1) : ks[i] = p
  THEN ks[(CHOOSE i \in 1..(Len(ks) - 1) : ks[i] = p) + 1]
  ELSE par[p]

\* Above an activation is the one that called it.
AboveIsCaller(ks, par) ==
  /\ \A i \in 1..(Len(ks) - 1) : Above(ks, par, ks[i]) = ks[i + 1]
  /\ \A p \in Proc : (\A i \in 1..(Len(ks) - 1) : ks[i] # p) => Above(ks, par, p) = par[p]

\* No set of pcbs is closed under the relation.
Acyclic(ks, par) == \A S \in SUBSET Proc : S # {} => \E p \in S : Above(ks, par, p) \notin S

\* KillParent and its counterpart in the next state are instances of Above.
LEMMA KillParentIsAbove ==
  /\ \A p \in Proc : KillParent(p) = Above(kstack, p_parent, p)
  /\ \A p \in Proc : KillParent(p)' = Above(kstack', p_parent', p)
  BY DEF KillParent, Above

\* A pcb is in kstack once, so Above is well defined.
LEMMA AboveFacts ==
  ASSUME NEW ks \in Seq(Proc), IsInjective(ks), NEW par
  PROVE  AboveIsCaller(ks, par)
<1>1. \A i, j \in 1..Len(ks) : ks[i] = ks[j] => i = j
  BY RangeByIndex
<1>2. ASSUME NEW i \in 1..(Len(ks) - 1)
      PROVE  Above(ks, par, ks[i]) = ks[i + 1]
  <2> DEFINE k == CHOOSE j \in 1..(Len(ks) - 1) : ks[j] = ks[i]
  <2>1. k \in 1..(Len(ks) - 1) /\ ks[k] = ks[i]
    OBVIOUS
  <2>2. Above(ks, par, ks[i]) = ks[k + 1]
    BY DEF Above
  <2> HIDE DEF k
  <2>3. Len(ks) \in Nat
    OBVIOUS
  <2>4. k = i
    BY <1>1, <2>1, <2>3
  <2> QED
    BY <2>2, <2>4
<1>3. ASSUME NEW p \in Proc, \A i \in 1..(Len(ks) - 1) : ks[i] # p
      PROVE  Above(ks, par, p) = par[p]
  BY <1>3 DEF Above
<1> QED
  BY <1>2, <1>3 DEF AboveIsCaller

\* ProcessTree in the terms of the proofs.
LEMMA TreeParts ==
  /\ ProcessTree <=>
       /\ \A p, c \in Proc : c \in Range(p_child[p]) <=> p_parent[c] = p
       /\ \A p \in Proc : IsInjective(p_child[p])
       /\ \A p \in Proc : IsFree(p) <=> p_pid[p] = NULL_PID
       /\ \A p \in Proc : IsFree(p) => p_child[p] = << >> /\ p_parent[p] = NULL
       /\ IsInjective(kstack)
       /\ \A p \in Range(kstack) : ~IsFree(p)
       /\ Acyclic(kstack, p_parent)
  /\ ProcessTree' <=>
       /\ \A p, c \in Proc : c \in Range(p_child'[p]) <=> p_parent'[c] = p
       /\ \A p \in Proc : IsInjective(p_child'[p])
       /\ \A p \in Proc : IsFree(p)' <=> p_pid'[p] = NULL_PID
       /\ \A p \in Proc : IsFree(p)' => p_child'[p] = << >> /\ p_parent'[p] = NULL
       /\ IsInjective(kstack')
       /\ \A p \in Range(kstack') : ~IsFree(p)'
       /\ Acyclic(kstack', p_parent')
<1>1. (\A S \in SUBSET Proc : S # {} => \E p \in S : KillParent(p) \notin S)
        <=> Acyclic(kstack, p_parent)
  BY KillParentIsAbove DEF Acyclic
<1>2. (\A S \in SUBSET Proc : S # {} => \E p \in S : KillParent(p)' \notin S)
        <=> Acyclic(kstack', p_parent')
  BY KillParentIsAbove DEF Acyclic
<1>3. ProcessTree <=>
       /\ \A p, c \in Proc : c \in Range(p_child[p]) <=> p_parent[c] = p
       /\ \A p \in Proc : IsInjective(p_child[p])
       /\ \A p \in Proc : IsFree(p) <=> p_pid[p] = NULL_PID
       /\ \A p \in Proc : IsFree(p) => p_child[p] = << >> /\ p_parent[p] = NULL
       /\ IsInjective(kstack)
       /\ \A p \in Range(kstack) : ~IsFree(p)
       /\ \A S \in SUBSET Proc : S # {} => \E p \in S : KillParent(p) \notin S
  BY DEF ProcessTree, list_contains, list_empty
<1>4. ProcessTree' <=>
       /\ \A p, c \in Proc : c \in Range(p_child'[p]) <=> p_parent'[c] = p
       /\ \A p \in Proc : IsInjective(p_child'[p])
       /\ \A p \in Proc : IsFree(p)' <=> p_pid'[p] = NULL_PID
       /\ \A p \in Proc : IsFree(p)' => p_child'[p] = << >> /\ p_parent'[p] = NULL
       /\ IsInjective(kstack')
       /\ \A p \in Range(kstack') : ~IsFree(p)'
       /\ \A S \in SUBSET Proc : S # {} => \E p \in S : KillParent(p)' \notin S
  BY DEF ProcessTree, list_contains, list_empty, NULL_PID
<1> QED
  BY <1>1, <1>2, <1>3, <1>4

\* A step that leaves the tree alone.
LEMMA TreeUnchanged ==
  ASSUME TreeType, ProcessTree, UNCHANGED << pcb_free, p_pid, p_parent, p_child, kstack >>
  PROVE  TreeType' /\ ProcessTree'
<1>1. \A p \in Proc : IsFree(p)' <=> IsFree(p)
  BY DEF IsFree
<1>2. TreeType'
  BY DEF TreeType
<1> QED
  BY <1>1, <1>2, TreeParts, RangeByIndex DEF TreeType

\* The start of kill_progeny on a live process.
LEMMA TreeStartKill ==
  ASSUME TreeType, ProcessTree, kstack = << >>, NEW p \in Proc, ~IsFree(p),
         kstack' = << p >>, UNCHANGED << pcb_free, p_pid, p_parent, p_child >>
  PROVE  TreeType' /\ ProcessTree'
<1>1. \A q \in Proc : IsFree(q)' <=> IsFree(q)
  BY DEF IsFree
<1>2. TreeType'
  BY DEF TreeType
<1>3. Len(<< >>) = 0 /\ Len(<< p >>) = 1 /\ << p >>[1] = p
  OBVIOUS
<1>4. IsInjective(kstack') /\ Range(kstack') = {p}
  <2>1. DOMAIN << p >> = {1}
    OBVIOUS
  <2> QED
    BY <1>3, <2>1 DEF IsInjective, Range
<1>5. \A q \in Proc : Above(kstack', p_parent', q) = Above(kstack, p_parent, q)
  BY <1>3 DEF Above
<1>6. Acyclic(kstack, p_parent)
  BY TreeParts
<1>7. Acyclic(kstack', p_parent')
  BY <1>5, <1>6 DEF Acyclic
<1> QED
  BY <1>1, <1>2, <1>4, <1>7, TreeParts

\* A new pcb becomes a child of the caller (insert_child).
LEMMA TreeCreate ==
  ASSUME TreeType, ProcessTree, kstack = << >>, kstack' = kstack,
         NEW a \in Proc, ~IsFree(a), NEW c \in Proc, IsFree(c), insert_child(a, c),
         NEW pid \in Pid \ {0}, p_pid' = [p_pid EXCEPT ![c] = pid],
         pcb_free' \in Seq(Proc),
         \A q \in Proc : IsFree(q)' <=> IsFree(q) /\ q # c
  PROVE  TreeType' /\ ProcessTree'
<1>1. /\ \A p, q \in Proc : q \in Range(p_child[p]) <=> p_parent[q] = p
      /\ \A p \in Proc : IsInjective(p_child[p])
      /\ \A p \in Proc : IsFree(p) <=> p_pid[p] = NULL_PID
      /\ \A p \in Proc : IsFree(p) => p_child[p] = << >> /\ p_parent[p] = NULL
      /\ Acyclic(kstack, p_parent)
  BY TreeParts
<1>2. a # c
  OBVIOUS
<1>3. p_parent[c] = NULL /\ p_child[c] = << >> /\ NULL \notin Proc
  BY <1>1, ProcFacts
<1> DEFINE n == list_add_tail(c, p_child[a])
<1>4. n \in Seq(Proc) /\ IsInjective(n) /\ Range(n) = Range(p_child[a]) \cup {c}
  <2>1. c \notin Range(p_child[a])
    BY <1>1, <1>3
  <2>2. p_child[a] \in Seq(Proc) /\ IsInjective(p_child[a])
    BY <1>1 DEF TreeType
  <2>3. n = list_add_tail(c, p_child[a])
    OBVIOUS
  <2> HIDE DEF n
  <2> QED
    BY <2>1, <2>2, <2>3, AddTailNew
<1>5. /\ p_parent' = [p_parent EXCEPT ![c] = a]
      /\ p_child' = [[p_child EXCEPT ![c] = << >>] EXCEPT ![a] = n]
  BY <1>2 DEF insert_child, TreeType
<1> HIDE DEF n
<1>6. TreeType'
  <2>1. << >> \in Seq(Proc)
    OBVIOUS
  <2> QED
    BY <1>4, <1>5, <2>1 DEF TreeType
<1>7. \A p \in Proc : p_child'[p] = IF p = a THEN n ELSE IF p = c THEN << >> ELSE p_child[p]
  BY <1>2, <1>5 DEF TreeType
<1>8. \A q \in Proc : p_parent'[q] = IF q = c THEN a ELSE p_parent[q]
  BY <1>5 DEF TreeType
<1>9. Range(<< >>) = {} /\ IsInjective(<< >>)
  BY NilList
<1>10. \A q \in Proc : p_parent[q] # c
  BY <1>1, <1>3, <1>9
<1>11. \A p, q \in Proc : q \in Range(p_child'[p]) <=> p_parent'[q] = p
  BY <1>1, <1>2, <1>3, <1>4, <1>7, <1>8, <1>9, <1>10
<1>12. \A p \in Proc : IsInjective(p_child'[p])
  BY <1>1, <1>4, <1>7, <1>9
<1>13. \A p \in Proc : IsFree(p)' <=> p_pid'[p] = NULL_PID
  BY <1>1 DEF TreeType, NULL_PID
<1>14. \A p \in Proc : IsFree(p)' => p_child'[p] = << >> /\ p_parent'[p] = NULL
  BY <1>1, <1>7, <1>8
<1>15. Len(<< >>) = 0 /\ Range(kstack') = {} /\ IsInjective(kstack')
  BY NilList
<1>16. Acyclic(kstack', p_parent')
  <2>1. /\ \A q \in Proc : Above(kstack, p_parent, q) = p_parent[q]
        /\ \A q \in Proc : Above(kstack', p_parent', q) = p_parent'[q]
    BY <1>15 DEF Above
  <2> SUFFICES ASSUME NEW S \in SUBSET Proc, S # {}
               PROVE  \E p \in S : p_parent'[p] \notin S
    BY <2>1 DEF Acyclic
  <2>2. CASE S \ {c} = {}
    <3>1. c \in S /\ p_parent'[c] = a /\ a \notin S
      BY <1>2, <1>8, <2>2
    <3> QED
      BY <3>1
  <2>3. CASE S \ {c} # {}
    <3> DEFINE T == S \ {c}
    <3>a. T \in SUBSET Proc /\ T # {}
      BY <2>3
    <3>b. \E p \in T : Above(kstack, p_parent, p) \notin T
      BY <1>1, <3>a DEF Acyclic
    <3>1. PICK p \in S \ {c} : p_parent[p] \notin S \ {c}
      BY <2>1, <3>b
    <3>2. p_parent'[p] = p_parent[p] /\ p_parent[p] # c
      BY <1>8, <1>10
    <3> QED
      BY <3>1, <3>2
  <2> QED
    BY <2>2, <2>3
<1> QED
  BY <1>6, <1>11, <1>12, <1>13, <1>14, <1>15, <1>16, TreeParts

\* Every activation of kill_progeny but the outermost has unlinked its root.
KillLinks == \A i \in 1..(Len(kstack) - 1) : p_parent[kstack[i]] = NULL

\* The loop of kill_progeny never meets a pcb that is being killed already.
LEMMA ChildIsNew ==
  ASSUME TreeType, ProcessTree, KillLinks, kstack # << >>,
         NEW c \in Proc, p_parent[c] = Head(kstack)
  PROVE  c \notin Range(kstack)
<1> DEFINE n == Len(kstack)
<1>1. n \in Nat \ {0} /\ Head(kstack) = kstack[1] /\ kstack \in Seq(Proc)
  BY TakeHead DEF TreeType
<1>2. Range(kstack) = {kstack[i] : i \in 1..n} /\ Range(kstack) \subseteq Proc
  BY <1>1, RangeByIndex
<1>3. AboveIsCaller(kstack, p_parent) /\ Acyclic(kstack, p_parent)
  BY <1>1, AboveFacts, TreeParts
<1>4. \A i \in 1..(n - 1) : kstack[i] # c
  <2>1. p_parent[c] # NULL
    BY <1>1, ProcFacts
  <2>2. \A i \in 1..(n - 1) : p_parent[kstack[i]] = NULL
    BY DEF KillLinks
  <2> QED
    BY <2>1, <2>2
<1> HIDE DEF n
<1>5. kstack[n] # c
  <2> SUFFICES ASSUME kstack[n] = c
               PROVE  FALSE
    OBVIOUS
  <2>1. Above(kstack, p_parent, c) = kstack[1]
    BY <1>1, <1>3, <1>4 DEF AboveIsCaller, n
  <2>2. \A i \in 1..(n - 1) : Above(kstack, p_parent, kstack[i]) = kstack[i + 1]
    BY <1>3 DEF AboveIsCaller, n
  <2>3. \A i \in 1..n : (i \in 1..(n - 1) /\ i + 1 \in 1..n) \/ i = n
    BY <1>1
  <2>4. 1 \in 1..n /\ n \in 1..n
    BY <1>1
  <2>5. \A q \in Range(kstack) : Above(kstack, p_parent, q) \in Range(kstack)
    BY <1>2, <2>1, <2>2, <2>3, <2>4
  <2>6. Range(kstack) # {}
    BY <1>2, <2>4
  <2> QED
    BY <1>2, <1>3, <2>5, <2>6 DEF Acyclic
<1>6. \A i \in 1..n : i \in 1..(n - 1) \/ i = n
  BY <1>1
<1> QED
  BY <1>2, <1>4, <1>5, <1>6

\* One round of the loop of kill_progeny.
LEMMA TreeKillChild ==
  ASSUME TreeType, ProcessTree, KillLinks, kstack # << >>,
         NEW p, p = Head(kstack), p_child[p] # << >>,
         NEW c, c = Head(p_child[p]), out_child(c),
         kstack' = list_add(c, kstack), UNCHANGED << pcb_free, p_pid >>
  PROVE  /\ TreeType' /\ ProcessTree' /\ KillLinks'
         /\ kstack' # << >> /\ kstack'[Len(kstack')] = kstack[Len(kstack)]
         /\ \A q \in Proc : Above(kstack', p_parent', q) = Above(kstack, p_parent, q)
<1> DEFINE n == Len(kstack)
<1>1. /\ n \in Nat \ {0} /\ p = kstack[1] /\ kstack \in Seq(Proc) /\ p \in Proc
      /\ p \in Range(kstack)
  BY TakeHead DEF TreeType
<1>2. /\ \A q, d \in Proc : d \in Range(p_child[q]) <=> p_parent[d] = q
      /\ \A q \in Proc : IsInjective(p_child[q])
      /\ \A q \in Proc : IsFree(q) <=> p_pid[q] = NULL_PID
      /\ \A q \in Proc : IsFree(q) => p_child[q] = << >> /\ p_parent[q] = NULL
      /\ IsInjective(kstack)
      /\ \A q \in Range(kstack) : ~IsFree(q)
      /\ Acyclic(kstack, p_parent)
  BY TreeParts
<1>3. p_child[p] \in Seq(Proc) /\ IsInjective(p_child[p])
  BY <1>1, <1>2 DEF TreeType
<1>4. c \in Proc /\ c \in Range(p_child[p])
  BY <1>3, TakeHead
<1>5. p_parent[c] = p /\ ~IsFree(c)
  BY <1>1, <1>2, <1>4, ProcFacts
<1>6. c \notin Range(kstack)
  BY <1>4, <1>5, ChildIsNew
<1> DEFINE m == list_sdel(c, p_child[p])
<1>7. m \in Seq(Proc) /\ IsInjective(m) /\ Range(m) = Range(p_child[p]) \ {c}
  BY <1>3, Sdel
<1>8. p_child' = [p_child EXCEPT ![p] = m] /\ p_parent' = [p_parent EXCEPT ![c] = NULL]
  BY <1>5 DEF out_child
<1> HIDE DEF m
<1>9. /\ kstack' \in Seq(Proc) /\ Len(kstack') = n + 1 /\ kstack'[1] = c
      /\ \A i \in 1..n : kstack'[i + 1] = kstack[i]
      /\ IsInjective(kstack') /\ Range(kstack') = Range(kstack) \cup {c}
  <2>1. kstack \in Seq(Proc) /\ IsInjective(kstack)
    BY <1>1, <1>2
  <2>2. kstack' \in Seq(Proc) /\ IsInjective(kstack') /\ Range(kstack') = Range(kstack) \cup {c}
    BY <1>4, <1>6, <2>1, AddHeadNew
  <2>3. /\ list_add(c, kstack) \in Seq(Proc) /\ Len(list_add(c, kstack)) = n + 1
        /\ list_add(c, kstack)[1] = c
        /\ \A i \in 1..n : list_add(c, kstack)[i + 1] = kstack[i]
    BY <1>1, <1>4 DEF list_add
  <2> QED
    BY <2>2, <2>3
<1>10. TreeType'
  BY <1>7, <1>8, <1>9 DEF TreeType
<1>11. /\ \A q \in Proc : p_child'[q] = IF q = p THEN m ELSE p_child[q]
       /\ \A q \in Proc : p_parent'[q] = IF q = c THEN NULL ELSE p_parent[q]
  BY <1>8 DEF TreeType
<1>12. \A q, d \in Proc : d \in Range(p_child'[q]) <=> p_parent'[d] = q
  BY <1>2, <1>5, <1>7, <1>11, ProcFacts
<1>13. \A q \in Proc : IsInjective(p_child'[q])
  BY <1>2, <1>7, <1>11
<1>14. \A q \in Proc : IsFree(q)' <=> IsFree(q)
  BY DEF IsFree
<1>15. \A q \in Proc : IsFree(q)' => p_child'[q] = << >> /\ p_parent'[q] = NULL
  BY <1>1, <1>2, <1>11, <1>14
<1>16. \A q \in Range(kstack') : ~IsFree(q)'
  <2>1. Range(kstack') \subseteq Proc
    BY <1>9, RangeByIndex
  <2> QED
    BY <1>2, <1>5, <1>9, <1>14, <2>1
<1>17. \A i \in 1..(n + 1) : i # 1 => i - 1 \in 1..n /\ kstack'[i] = kstack[i - 1]
  <2>1. ASSUME NEW i \in 1..(n + 1), i # 1
        PROVE  i - 1 \in 1..n /\ kstack'[i] = kstack[i - 1]
    <3>1. i - 1 \in 1..n /\ (i - 1) + 1 = i
      BY <1>1, <2>1
    <3> QED
      BY <1>9, <3>1
  <2> QED
    BY <2>1
<1>18. /\ Acyclic(kstack', p_parent')
       /\ \A q \in Proc : Above(kstack', p_parent', q) = Above(kstack, p_parent, q)
  <2>1. AboveIsCaller(kstack, p_parent) /\ AboveIsCaller(kstack', p_parent')
    BY <1>1, <1>2, <1>9, AboveFacts
  <2>2. Range(kstack) = {kstack[i] : i \in 1..n}
    BY <1>1, RangeByIndex
  <2>3. ASSUME NEW q \in Proc
        PROVE  Above(kstack', p_parent', q) = Above(kstack, p_parent, q)
    <3>1. CASE q = c
      <4>1. Above(kstack, p_parent, c) = p
        <5>1. \A i \in 1..(n - 1) : kstack[i] # c
          BY <1>1, <1>6, <2>2
        <5> QED
          BY <1>4, <1>5, <2>1, <5>1 DEF AboveIsCaller
      <4>2. Above(kstack', p_parent', c) = kstack'[2]
        <5>1. 1 \in 1..(Len(kstack') - 1)
          BY <1>1, <1>9
        <5>2. Above(kstack', p_parent', kstack'[1]) = kstack'[1 + 1]
          BY <2>1, <5>1 DEF AboveIsCaller
        <5> QED
          BY <1>9, <5>2
      <4>3. kstack'[2] = p
        <5>1. 1 \in 1..n /\ 1 + 1 = 2
          BY <1>1
        <5>2. kstack'[1 + 1] = kstack[1]
          BY <1>9, <5>1
        <5> QED
          BY <1>1, <5>1, <5>2
      <4> QED
        BY <3>1, <4>1, <4>2, <4>3
    <3>2. CASE \E i \in 1..(n - 1) : kstack[i] = q
      <4>1. PICK i \in 1..(n - 1) : kstack[i] = q
        BY <3>2
      <4>2. Above(kstack, p_parent, q) = kstack[i + 1]
        BY <2>1, <4>1 DEF AboveIsCaller
      <4>3. i + 1 \in 1..(Len(kstack') - 1) /\ i \in 1..n /\ i + 1 \in 1..n
        BY <1>1, <1>9
      <4>4. kstack'[i + 1] = q /\ kstack'[(i + 1) + 1] = kstack[i + 1]
        BY <1>9, <4>1, <4>3
      <4>5. Above(kstack', p_parent', kstack'[i + 1]) = kstack'[(i + 1) + 1]
        BY <2>1, <4>3 DEF AboveIsCaller
      <4> QED
        BY <4>2, <4>4, <4>5
    <3>3. CASE q # c /\ ~\E i \in 1..(n - 1) : kstack[i] = q
      <4>1. Above(kstack, p_parent, q) = p_parent[q]
        BY <2>1, <3>3 DEF AboveIsCaller
      <4>2. ASSUME NEW i \in 1..(Len(kstack') - 1)
            PROVE  kstack'[i] # q
        <5>1. CASE i = 1
          BY <1>9, <3>3, <5>1
        <5>2. CASE i # 1
          <6>1. i \in 1..(n + 1) /\ i - 1 \in 1..(n - 1)
            BY <1>1, <1>9, <4>2, <5>2
          <6> QED
            BY <1>17, <3>3, <5>2, <6>1
        <5> QED
          BY <5>1, <5>2
      <4>3. Above(kstack', p_parent', q) = p_parent'[q]
        BY <2>1, <4>2 DEF AboveIsCaller
      <4> QED
        BY <1>11, <3>3, <4>1, <4>3
    <3> QED
      BY <3>1, <3>2, <3>3
  <2> QED
    BY <1>2, <2>3 DEF Acyclic
<1>19. KillLinks'
  <2>1. ASSUME NEW i \in 1..(Len(kstack') - 1)
        PROVE  p_parent'[kstack'[i]] = NULL
    <3>1. CASE i = 1
      BY <1>4, <1>9, <1>11, <3>1
    <3>2. CASE i # 1
      <4>1. i \in 1..(n + 1) /\ i - 1 \in 1..(n - 1) /\ i - 1 \in 1..n
        BY <1>1, <1>9, <2>1, <3>2
      <4>2. kstack'[i] = kstack[i - 1] /\ kstack[i - 1] \in Proc
        BY <1>1, <1>17, <3>2, <4>1
      <4>3. p_parent[kstack[i - 1]] = NULL
        BY <4>1 DEF KillLinks
      <4> QED
        BY <1>11, <4>2, <4>3
    <3> QED
      BY <3>1, <3>2
  <2> QED
    BY <2>1 DEF KillLinks
<1>20. kstack' # << >> /\ kstack'[Len(kstack')] = kstack[Len(kstack)]
  <2>1. n \in 1..n
    BY <1>1
  <2>2. kstack'[n + 1] = kstack[n] /\ Len(kstack') # 0
    BY <1>1, <1>9, <2>1
  <2> QED
    BY <1>9, <2>2, EmptyList
<1>21. ProcessTree'
  BY <1>2, <1>9, <1>12, <1>13, <1>14, <1>15, <1>16, <1>18, TreeParts
<1> QED
  BY <1>10, <1>18, <1>19, <1>20, <1>21

\* kill_process takes a pcb without children out of the tree, and the
\* activation of kill_progeny that called it returns.
LEMMA TreeKilled ==
  ASSUME TreeType, ProcessTree, KillLinks, kstack # << >>,
         NEW p, p = Head(kstack), p_child[p] = << >>,
         IF p_parent[p] # NULL THEN out_child(p) ELSE UNCHANGED << p_parent, p_child >>,
         kstack' = Tail(kstack), p_pid' = [p_pid EXCEPT ![p] = NULL_PID],
         pcb_free' \in Seq(Proc),
         \A q \in Proc : IsFree(q)' <=> IsFree(q) \/ q = p
  PROVE  /\ TreeType' /\ ProcessTree' /\ KillLinks'
         /\ \A q \in Proc \ {p} : /\ Above(kstack', p_parent', q) = Above(kstack, p_parent, q)
                                  /\ Above(kstack, p_parent, q) # p
<1> DEFINE n == Len(kstack)
<1>1. /\ n \in Nat \ {0} /\ p = kstack[1] /\ kstack \in Seq(Proc) /\ p \in Proc
      /\ p \in Range(kstack)
  BY TakeHead DEF TreeType
<1>2. /\ \A q, d \in Proc : d \in Range(p_child[q]) <=> p_parent[d] = q
      /\ \A q \in Proc : IsInjective(p_child[q])
      /\ \A q \in Proc : IsFree(q) <=> p_pid[q] = NULL_PID
      /\ \A q \in Proc : IsFree(q) => p_child[q] = << >> /\ p_parent[q] = NULL
      /\ IsInjective(kstack)
      /\ \A q \in Range(kstack) : ~IsFree(q)
      /\ Acyclic(kstack, p_parent)
  BY TreeParts
<1>3. /\ kstack' \in Seq(Proc) /\ Len(kstack') = n - 1
      /\ IsInjective(kstack') /\ Range(kstack') = Range(kstack) \ {p}
  BY <1>1, <1>2, TakeHead
<1>4. \A i \in 1..(n - 1) : kstack'[i] = kstack[i + 1]
  BY <1>1
<1>5. Range(<< >>) = {}
  BY NilList
<1>6. \A q \in Proc : p_parent[q] # p
  BY <1>1, <1>2, <1>5
<1>7. /\ p_parent' \in [Proc -> Proc \cup {NULL}] /\ p_child' \in [Proc -> Seq(Proc)]
      /\ \A q \in Proc : p_parent'[q] = IF q = p THEN NULL ELSE p_parent[q]
      /\ \A q \in Proc : IsInjective(p_child'[q])
      /\ \A q, d \in Proc : d \in Range(p_child'[q]) <=> d \in Range(p_child[q]) /\ d # p
      /\ p_child'[p] = << >>
      /\ \A q \in Proc : p_child[q] = << >> => p_child'[q] = << >>
  <2>1. CASE p_parent[p] = NULL
    <3>1. p_parent' = p_parent /\ p_child' = p_child
      BY <2>1
    <3>2. \A q \in Proc : p \notin Range(p_child[q])
      BY <1>1, <1>2, <2>1, ProcFacts
    <3> QED
      BY <1>1, <1>2, <2>1, <3>1, <3>2 DEF TreeType
  <2>2. CASE p_parent[p] # NULL
    <3> DEFINE f == p_parent[p]
               m == list_sdel(p, p_child[f])
    <3>1. f \in Proc /\ f # p
      BY <1>1, <1>6, <2>2 DEF TreeType
    <3>2. p_child[f] \in Seq(Proc) /\ IsInjective(p_child[f])
      BY <1>2, <3>1 DEF TreeType
    <3>3. m \in Seq(Proc) /\ IsInjective(m) /\ Range(m) = Range(p_child[f]) \ {p}
      BY <3>2, Sdel
    <3>4. p_child' = [p_child EXCEPT ![f] = m] /\ p_parent' = [p_parent EXCEPT ![p] = NULL]
      BY <2>2 DEF out_child
    <3>5. f = p_parent[p]
      OBVIOUS
    <3> HIDE DEF f, m
    <3>6. /\ p_parent' \in [Proc -> Proc \cup {NULL}] /\ p_child' \in [Proc -> Seq(Proc)]
          /\ \A q \in Proc : p_parent'[q] = IF q = p THEN NULL ELSE p_parent[q]
          /\ \A q \in Proc : p_child'[q] = IF q = f THEN m ELSE p_child[q]
      BY <1>1, <3>1, <3>3, <3>4 DEF TreeType
    <3>7. \A q \in Proc : IsInjective(p_child'[q])
      BY <1>2, <3>3, <3>6
    <3>8. \A q \in Proc : p \in Range(p_child[q]) => q = f
      BY <1>1, <1>2, <3>5
    <3>9. \A q, d \in Proc : d \in Range(p_child'[q]) <=> d \in Range(p_child[q]) /\ d # p
      BY <3>3, <3>6, <3>8
    <3>10. p_child'[p] = << >>
      BY <1>1, <3>1, <3>6
    <3>11. p_child[f] # << >>
      BY <1>1, <1>2, <1>5, <3>1, <3>5
    <3> QED
      BY <3>6, <3>7, <3>9, <3>10, <3>11
  <2> QED
    BY <2>1, <2>2
<1>8. TreeType'
  <2>1. NULL_PID \in Pid
    <3>1. PID_SLOTS \in Nat /\ RECYCLE_MOD \in Nat /\ FirstPcb \in Proc
          /\ 0 \in 0..(RECYCLE_MOD - 1)
      BY PidAssumption, ProcFacts DEF FirstPcb
    <3>2. make_pid(FirstPcb, 0) \in Pid \ {0}
      BY <3>1, MakePid
    <3>3. PID_SLOTS * RECYCLE_MOD \in Nat
      BY <3>1
    <3> HIDE DEF FirstPcb
    <3> QED
      BY <3>2, <3>3 DEF Pid, NULL_PID
  <2> QED
    BY <1>1, <1>3, <1>7, <2>1 DEF TreeType, NULL_PID
<1>9. \A q, d \in Proc : d \in Range(p_child'[q]) <=> p_parent'[d] = q
  <2> TAKE q, d \in Proc
  <2>1. d \in Range(p_child'[q]) <=> p_parent[d] = q /\ d # p
    BY <1>2, <1>7
  <2>2. p_parent'[d] = (IF d = p THEN NULL ELSE p_parent[d]) /\ q # NULL
    BY <1>7, ProcFacts
  <2> QED
    BY <2>1, <2>2
<1>10. \A q \in Proc : IsFree(q)' <=> p_pid'[q] = NULL_PID
  <2>1. \A q \in Proc : p_pid'[q] = IF q = p THEN NULL_PID ELSE p_pid[q]
    BY <1>1 DEF TreeType
  <2> QED
    BY <1>2, <2>1
<1>11. \A q \in Proc : IsFree(q)' => p_child'[q] = << >> /\ p_parent'[q] = NULL
  BY <1>1, <1>2, <1>7
<1>12. \A q \in Range(kstack') : ~IsFree(q)'
  <2>1. Range(kstack) \subseteq Proc
    BY <1>1, RangeByIndex
  <2> QED
    BY <1>2, <1>3, <2>1
<1>13. \A i \in 1..(n - 1) : i \in 1..n /\ i + 1 \in 1..n
  BY <1>1
<1>14. \A i, j \in 1..n : kstack[i] = kstack[j] => i = j
  BY <1>1, <1>2, RangeByIndex
<1>15. /\ Acyclic(kstack', p_parent')
       /\ \A q \in Proc \ {p} : Above(kstack', p_parent', q) = Above(kstack, p_parent, q)
  <2>1. AboveIsCaller(kstack, p_parent) /\ AboveIsCaller(kstack', p_parent')
    BY <1>1, <1>2, <1>3, AboveFacts
  <2>2. Above(kstack', p_parent', p) = NULL
    <3>1. \A i \in 1..(Len(kstack') - 1) : kstack'[i] # p
      <4>1. ASSUME NEW i \in 1..(Len(kstack') - 1)
            PROVE  kstack'[i] # p
        <5>1. i \in 1..(n - 1) /\ i + 1 # 1 /\ 1 \in 1..n
          BY <1>1, <1>3, <4>1
        <5>2. i + 1 \in 1..n /\ kstack'[i] = kstack[i + 1]
          BY <1>4, <1>13, <5>1
        <5> QED
          BY <1>1, <1>14, <5>1, <5>2
      <4> QED
        BY <4>1
    <3> QED
      BY <1>1, <1>7, <2>1, <3>1 DEF AboveIsCaller
  <2>3. ASSUME NEW q \in Proc, q # p
        PROVE  Above(kstack', p_parent', q) = Above(kstack, p_parent, q)
    <3>1. CASE \E i \in 1..(Len(kstack') - 1) : kstack'[i] = q
      <4>1. PICK i \in 1..(Len(kstack') - 1) : kstack'[i] = q
        BY <3>1
      <4>2. i \in 1..(n - 1) /\ i + 1 \in 1..(n - 1)
        BY <1>1, <1>3
      <4>3. kstack'[i] = kstack[i + 1] /\ kstack'[i + 1] = kstack[(i + 1) + 1]
        BY <1>4, <4>2
      <4>4. Above(kstack', p_parent', kstack'[i]) = kstack'[i + 1]
        BY <2>1 DEF AboveIsCaller
      <4>5. Above(kstack, p_parent, kstack[i + 1]) = kstack[(i + 1) + 1]
        BY <2>1, <4>2 DEF AboveIsCaller
      <4> QED
        BY <4>1, <4>3, <4>4, <4>5
    <3>2. CASE ~\E i \in 1..(Len(kstack') - 1) : kstack'[i] = q
      <4>1. Above(kstack', p_parent', q) = p_parent[q]
        BY <1>7, <2>1, <2>3, <3>2 DEF AboveIsCaller
      <4>2. ASSUME NEW i \in 1..(n - 1)
            PROVE  kstack[i] # q
        <5>1. CASE i = 1
          BY <1>1, <2>3, <5>1
        <5>2. CASE i # 1
          <6>1. i - 1 \in 1..(Len(kstack') - 1) /\ i - 1 \in 1..(n - 1) /\ (i - 1) + 1 = i
            BY <1>1, <1>3, <4>2, <5>2
          <6>2. kstack'[i - 1] = kstack[i]
            BY <1>4, <6>1
          <6> QED
            BY <3>2, <6>1, <6>2
        <5> QED
          BY <5>1, <5>2
      <4>3. Above(kstack, p_parent, q) = p_parent[q]
        BY <2>1, <4>2 DEF AboveIsCaller
      <4> QED
        BY <4>1, <4>3
    <3> QED
      BY <3>1, <3>2
  <2>4. ASSUME NEW S \in SUBSET Proc, S # {}
        PROVE  \E q \in S : Above(kstack', p_parent', q) \notin S
    <3>1. CASE p \in S
      BY <2>2, <3>1, ProcFacts
    <3>2. CASE p \notin S
      BY <1>2, <2>3, <2>4, <3>2 DEF Acyclic
    <3> QED
      BY <3>1, <3>2
  <2> QED
    BY <2>3, <2>4 DEF Acyclic
<1>16. KillLinks'
  <2>1. ASSUME NEW i \in 1..(Len(kstack') - 1)
        PROVE  p_parent'[kstack'[i]] = NULL
    <3>1. i \in 1..(n - 1) /\ i + 1 \in 1..(n - 1)
      BY <1>1, <1>3, <2>1
    <3>2. kstack'[i] = kstack[i + 1] /\ kstack[i + 1] \in Proc
      BY <1>1, <1>4, <1>13, <3>1
    <3>3. p_parent[kstack[i + 1]] = NULL
      BY <3>1 DEF KillLinks
    <3> QED
      BY <1>7, <3>2, <3>3
  <2> QED
    BY <2>1 DEF KillLinks
<1>17. ProcessTree'
  BY <1>3, <1>7, <1>9, <1>10, <1>11, <1>12, <1>15, TreeParts
<1>18. ASSUME NEW q \in Proc \ {p}
       PROVE  Above(kstack, p_parent, q) # p
  <2>1. AboveIsCaller(kstack, p_parent)
    BY <1>1, <1>2, AboveFacts
  <2>2. CASE \E i \in 1..(n - 1) : kstack[i] = q
    <3>1. PICK i \in 1..(n - 1) : kstack[i] = q
      BY <2>2
    <3>2. Above(kstack, p_parent, q) = kstack[i + 1]
      BY <2>1, <3>1 DEF AboveIsCaller
    <3>3. i + 1 \in 1..n /\ 1 \in 1..n /\ i + 1 # 1
      BY <1>1, <3>1
    <3> QED
      BY <1>1, <1>14, <3>2, <3>3
  <2>3. CASE ~\E i \in 1..(n - 1) : kstack[i] = q
    BY <1>6, <2>1, <2>3 DEF AboveIsCaller
  <2> QED
    BY <2>2, <2>3
<1> QED
  BY <1>8, <1>15, <1>16, <1>17, <1>18

-----------------------------------------------------------------------------
(* Devices.                                                                 *)

\* The scan of a bitmap of eight bits ends at a bit that is set.
LEMMA MaxMinIn ==
  ASSUME NEW S \in SUBSET (0..7), S # {}
  PROVE  Max(S) \in S /\ Min(S) \in S
<1>1. \E x \in S : \A y \in S : x >= y
  <2>1. S \subseteq 0..7
    OBVIOUS
  <2>2. CASE 7 \in S
    BY <2>1, <2>2
  <2>3. CASE 7 \notin S /\ 6 \in S
    BY <2>1, <2>3
  <2>4. CASE 7 \notin S /\ 6 \notin S /\ 5 \in S
    BY <2>1, <2>4
  <2>5. CASE 7 \notin S /\ 6 \notin S /\ 5 \notin S /\ 4 \in S
    BY <2>1, <2>5
  <2>6. CASE 7 \notin S /\ 6 \notin S /\ 5 \notin S /\ 4 \notin S
    <3>1. \A y \in S : y \in 0..3
      BY <2>1, <2>6
    <3>2. CASE 3 \in S
      BY <3>1, <3>2
    <3>3. CASE 3 \notin S /\ 2 \in S
      BY <3>1, <3>3
    <3>4. CASE 3 \notin S /\ 2 \notin S /\ 1 \in S
      BY <3>1, <3>4
    <3>5. CASE 3 \notin S /\ 2 \notin S /\ 1 \notin S
      <4>1. \A y \in S : y = 0
        BY <3>1, <3>5
      <4>2. PICK x \in S : TRUE
        OBVIOUS
      <4>3. \A y \in S : x >= y
        BY <4>1, <4>2
      <4> QED
        BY <4>3
    <3> QED
      BY <3>2, <3>3, <3>4, <3>5
  <2> QED
    BY <2>2, <2>3, <2>4, <2>5, <2>6
<1>2. \E x \in S : \A y \in S : x =< y
  <2>1. S \subseteq 0..7
    OBVIOUS
  <2>2. CASE 0 \in S
    BY <2>1, <2>2
  <2>3. CASE 0 \notin S /\ 1 \in S
    BY <2>1, <2>3
  <2>4. CASE 0 \notin S /\ 1 \notin S /\ 2 \in S
    BY <2>1, <2>4
  <2>5. CASE 0 \notin S /\ 1 \notin S /\ 2 \notin S /\ 3 \in S
    BY <2>1, <2>5
  <2>6. CASE 0 \notin S /\ 1 \notin S /\ 2 \notin S /\ 3 \notin S
    <3>1. \A y \in S : y \in 4..7
      BY <2>1, <2>6
    <3>2. CASE 4 \in S
      BY <3>1, <3>2
    <3>3. CASE 4 \notin S /\ 5 \in S
      BY <3>1, <3>3
    <3>4. CASE 4 \notin S /\ 5 \notin S /\ 6 \in S
      BY <3>1, <3>4
    <3>5. CASE 4 \notin S /\ 5 \notin S /\ 6 \notin S
      <4>1. \A y \in S : y = 7
        BY <3>1, <3>5
      <4>2. PICK x \in S : TRUE
        OBVIOUS
      <4>3. \A y \in S : x =< y
        BY <4>1, <4>2
      <4> QED
        BY <4>3
    <3> QED
      BY <3>2, <3>3, <3>4, <3>5
  <2> QED
    BY <2>2, <2>3, <2>4, <2>5, <2>6
<1> QED
  BY <1>1, <1>2 DEF Max, Min

\* interrupt_generic serves a device that has finished: get_semaphore undoes
\* the numbering of lines and devices.
LEMMA GenericUnit ==
  ASSUME Pending \cap IL_DISK..IL_PRINTER # {},
         NEW il, il = Min(Pending \cap IL_DISK..IL_PRINTER)
  PROVE  LET u == get_semaphore(il, find_device_number(CDEV_BITMAP(il)), FALSE)
         IN  u \in Units /\ dev[u] \in {"ok", "err"}
<1>1. /\ IL_DISK = 3 /\ IL_PRINTER = 6 /\ IL_TERMINAL = 7 /\ DEVPERINT = 8
      /\ IL_TIMER = 2 /\ IL_CPUTIMER = 1
  BY DEF IL_DISK, IL_PRINTER, IL_TERMINAL, DEVPERINT, IL_TIMER, IL_CPUTIMER
<1>2. il \in Pending /\ il \in 3..6
  <2>1. Pending \cap IL_DISK..IL_PRINTER \in SUBSET (0..7)
    BY <1>1
  <2>2. il \in Pending \cap IL_DISK..IL_PRINTER
    BY <2>1, MaxMinIn
  <2> QED
    BY <1>1, <2>2
<1>3. \E v \in Finished : LineOf(v) = il
  BY <1>1, <1>2 DEF Pending
<1>4. ASSUME NEW v \in Finished, LineOf(v) = il
      PROVE  /\ v \in 0..31 /\ il = 3 + v \div 8 /\ DevNumber(v) = v % 8
             /\ DevNumber(v) \in 0..7
  <2>1. v \in 0..47
    BY UnitsAssumption DEF Finished, TIMER_SEM
  <2>2. v < 32 /\ il = 3 + v \div 8
    BY <1>1, <1>2, <1>4, <2>1 DEF LineOf
  <2>3. DevNumber(v) = v % 8
    BY <1>1, <1>2, <1>4 DEF DevNumber
  <2> QED
    BY <2>1, <2>2, <2>3
<1> DEFINE B == CDEV_BITMAP(il)
<1>5. B \in SUBSET (0..7) /\ B # {}
  BY <1>3, <1>4 DEF CDEV_BITMAP
<1>6. Max(B) \in B
  BY <1>5, MaxMinIn
<1>7. PICK v \in Finished : LineOf(v) = il /\ Max(B) = DevNumber(v)
  BY <1>6 DEF CDEV_BITMAP
<1> HIDE DEF B
<1>8. /\ v \in 0..31 /\ il = 3 + v \div 8 /\ Max(B) = v % 8
  BY <1>4, <1>7
<1>9. get_semaphore(il, Max(B), FALSE) = (il - 3) * 8 + Max(B)
  BY <1>1, <1>2 DEF get_semaphore
<1>10. (il - 3) * 8 + Max(B) = v
  BY <1>8
<1>11. v \in Units /\ dev[v] \in {"ok", "err"}
  BY DEF Finished
<1> QED
  BY <1>9, <1>10, <1>11 DEF B, find_device_number

\* The line whose registers block n is in: eight blocks per line, and all that
\* are left for the terminals.
LEMMA LineOfBlock ==
  ASSUME NEW n \in 0..95
  PROVE  interrupt_line(n) = IF n < 32 THEN 3 + n \div 8 ELSE 7
<1> DEFINE L == {il \in IL_DISK..IL_TERMINAL : is_in_line(n, il)}
<1>1. /\ IL_DISK = 3 /\ IL_TERMINAL = 7 /\ DEVPERINT = 8
  BY DEF IL_DISK, IL_TERMINAL, DEVPERINT
<1>2. \A il \in 3..7 : is_in_line(n, il) <=> (n < (il - 2) * 8 \/ il = 7)
  BY <1>1 DEF is_in_line
<1>3. L = {il \in 3..7 : n < (il - 2) * 8 \/ il = 7}
  BY <1>1, <1>2
<1> DEFINE first == IF n < 32 THEN 3 + n \div 8 ELSE 7
<1>4. first \in L /\ \A il \in L : first <= il
  BY <1>3
<1>5. \A y \in L : (\A z \in L : y =< z) => y = first
  BY <1>3, <1>4
<1> HIDE DEF L
<1>6. Min(L) = first
  BY <1>4, <1>5 DEF Min
<1> QED
  BY <1>6 DEF interrupt_line, L

\* An address that DOIO accepts: its semaphore is a unit's, and no other unit
\* has its command register there.
LEMMA IoDevFacts ==
  ASSUME NEW d \in IoDevs
  PROVE  /\ d.semaphore \in Units
         /\ d.interrupt_line \in Lines
         /\ d.commands \subseteq {d.semaphore}
<1>1. /\ IL_DISK = 3 /\ IL_TERMINAL = 7 /\ DEVPERINT = 8
      /\ (IL_TERMINAL - IL_DISK) * DEVPERINT = 32
  BY DEF IL_DISK, IL_TERMINAL, DEVPERINT
<1>2. PICK r \in RegisterBlocks \X Words : d = get_iodev(r[1], r[2]) /\ d.semaphore \in Units
  BY DEF IoDevs
<1>3. r[1] \in 0..95
  BY <1>1, <1>2 DEF RegisterBlocks, is_in_line
<1> DEFINE n == r[1]
           w == r[2]
           il == interrupt_line(n)
           Regs(u) == (LineOf(u) - IL_DISK) * DEVPERINT + DevNumber(u)
<1>4. il = IF n < 32 THEN 3 + n \div 8 ELSE 7
  BY <1>3, LineOfBlock
<1>5. /\ d.semaphore = get_semaphore(il, n % DEVPERINT, w = 3)
      /\ d.interrupt_line = il
      /\ d.commands = {u \in Units : n = Regs(u) /\ w = CommandWord(u)}
  BY <1>2 DEF get_iodev
<1> HIDE DEF il
<1>6. d.interrupt_line \in Lines
  BY <1>3, <1>4, <1>5 DEF Lines
<1>7. ASSUME NEW u \in Units, n = Regs(u), w = CommandWord(u)
      PROVE  u = get_semaphore(il, n % DEVPERINT, w = 3)
  <2>1. u \in 0..47
    BY UnitsAssumption DEF TIMER_SEM
  <2>2. CASE u < 32
    <3>1. LineOf(u) = 3 + u \div 8 /\ LineOf(u) # 7
      BY <1>1, <2>1, <2>2 DEF LineOf
    <3>2. DevNumber(u) = u % 8 /\ w = 1
      BY <1>1, <1>7, <3>1 DEF DevNumber, CommandWord
    <3>3. PICK line \in 3..6, number \in 0..7 :
            line = 3 + u \div 8 /\ number = u % 8 /\ u = (line - 3) * 8 + number
      BY <2>1, <2>2
    <3>4. n = (line - 3) * 8 + number
      BY <1>1, <1>7, <3>1, <3>2, <3>3
    <3>5. n % 8 = number /\ il = line
      BY <1>4, <2>1, <2>2, <3>3, <3>4
    <3>6. get_semaphore(il, n % DEVPERINT, w = 3) = (line - 3) * 8 + number
      BY <1>1, <3>3, <3>5 DEF get_semaphore
    <3> QED
      BY <3>3, <3>6
  <2>3. CASE u >= 32
    <3>1. LineOf(u) = 7 /\ DevNumber(u) = (u - 32) \div 2
      BY <1>1, <2>1, <2>3 DEF LineOf, DevNumber
    <3>2. w = IF u % 2 = 1 THEN 3 ELSE 1
      BY <1>1, <1>7, <3>1 DEF CommandWord
    <3>3. PICK number \in 0..7 :
            /\ number = (u - 32) \div 2
            /\ u = 32 + (2 * number + (IF u % 2 = 1 THEN 1 ELSE 0))
      BY <2>1, <2>3
    <3>4. n = (7 - 3) * 8 + number
      BY <1>1, <1>7, <3>1, <3>3
    <3>5. n % 8 = number /\ il = 7
      BY <1>4, <3>3, <3>4
    <3>6. get_semaphore(il, n % DEVPERINT, w = 3) =
            (7 - 3) * 8 + (2 * number + (IF u % 2 = 1 THEN 1 ELSE 0))
      BY <1>1, <3>2, <3>3, <3>5 DEF get_semaphore
    <3> QED
      BY <2>1, <2>3, <3>3, <3>6
  <2> QED
    BY <2>1, <2>2, <2>3
<1>8. d.commands \subseteq {d.semaphore}
  BY <1>5, <1>7
<1> QED
  BY <1>2, <1>6, <1>8

=============================================================================
