---------------------------- MODULE PagerProofs ----------------------------
(***************************************************************************)
(* Proofs about the pager, for every number of U-procs, pages, frames and   *)
(* TLB entries.  The lemmas about the steps of the pager do not fix the     *)
(* points of the code outside it, so that UProcsProofs can cite them too.   *)
(***************************************************************************)
EXTENDS Pager, ListsProofs

-----------------------------------------------------------------------------
(* Semaphores.                                                              *)

SemsOK == value \in [Sems -> {0, 1}] /\ queue \in [Sems -> Seq(Procs)]

\* What Operate, hence Passeren and Verhogen, does to its semaphore: p joins the
\* queue, or the first in the queue leaves it, or the value changes.
Joins(s, p, full) ==
  /\ value[s] = full /\ value'[s] = full
  /\ p \notin Range(queue[s])
  /\ Range(queue'[s]) = Range(queue[s]) \cup {p}
  /\ Len(queue'[s]) = Len(queue[s]) + 1
  /\ IsInjective(queue'[s])

PassesOn(s, full) ==
  /\ value[s] # full /\ value'[s] = value[s]
  /\ Head(queue[s]) \in Range(queue[s])
  /\ Range(queue'[s]) = Range(queue[s]) \ {Head(queue[s])}
  /\ Len(queue'[s]) = Len(queue[s]) - 1
  /\ IsInjective(queue'[s])

Sets(s, full, after) ==
  /\ value[s] # full /\ value'[s] = after
  /\ queue[s] = << >> /\ queue'[s] = << >>

LEMMA OperateEffect ==
  ASSUME SemsOK, NEW s \in Sems, NEW p \in Procs, NEW full \in {0, 1},
         NEW after \in {0, 1}, IsInjective(queue[s]), Operate(s, p, full, after)
  PROVE  /\ SemsOK'
         /\ \A r \in Sems \ {s} : value'[r] = value[r] /\ queue'[r] = queue[r]
         /\ \/ Joins(s, p, full)
            \/ PassesOn(s, full)
            \/ Sets(s, full, after)
<1>1. value[s] \in {0, 1} /\ queue[s] \in Seq(Procs)
  BY DEF SemsOK
<1>2. CASE /\ value[s] = full /\ ~Waiting(p)
           /\ queue' = [queue EXCEPT ![s] = Append(@, p)]
           /\ UNCHANGED value
  <2>1. p \notin Range(queue[s])
    BY <1>2 DEF Waiting, list_contains
  <2>2. queue'[s] = list_add_tail(p, queue[s])
    BY <1>2 DEF SemsOK, list_add_tail
  <2>3. /\ queue'[s] \in Seq(Procs) /\ IsInjective(queue'[s])
        /\ Range(queue'[s]) = Range(queue[s]) \cup {p}
    BY <1>1, <2>1, <2>2, AddTailNew
  <2>4. Len(queue'[s]) = Len(queue[s]) + 1
    BY <1>1, <2>2 DEF list_add_tail
  <2> QED BY <1>1, <1>2, <2>1, <2>3, <2>4 DEF SemsOK, Joins
<1>3. CASE /\ value[s] # full /\ queue[s] # << >>
           /\ queue' = [queue EXCEPT ![s] = Tail(@)]
           /\ UNCHANGED value
  <2>1. queue'[s] = Tail(queue[s])
    BY <1>3 DEF SemsOK
  <2>2. /\ Head(queue[s]) \in Range(queue[s]) /\ Tail(queue[s]) \in Seq(Procs)
        /\ Len(Tail(queue[s])) = Len(queue[s]) - 1
        /\ IsInjective(Tail(queue[s]))
        /\ Range(Tail(queue[s])) = Range(queue[s]) \ {Head(queue[s])}
    BY <1>1, <1>3, TakeHead
  <2> QED BY <1>1, <1>3, <2>1, <2>2 DEF SemsOK, PassesOn
<1>4. CASE /\ value[s] # full /\ queue[s] = << >>
           /\ value' = [value EXCEPT ![s] = after]
           /\ UNCHANGED queue
  BY <1>4 DEF SemsOK, Sets
<1> QED BY <1>2, <1>3, <1>4 DEF Operate

-----------------------------------------------------------------------------
(* The mutex of the swap pool.                                              *)

BatonPoints == {"scan", "evict", "write", "read", "install", "release", "baton"}

\* The points at which a U-proc has no baton include these, and none of those at
\* which it may have one.
PlainPoints(N) == /\ AccessPoints \cup {"tlb", "pick"} \subseteq N
                  /\ N \cap (BatonPoints \cup Ending) = {}

\* SwapPoolMutex is inductive with this: only U-procs wait for the swap pool, each
\* once, and only while somebody has it; and the batons tell the U-procs
\* inside the handler from those outside (at the points in N).
SwapInv(N) ==
  /\ SemsOK
  /\ SwapPoolMutex
  /\ IsInjective(queue[SWAP])
  /\ Range(queue[SWAP]) \subseteq Asid
  /\ queue[SWAP] # << >> => value[SWAP] = 0
  /\ swap_pool_batons \in [Asid -> BOOLEAN]
  /\ \A x \in Asid : pc[x] \in BatonPoints => swap_pool_batons[x]
  /\ \A x \in Asid : pc[x] \in N => ~swap_pool_batons[x]

\* PagerStep(x) is what the pager adds to the steps of U-proc x.
PagerStep(x) == Access(x) \/ Terminate(x) \/ support_tlb(x) \/ clean_after_uproc(x)

\* The points as sets: strings are different.
LEMMA Points ==
  /\ AccessPoints \cap (FaultPoints \cup Ending) = {}
  /\ AccessPoints \cap (FaultPoints \cup EndPoints) = {}
  /\ "user" \in AccessPoints
  /\ SWAP \in Sems /\ Asid \subseteq Procs
BY PagerConstants DEF EndPoints

\* Steps that leave the semaphores and the batons alone, and move x between points
\* that mean the same for the mutex.
LEMMA SwapFrame ==
  ASSUME NEW P, pc \in [Asid -> P], NEW N, PlainPoints(N), SwapInv(N),
         NEW x \in Asid, ~list_contains(x, queue[SWAP]) \/ pc'[x] = "pick",
         UNCHANGED swap_pool_batons, SemsOK',
         value'[SWAP] = value[SWAP], queue'[SWAP] = queue[SWAP],
         \A y \in Asid \ {x} : pc'[y] = pc[y],
         Holds(x)' <=> Holds(x),
         pc'[x] \in BatonPoints => swap_pool_batons[x],
         pc'[x] \in N => ~swap_pool_batons[x]
  PROVE  SwapInv(N)'
<1>1. \A y \in Asid : Holds(y)' <=> Holds(y)
  <2> TAKE y \in Asid
  <2>1. CASE y = x
    BY <2>1
  <2>2. CASE y # x
    BY <2>2 DEF Holds, list_contains
  <2> QED BY <2>1, <2>2
<1>2. \A y \in Asid : list_contains(y, queue[SWAP])' => pc'[y] = "pick"
  BY DEF SwapInv, SwapPoolMutex, list_contains
<1>3. SwapPoolMutex'
  BY <1>1, <1>2 DEF SwapInv, SwapPoolMutex
<1>4. \A y \in Asid : /\ pc'[y] \in BatonPoints => swap_pool_batons'[y]
                      /\ pc'[y] \in N => ~swap_pool_batons'[y]
  BY DEF SwapInv
<1> QED BY <1>3, <1>4 DEF SwapInv

\* VERHOGEN by the U-proc that has the swap pool: the first in the queue gets it,
\* or nobody has it.
LEMMA SwapRelease ==
  ASSUME NEW P, pc \in [Asid -> P], NEW N, PlainPoints(N), SwapInv(N),
         NEW x \in Asid, Holds(x), Verhogen(SWAP, x), UNCHANGED swap_pool_batons,
         NEW q \in {"baton", "clean"}, pc' = [pc EXCEPT ![x] = q],
         swap_pool_batons[x]
  PROVE  SwapInv(N)'
<1>1. value[SWAP] = 0 /\ value[SWAP] # 1
  BY DEF SwapInv, SwapPoolMutex
<1>2. SWAP \in Sems /\ x \in Procs
  BY Points
<1>3. /\ SemsOK'
      /\ \/ Joins(SWAP, x, 1) \/ PassesOn(SWAP, 1) \/ Sets(SWAP, 1, 1)
  BY <1>2, OperateEffect DEF SwapInv, Verhogen
<1>4. pc'[x] = q /\ \A y \in Asid \ {x} : pc'[y] = pc[y]
  OBVIOUS
<1>5. ~Holds(x)'
  BY <1>4 DEF Holds
<1>6. \A y \in Asid : /\ pc'[y] \in BatonPoints => swap_pool_batons'[y]
                      /\ pc'[y] \in N => ~swap_pool_batons'[y]
  BY <1>4 DEF SwapInv, PlainPoints, BatonPoints, Ending
<1>7. \A y \in Asid \ {x} : ~Holds(y)
  BY DEF SwapInv, SwapPoolMutex
<1>8. CASE PassesOn(SWAP, 1)
  <2>0. PICK h \in Asid : h = Head(queue[SWAP]) /\ h \in Range(queue[SWAP])
    BY <1>8 DEF PassesOn, SwapInv
  <2>1. h # x /\ pc[h] = "pick"
    BY <2>0 DEF SwapInv, SwapPoolMutex, list_contains, Holds
  <2>2. h \notin Range(queue'[SWAP]) /\ Range(queue'[SWAP]) = Range(queue[SWAP]) \ {h}
    BY <1>8, <2>0 DEF PassesOn
  <2>3. Holds(h)'
    BY <1>4, <2>1, <2>2 DEF Holds, list_contains
  <2>4. \A y \in Asid \ {h} : ~Holds(y)'
    BY <1>4, <1>5, <1>7, <2>2 DEF Holds, list_contains
  <2>5. \A y \in Asid : list_contains(y, queue[SWAP])' => pc'[y] = "pick"
    BY <1>4, <2>2 DEF SwapInv, SwapPoolMutex, list_contains, Holds
  <2>6. value'[SWAP] = 0
    BY <1>1, <1>8 DEF PassesOn
  <2>7. SwapPoolMutex'
    BY <2>1, <2>3, <2>4, <2>5, <2>6 DEF SwapPoolMutex
  <2> QED BY <1>3, <1>6, <1>8, <2>2, <2>6, <2>7 DEF SwapInv, PassesOn
<1>9. CASE Sets(SWAP, 1, 1)
  <2>1. value'[SWAP] = 1 /\ queue'[SWAP] = queue[SWAP] /\ queue'[SWAP] = << >>
    BY <1>9 DEF Sets
  <2>2. \A y \in Asid : ~Holds(y)'
    BY <1>4, <1>5, <1>7, <2>1 DEF Holds, list_contains
  <2>3. \A y \in Asid : list_contains(y, queue[SWAP])' => pc'[y] = "pick"
    BY <1>4, <2>1 DEF SwapInv, SwapPoolMutex, list_contains, Holds
  <2>4. SwapPoolMutex'
    BY <2>1, <2>2, <2>3 DEF SwapPoolMutex
  <2> QED BY <1>3, <1>6, <2>1, <2>4 DEF SwapInv
<1>10. ~Joins(SWAP, x, 1)
  BY <1>1 DEF Joins
<1> QED BY <1>3, <1>8, <1>9, <1>10

\* PASSEREN: the U-proc has the swap pool, or waits behind the others.
LEMMA SwapGain ==
  ASSUME NEW P, pc \in [Asid -> P], NEW N, PlainPoints(N), SwapInv(N),
         NEW x \in Asid, GainSwapPool(x)
  PROVE  SwapInv(N)'
<1>1. SWAP \in Sems /\ x \in Procs
  BY Points
<1>2. /\ SemsOK'
      /\ \/ Joins(SWAP, x, 0) \/ PassesOn(SWAP, 0) \/ Sets(SWAP, 0, 0)
  BY <1>1, OperateEffect DEF SwapInv, GainSwapPool, Passeren
<1>3. /\ pc[x] = "tlb" /\ pc'[x] = "pick" /\ \A y \in Asid \ {x} : pc'[y] = pc[y]
      /\ swap_pool_batons' = swap_pool_batons
  BY DEF GainSwapPool, At, Goto, poolVars
<1>4. "pick" \in N /\ "tlb" \in N
  BY DEF PlainPoints
<1>5. ~swap_pool_batons[x]
  BY <1>3, <1>4 DEF SwapInv
<1>6. \A y \in Asid : /\ pc'[y] \in BatonPoints => swap_pool_batons'[y]
                      /\ pc'[y] \in N => ~swap_pool_batons'[y]
  BY <1>3, <1>5 DEF SwapInv, BatonPoints
<1>7. ~Holds(x) /\ ~list_contains(x, queue[SWAP])
  BY <1>3 DEF Holds, SwapInv, SwapPoolMutex
<1>8. CASE Joins(SWAP, x, 0)
  <2>1. value[SWAP] = 0 /\ value'[SWAP] = 0
    BY <1>8 DEF Joins
  <2>2. Range(queue'[SWAP]) = Range(queue[SWAP]) \cup {x} /\ IsInjective(queue'[SWAP])
    BY <1>8 DEF Joins
  <2>3. \A y \in Asid : Holds(y)' <=> Holds(y)
    BY <1>3, <1>7, <2>2 DEF Holds, list_contains
  <2>4. \A y \in Asid : list_contains(y, queue[SWAP])' => pc'[y] = "pick"
    BY <1>3, <2>2 DEF SwapInv, SwapPoolMutex, list_contains
  <2>5. SwapPoolMutex'
    BY <2>1, <2>3, <2>4 DEF SwapInv, SwapPoolMutex
  <2> QED BY <1>2, <1>3, <1>6, <2>1, <2>2, <2>5 DEF SwapInv
<1>9. CASE Sets(SWAP, 0, 0)
  <2>1. value[SWAP] = 1 /\ value'[SWAP] = 0 /\ queue[SWAP] = << >> /\ queue'[SWAP] = << >>
    BY <1>1, <1>9 DEF Sets, SwapInv, SemsOK
  <2>2. Range(queue'[SWAP]) = {}
    BY <2>1, NilList
  <2>3. Holds(x)'
    BY <1>3, <2>2 DEF Holds, list_contains
  <2>4. \A y \in Asid : ~Holds(y)
    BY <2>1 DEF SwapInv, SwapPoolMutex
  <2>5. \A y \in Asid \ {x} : ~Holds(y)'
    BY <1>3, <2>1, <2>4 DEF Holds, list_contains
  <2>6. SwapPoolMutex'
    BY <2>1, <2>2, <2>3, <2>5 DEF SwapPoolMutex, list_contains
  <2>7. IsInjective(queue'[SWAP]) /\ Range(queue'[SWAP]) \subseteq Asid
    BY <2>1 DEF SwapInv
  <2> QED BY <1>2, <1>3, <1>6, <2>1, <2>6, <2>7 DEF SwapInv
<1>10. ~PassesOn(SWAP, 0)
  <2> SUFFICES ASSUME PassesOn(SWAP, 0) PROVE FALSE
    OBVIOUS
  <2>1. value[SWAP] # 0 /\ Head(queue[SWAP]) \in Range(queue[SWAP])
    BY DEF PassesOn
  <2>2. queue[SWAP] = << >>
    BY <2>1 DEF SwapInv
  <2> QED BY <2>1, <2>2, NilList
<1> QED BY <1>2, <1>8, <1>9, <1>10

\* Every step of the pager preserves the mutex.
LEMMA SwapStep ==
  ASSUME NEW P, pc \in [Asid -> P], back \in [Asid -> AccessPoints],
         NEW N, PlainPoints(N), SwapInv(N), NEW x \in Asid, PagerStep(x)
  PROVE  SwapInv(N)'
<1> DEFINE Inside == {"scan", "evict", "write", "read", "install", "release"}
<1>1. /\ AccessPoints \subseteq N /\ "tlb" \in N /\ "pick" \in N
      /\ N \cap BatonPoints = {} /\ N \cap Ending = {}
  BY DEF PlainPoints
<1>3. CASE Access(x)
  <2>1. /\ pc[x] \in AccessPoints /\ UNCHANGED << swap_pool_batons, value, queue >>
        /\ pc' = pc \/ pc' = [pc EXCEPT ![x] = "tlb"]
    BY <1>3 DEF Access, tlb_refill_handler, LoadFrom, StoreTo, Fault, At, Goto,
                poolVars, sVars
  <2>2. /\ pc[x] \in N /\ pc[x] \notin BatonPoints \cup {"pick", "terminate"}
        /\ pc'[x] \in {pc[x], "tlb"} /\ \A y \in Asid \ {x} : pc'[y] = pc[y]
    BY <1>1, <2>1, Points DEF Ending, FaultPoints
  <2>3. ~list_contains(x, queue[SWAP]) /\ ~swap_pool_batons[x]
    BY <2>2 DEF SwapInv, SwapPoolMutex
  <2>4. ~Holds(x) /\ ~Holds(x)'
    BY <2>2 DEF Holds, BatonPoints
  <2>5. pc'[x] \notin BatonPoints
    BY <2>2 DEF BatonPoints
  <2>6. SemsOK'
    BY <2>1 DEF SwapInv, SemsOK
  <2> QED BY <2>1, <2>2, <2>3, <2>4, <2>5, <2>6, SwapFrame
<1>4. CASE Terminate(x)
  <2>1. /\ pc[x] = "user" /\ UNCHANGED << swap_pool_batons, value, queue >>
        /\ pc'[x] = "terminate" /\ \A y \in Asid \ {x} : pc'[y] = pc[y]
    BY <1>4 DEF Terminate, At, Goto, poolVars, sVars
  <2>2. ~list_contains(x, queue[SWAP]) /\ ~swap_pool_batons[x]
    BY <1>1, <2>1, Points DEF SwapInv, SwapPoolMutex
  <2>3. ~Holds(x) /\ ~Holds(x)'
    BY <2>1, <2>2 DEF Holds
  <2>4. SemsOK'
    BY <2>1 DEF SwapInv, SemsOK
  <2> QED BY <2>1, <2>2, <2>3, <2>4, SwapFrame DEF BatonPoints
<1>5. CASE GainSwapPool(x)
  BY <1>5, SwapGain
<1>6. CASE TakeBaton(x)
  <2>1. /\ pc[x] = "pick" /\ UNCHANGED << value, queue >> /\ ~Waiting(x)
        /\ pc'[x] = "scan" /\ \A y \in Asid \ {x} : pc'[y] = pc[y]
        /\ swap_pool_batons' = [swap_pool_batons EXCEPT ![x] = TRUE]
    BY <1>6 DEF TakeBaton, At, Goto, sVars, set_swap_pool_baton
  <2>2. ~list_contains(x, queue[SWAP])
    BY <2>1, Points DEF Waiting
  <2>3. \A y \in Asid : Holds(y)' <=> Holds(y)
    BY <2>1, <2>2 DEF Holds, SwapInv
  <2>4. \A y \in Asid : list_contains(y, queue[SWAP])' => pc'[y] = "pick"
    BY <2>1, <2>2 DEF SwapInv, SwapPoolMutex, list_contains
  <2>5. SwapPoolMutex'
    BY <2>1, <2>3, <2>4 DEF SwapInv, SwapPoolMutex
  <2>6. \A y \in Asid : /\ pc'[y] \in BatonPoints => swap_pool_batons'[y]
                        /\ pc'[y] \in N => ~swap_pool_batons'[y]
    BY <1>1, <2>1 DEF SwapInv, BatonPoints
  <2> QED BY <2>1, <2>5, <2>6 DEF SwapInv, SemsOK
<1>7. CASE pick_page(x) \/ EvictPage(x) \/ WriteVictim(x) \/ ReadPage(x) \/ InstallPage(x)
  <2>1. /\ pc[x] \in Inside /\ UNCHANGED << swap_pool_batons, value, queue >>
        /\ pc'[x] \in Inside /\ \A y \in Asid \ {x} : pc'[y] = pc[y]
    BY <1>7 DEF pick_page, EvictPage, WriteVictim, ReadPage, InstallPage, At, Goto, sVars, poolVars
  <2>2. ~list_contains(x, queue[SWAP]) /\ swap_pool_batons[x]
    BY <2>1 DEF SwapInv, SwapPoolMutex, BatonPoints
  <2>3. Holds(x) /\ Holds(x)'
    BY <2>1, <2>2 DEF Holds, list_contains
  <2>4. SemsOK'
    BY <2>1 DEF SwapInv, SemsOK
  <2>5. pc'[x] \notin N
    BY <1>1, <2>1 DEF BatonPoints
  <2> QED BY <2>1, <2>2, <2>3, <2>4, <2>5, SwapFrame
<1>8. CASE FlashError(x)
  <2>1. /\ pc[x] \in {"write", "read"} /\ UNCHANGED << swap_pool_batons, value, queue >>
        /\ pc'[x] = "terminate" /\ \A y \in Asid \ {x} : pc'[y] = pc[y]
    BY <1>8 DEF FlashError, At, Goto, sVars, poolVars
  <2>2. ~list_contains(x, queue[SWAP]) /\ swap_pool_batons[x]
    BY <2>1 DEF SwapInv, SwapPoolMutex, BatonPoints
  <2>3. Holds(x) /\ Holds(x)'
    BY <2>1, <2>2 DEF Holds, list_contains
  <2>4. SemsOK'
    BY <2>1 DEF SwapInv, SemsOK
  <2>5. pc'[x] \notin N /\ pc'[x] \notin BatonPoints
    BY <1>1, <2>1 DEF BatonPoints, Ending
  <2> QED BY <2>1, <2>2, <2>3, <2>4, <2>5, SwapFrame
<1>9. CASE ReleaseSwapPool(x)
  <2>1. /\ pc[x] = "release" /\ UNCHANGED swap_pool_batons /\ Verhogen(SWAP, x)
        /\ pc' = [pc EXCEPT ![x] = "baton"]
    BY <1>9 DEF ReleaseSwapPool, At, Goto, poolVars
  <2>2. Holds(x) /\ swap_pool_batons[x]
    BY <2>1 DEF Holds, SwapInv, SwapPoolMutex, BatonPoints
  <2> QED BY <2>1, <2>2, SwapRelease
<1>10. CASE ReturnFromFault(x)
  <2>1. /\ pc[x] = "baton" /\ UNCHANGED << value, queue >>
        /\ pc'[x] \in AccessPoints /\ \A y \in Asid \ {x} : pc'[y] = pc[y]
        /\ swap_pool_batons' = [swap_pool_batons EXCEPT ![x] = FALSE]
    BY <1>10 DEF ReturnFromFault, At, Goto, sVars, set_swap_pool_baton
  <2>2. ~list_contains(x, queue[SWAP])
    BY <2>1 DEF SwapInv, SwapPoolMutex
  <2>3. pc'[x] \notin BatonPoints /\ pc'[x] \notin {"pick", "terminate"}
    BY <1>1, <2>1, Points DEF FaultPoints, Ending
  <2>4. \A y \in Asid : Holds(y)' <=> Holds(y)
    BY <2>1, <2>2, <2>3 DEF Holds, BatonPoints, SwapInv
  <2>5. \A y \in Asid : list_contains(y, queue[SWAP])' => pc'[y] = "pick"
    BY <2>1, <2>2 DEF SwapInv, SwapPoolMutex, list_contains
  <2>6. SwapPoolMutex'
    BY <2>1, <2>4, <2>5 DEF SwapInv, SwapPoolMutex
  <2>7. \A y \in Asid : /\ pc'[y] \in BatonPoints => swap_pool_batons'[y]
                        /\ pc'[y] \in N => ~swap_pool_batons'[y]
    BY <2>1, <2>3 DEF SwapInv
  <2> QED BY <2>1, <2>6, <2>7 DEF SwapInv, SemsOK
<1>11. CASE CleanRelease(x)
  <2>1. /\ pc[x] = "terminate" /\ UNCHANGED swap_pool_batons
        /\ pc' = [pc EXCEPT ![x] = "clean"] /\ release_sem_swap_pool_table(x)
    BY <1>11 DEF CleanRelease, At, Goto, poolVars
  <2>2. ~list_contains(x, queue[SWAP])
    BY <2>1 DEF SwapInv, SwapPoolMutex
  <2>3. CASE swap_pool_batons[x]
    <3>1. Holds(x) /\ Verhogen(SWAP, x)
      BY <2>1, <2>2, <2>3 DEF Holds, release_sem_swap_pool_table
    <3> QED BY <2>1, <2>3, <3>1, SwapRelease
  <2>4. CASE ~swap_pool_batons[x]
    <3>1. UNCHANGED << value, queue >> /\ pc'[x] = "clean"
          /\ \A y \in Asid \ {x} : pc'[y] = pc[y]
      BY <2>1, <2>4 DEF release_sem_swap_pool_table, sVars
    <3>2. ~Holds(x) /\ ~Holds(x)'
      BY <2>1, <2>4, <3>1 DEF Holds
    <3>3. SemsOK'
      BY <3>1 DEF SwapInv, SemsOK
    <3> QED BY <2>1, <2>2, <2>4, <3>1, <3>2, <3>3, SwapFrame DEF BatonPoints
  <2> QED BY <2>3, <2>4
<1>12. CASE CleanTest(x) \/ CleanFrame(x)
  <2>1. /\ pc[x] \in {"clean", "free"} /\ UNCHANGED << swap_pool_batons, value, queue >>
        /\ pc'[x] \in {"clean", "free", "cleaned"} /\ \A y \in Asid \ {x} : pc'[y] = pc[y]
    BY <1>12 DEF CleanTest, CleanFrame, At, Goto, sVars, poolVars
  <2>2. ~list_contains(x, queue[SWAP])
    BY <2>1 DEF SwapInv, SwapPoolMutex
  <2>3. ~Holds(x) /\ ~Holds(x)'
    BY <2>1 DEF Holds
  <2>4. SemsOK'
    BY <2>1 DEF SwapInv, SemsOK
  <2>5. pc'[x] \notin N /\ pc'[x] \notin BatonPoints
    BY <1>1, <2>1 DEF BatonPoints, Ending
  <2> QED BY <2>1, <2>2, <2>3, <2>4, <2>5, SwapFrame
<1> QED BY <1>3, <1>4, <1>5, <1>6, <1>7, <1>8, <1>9, <1>10, <1>11, <1>12
        DEF PagerStep, support_tlb, clean_after_uproc

-----------------------------------------------------------------------------
(* The data of the pager.                                                   *)

\* Entries that can be in a page table: a valid one has a frame.
Entries == {lo \in [frame : Frame \cup {NULL}, valid : BOOLEAN, dirty : BOOLEAN] :
              lo.valid => lo.frame \in Frame}

\* TypeOK but for pc, which UProcs extends, with what keeps every index in its
\* table: the pages in the TLB and in a saved entry_hi have passed
\* entryhi_to_vpn, and a U-proc that uses its victim frame has picked one.
DataOK ==
  /\ pte \in [Asid -> [Index -> Entries]]
  /\ tlb \subseteq [asid : Asid, vpn : Vpns, lo : Entries]
  /\ \A e \in tlb : entryhi_to_vpn_ok(e.vpn)
  /\ swap_pool_table \in [Frame -> [asid : Asid \cup {-1}, page : Index]]
  /\ swap_pool_batons \in [Asid -> BOOLEAN]
  /\ fifo \in Frame \cup {-1}
  /\ frame \in [Frame -> Values]
  /\ flash \in [Asid -> [Index -> Values]]
  /\ reg \in [Asid -> Values]
  /\ back \in [Asid -> AccessPoints]
  /\ vpn \in [Asid -> Vpns \cup {KUSEG_VPN}]
  /\ \A x \in Asid : entryhi_to_vpn_ok(vpn[x])
  /\ victim \in [Asid -> [frame : 0..POOLSIZE, asid : Asid \cup {-1}, page : Index]]
  /\ \A x \in Asid : /\ pc[x] \in {"evict", "write", "read", "install", "free"} =>
                          victim[x].frame \in Frame
                     /\ pc[x] = "write" => victim[x].asid \in Asid
  /\ machine \in {"up", "panic", "halt", "stuck"}
  /\ crossed \in BOOLEAN

\* What PageTablesAgree and TlbAgrees need to be inductive, as long as no U-proc
\* has evicted a page of another one.
Serving == {"tlb", "pick", "scan", "evict", "write", "read", "install"}

\* The frame a U-proc fills is its own or nobody's, and maps no page.
VictimUnused(x) ==
  pc[x] \in {"write", "read", "install"} =>
    /\ swap_pool_table[victim[x].frame].asid \in {-1, x}
    /\ \A k \in Index : pte[x][k].valid => pte[x][k].frame # victim[x].frame

\* The page support_tlb was called for is not there yet.
PageMissing(x) == pc[x] \in Serving => ~pte[x][vpn_to_index(vpn[x])].valid

\* A frame that is about to be freed still belongs to the U-proc that ends.
FreesOwn(x) == pc[x] = "free" => swap_pool_table[victim[x].frame].asid = x

\* What is written out goes to the backing store of the U-proc that writes it; what
\* is installed is what the backing store holds.
Transfers(x) ==
  /\ pc[x] = "write" => victim[x].asid = x
  /\ pc[x] = "install" => frame[victim[x].frame] = flash[x][vpn_to_index(vpn[x])]

\* PageTablesAgree for one U-proc, and exactly: a page that is recorded has the
\* entry update_page_table wrote.
Agrees(x) ==
  Alive(x) =>
    /\ \A k \in Index : pte[x][k].valid =>
         swap_pool_table[pte[x][k].frame] = [asid |-> x, page |-> k]
    /\ \A i \in Frame : swap_pool_table[i].asid = x /\ ~Evicting(x, i) =>
         pte[x][swap_pool_table[i].page] = Lo(i, TRUE, TRUE)

PagingInv ==
  /\ TlbAgrees
  /\ ~crossed => \A x \in Asid : Agrees(x) /\ VictimUnused(x) /\ PageMissing(x)
                                 /\ FreesOwn(x) /\ Transfers(x)

\* The arithmetic of page numbers: entryhi_to_vpn, vpn_to_index and the numbers
\* init_page_table writes are inverse to each other.
LEMMA PageNumbers ==
  /\ \A v \in Int : entryhi_to_vpn_ok(v) =>
       vpn_to_index(v) \in Index /\ PteVpn(vpn_to_index(v)) = v
  /\ \A k \in Index : vpn_to_index(PteVpn(k)) = k
  /\ KUSEG_VPN \in Int /\ entryhi_to_vpn_ok(KUSEG_VPN)
BY PoolAssumption, StackApart, SMT
DEF entryhi_to_vpn_ok, vpn_to_index, PteVpn, Index, KUSEG_VPN, STACK_VPN

\* The frame that is next in turn is in the pool.
LEMMA NextInPool ==
  ASSUME fifo \in Frame \cup {-1}
  PROVE  NextFrame \in Frame
<1>1. POOLSIZE \in Nat \ {0} /\ fifo + 1 \in 0..POOLSIZE
  BY PoolAssumption DEF Frame
<1>2. (fifo + 1) % POOLSIZE \in 0..(POOLSIZE - 1)
  BY <1>1
<1> QED BY <1>2 DEF NextFrame, Frame

\* An access finds its entry in the TLB.
LEMMA TlbEntry ==
  ASSUME NEW x, NEW v, Cached(x, v)
  PROVE  \E e \in tlb : e.asid = x /\ e.vpn = v /\ e.lo = TlbLo(x, v)
BY DEF Cached, TlbLo, Matches

\* The victim frames of the other U-procs are not touched by a step of x.
VictimOK(x) ==
  /\ pc[x] \in {"evict", "write", "read", "install", "free"} => victim[x].frame \in Frame
  /\ pc[x] = "write" => victim[x].asid \in Asid

LEMMA VictimFrame ==
  ASSUME NEW P, pc \in [Asid -> P], DataOK, NEW x \in Asid,
         NEW q, pc' = [pc EXCEPT ![x] = q],
         \A y \in Asid \ {x} : victim'[y] = victim[y],
         VictimOK(x)'
  PROVE  \A y \in Asid : VictimOK(y)'
BY DEF DataOK, VictimOK

\* The fields of the local copy after the assignment of a swap pool table entry.
LEMMA EntryCopied ==
  ASSUME NEW r \in [frame : 0..POOLSIZE, asid : Asid \cup {-1}, page : Index],
         NEW a \in Asid \cup {-1}, NEW p \in Index
  PROVE  [r EXCEPT !.asid = a, !.page = p] = [frame |-> r.frame, asid |-> a, page |-> p]
<1>1. PICK q : q = [r EXCEPT !.asid = a]
  OBVIOUS
<1>2. q = [frame |-> r.frame, asid |-> a, page |-> r.page]
  BY <1>1
<1>3. q \in [frame : 0..POOLSIZE, asid : Asid \cup {-1}, page : Index] /\ q.frame = r.frame /\ q.asid = a
  BY <1>2
<1>4. [q EXCEPT !.page = p] = [frame |-> q.frame, asid |-> q.asid, page |-> p]
  BY <1>3
<1>5. [r EXCEPT !.asid = a, !.page = p] = [q EXCEPT !.page = p]
  BY <1>1
<1> QED BY <1>3, <1>4, <1>5

\* The copy of the swap pool table entry that EvictPage takes.
LEMMA EvictVictim ==
  ASSUME DataOK, NEW x \in Asid, EvictPage(x), victim[x].frame \in Frame
  PROVE  /\ victim' \in [Asid -> [frame : 0..POOLSIZE, asid : Asid \cup {-1}, page : Index]]
         /\ victim'[x].frame = victim[x].frame
         /\ victim'[x].asid = swap_pool_table[victim[x].frame].asid
         /\ victim'[x].page = swap_pool_table[victim[x].frame].page
         /\ \A y \in Asid \ {x} : victim'[y] = victim[y]
<1> DEFINE V == [frame : 0..POOLSIZE, asid : Asid \cup {-1}, page : Index]
<1>1. PICK v : v = victim[x]
  OBVIOUS
<1>2. PICK s : s = swap_pool_table[v.frame]
  OBVIOUS
<1>3. v \in V /\ s \in [asid : Asid \cup {-1}, page : Index] /\ victim \in [Asid -> V]
  BY <1>1, <1>2 DEF DataOK
<1>4. PICK w : w = [frame |-> v.frame, asid |-> s.asid, page |-> s.page]
  OBVIOUS
<1>5. w \in V /\ w.frame = v.frame /\ w.asid = s.asid /\ w.page = s.page
  BY <1>3, <1>4
<1>6. victim' = [victim EXCEPT ![x] = w]
  <2>1. [v EXCEPT !.asid = s.asid, !.page = s.page] = w
    <3>1. s.asid \in Asid \cup {-1} /\ s.page \in Index
      BY <1>3
    <3>2. [v EXCEPT !.asid = s.asid, !.page = s.page] =
            [frame |-> v.frame, asid |-> s.asid, page |-> s.page]
      BY <1>3, <3>1, EntryCopied
    <3> QED BY <1>4, <3>2
  <2>2. PICK a, p : a = s.asid /\ p = s.page
    OBVIOUS
  <2>3. victim' = [victim EXCEPT ![x].asid = a, ![x].page = p]
    BY <1>1, <1>2, <2>2 DEF EvictPage
  <2>4. [victim EXCEPT ![x].asid = a, ![x].page = p] =
          [victim EXCEPT ![x] = [v EXCEPT !.asid = a, !.page = p]]
    BY <1>1, <1>3
  <2> QED BY <2>1, <2>2, <2>3, <2>4
<1>7. /\ victim' \in [Asid -> V] /\ victim'[x] = w
      /\ \A y \in Asid \ {x} : victim'[y] = victim[y]
  BY <1>3, <1>5, <1>6
<1> QED BY <1>1, <1>2, <1>5, <1>7

\* A new frame in the local variables of x.
Victims == [frame : 0..POOLSIZE, asid : Asid \cup {-1}, page : Index]

LEMMA VictimMoved ==
  ASSUME victim \in [Asid -> Victims], NEW x \in Asid, NEW f \in 0..POOLSIZE,
         victim' = [victim EXCEPT ![x].frame = f]
  PROVE  /\ victim' \in [Asid -> Victims]
         /\ victim'[x].frame = f
         /\ \A y \in Asid \ {x} : victim'[y] = victim[y]
<1>1. victim[x] \in Victims
  OBVIOUS
<1>2. [victim[x] EXCEPT !.frame = f] \in Victims /\ [victim[x] EXCEPT !.frame = f].frame = f
  BY <1>1 DEF Victims
<1>3. victim' = [victim EXCEPT ![x] = [victim[x] EXCEPT !.frame = f]]
  OBVIOUS
<1> HIDE DEF Victims
<1> QED BY <1>2, <1>3

\* Writing the TLB keeps its type.
LEMMA TlbTyped ==
  ASSUME DataOK, NEW x \in Asid, NEW v, NEW lo \in Entries
  PROVE  /\ update_tlb(x, v, lo) \subseteq [asid : Asid, vpn : Vpns, lo : Entries]
         /\ \A e \in update_tlb(x, v, lo) : entryhi_to_vpn_ok(e.vpn)
<1> SUFFICES ASSUME NEW e \in tlb
             PROVE  LET f == IF Matches(e, x, v) THEN [e EXCEPT !.lo = lo] ELSE e
                    IN  f \in [asid : Asid, vpn : Vpns, lo : Entries]
                        /\ entryhi_to_vpn_ok(f.vpn)
  BY DEF update_tlb
<1>1. e \in [asid : Asid, vpn : Vpns, lo : Entries] /\ entryhi_to_vpn_ok(e.vpn)
  BY DEF DataOK
<1>2. [e EXCEPT !.lo = lo] \in [asid : Asid, vpn : Vpns, lo : Entries]
      /\ [e EXCEPT !.lo = lo].vpn = e.vpn
  BY <1>1
<1> QED BY <1>1, <1>2

\* Every step of the pager keeps the types.
LEMMA DataStep ==
  ASSUME NEW P, pc \in [Asid -> P], DataOK, NEW x \in Asid, PagerStep(x)
  PROVE  DataOK'
<1>1. AccessPoints \cap {"evict", "write", "read", "install", "free"} = {}
  BY Points DEF FaultPoints, Ending
<1>2. vpn_to_index(vpn[x]) \in Index
  <2>1. vpn[x] \in Vpns \cup {KUSEG_VPN} /\ entryhi_to_vpn_ok(vpn[x])
    BY DEF DataOK
  <2>2. Vpns \subseteq Int
    BY PagerConstants
  <2> QED BY <2>1, <2>2, PageNumbers
<1>3. ASSUME NEW v \in Vpns, tlb_refill_handler(x, v) PROVE DataOK'
  <2>1. /\ machine' \in {"up", "panic", "halt", "stuck"}
        /\ tlb' \subseteq [asid : Asid, vpn : Vpns, lo : Entries]
        /\ \A e \in tlb' : entryhi_to_vpn_ok(e.vpn)
    <3>1. CASE ~entryhi_to_vpn_ok(v)
      BY <1>3, <3>1 DEF tlb_refill_handler, DataOK
    <3>2. CASE entryhi_to_vpn_ok(v)
      <4>1. pte[x][vpn_to_index(v)] \in Entries
        BY <3>2, PageNumbers, PagerConstants DEF DataOK
      <4>2. \A e \in tlb' : e \in tlb \/ e = [asid |-> x, vpn |-> v, lo |-> pte[x][vpn_to_index(v)]]
        BY <1>3, <3>2 DEF tlb_refill_handler, add_random_in_tlb
      <4> QED BY <1>3, <3>2, <4>1, <4>2 DEF tlb_refill_handler, DataOK
    <3> QED BY <3>1, <3>2
  <2> QED BY <1>3, <2>1 DEF tlb_refill_handler, DataOK, poolVars, dataVars, localVars, sVars
<1>4. ASSUME NEW v \in Vpns, LoadFrom(x, v) PROVE DataOK'
  <2>1. TlbLo(x, v).frame \in Frame
    BY <1>4, TlbEntry DEF LoadFrom, Allows, DataOK, Entries
  <2>2. reg' \in [Asid -> Values]
    BY <1>4, <2>1 DEF LoadFrom, DataOK
  <2> QED BY <1>4, <2>2 DEF LoadFrom, DataOK, poolVars, pageVars, localVars, sVars
<1>5. ASSUME NEW v \in Vpns, NEW data \in Values, StoreTo(x, v, data) PROVE DataOK'
  <2>1. frame' \in [Frame -> Values]
    BY <1>5 DEF StoreTo, DataOK
  <2> QED BY <1>5, <2>1 DEF StoreTo, DataOK, poolVars, pageVars, localVars, sVars
<1>6. ASSUME NEW v \in Vpns, NEW op, Fault(x, v, op) PROVE DataOK'
  <2>1. entryhi_to_vpn_ok(v)
    BY <1>6, TlbEntry DEF Fault, DataOK
  <2>2. /\ vpn' \in [Asid -> Vpns \cup {KUSEG_VPN}]
        /\ \A y \in Asid : entryhi_to_vpn_ok(vpn'[y])
        /\ back' \in [Asid -> AccessPoints]
    BY <1>6, <2>1 DEF Fault, DataOK, At
  <2>3. \A y \in Asid : VictimOK(y)'
    BY <1>6, VictimFrame DEF Fault, Goto, VictimOK
  <2> QED BY <1>6, <2>2, <2>3 DEF Fault, DataOK, VictimOK, poolVars, dataVars, pageVars
<1>7. CASE Access(x)
  BY <1>3, <1>4, <1>5, <1>6, <1>7 DEF Access
<1>8. CASE Terminate(x) \/ GainSwapPool(x) \/ ReleaseSwapPool(x) \/ FlashError(x)
  <2>1. \E q \in {"terminate", "pick", "baton"} : pc' = [pc EXCEPT ![x] = q]
    BY <1>8 DEF Terminate, GainSwapPool, ReleaseSwapPool, FlashError, Goto
  <2>2. UNCHANGED << poolVars, dataVars, pageVars, localVars, machine >>
    BY <1>8 DEF Terminate, GainSwapPool, ReleaseSwapPool, FlashError
  <2>3. \A y \in Asid : VictimOK(y)'
    BY <2>1, <2>2, VictimFrame DEF VictimOK, localVars
  <2> QED BY <2>2, <2>3 DEF DataOK, VictimOK, poolVars, dataVars, pageVars, localVars
<1>19. ASSUME NEW f \in 0..POOLSIZE, victim' = [victim EXCEPT ![x].frame = f]
       PROVE  /\ victim' \in [Asid -> [frame : 0..POOLSIZE, asid : Asid \cup {-1}, page : Index]]
              /\ victim'[x].frame = f /\ \A y \in Asid \ {x} : victim'[y] = victim[y]
  <2>1. victim \in [Asid -> Victims]
    BY DEF DataOK, Victims
  <2>2. /\ victim' \in [Asid -> Victims] /\ victim'[x].frame = f
        /\ \A y \in Asid \ {x} : victim'[y] = victim[y]
    BY <1>19, <2>1, VictimMoved
  <2> QED BY <2>2 DEF Victims
<1>9. CASE TakeBaton(x)
  <2>1. 0 \in 0..POOLSIZE
    BY PoolAssumption
  <2>2. /\ victim' \in [Asid -> [frame : 0..POOLSIZE, asid : Asid \cup {-1}, page : Index]]
        /\ \A y \in Asid \ {x} : victim'[y] = victim[y]
    BY <1>9, <1>19, <2>1 DEF TakeBaton
  <2>3. \A y \in Asid : VictimOK(y)'
    BY <1>9, <2>2, VictimFrame DEF TakeBaton, Goto, VictimOK
  <2>4. swap_pool_batons' \in [Asid -> BOOLEAN]
    BY <1>9 DEF TakeBaton, DataOK, set_swap_pool_baton
  <2> QED BY <1>9, <2>2, <2>3, <2>4 DEF TakeBaton, DataOK, VictimOK, dataVars, pageVars
<1>20. CASE pick_page(x)
  <2>1. /\ UNCHANGED << swap_pool_table, swap_pool_batons, crossed, dataVars, pageVars,
                       back, vpn, machine >>
        /\ pc[x] = "scan"
    BY <1>20 DEF pick_page, At
  <2>2. victim[x].frame \in 0..POOLSIZE
    BY DEF DataOK
  <2>3. CASE /\ victim' = [victim EXCEPT ![x].frame = NextFrame]
             /\ fifo' = NextFrame /\ Goto(x, "evict")
    <3>1. NextFrame \in Frame
      BY NextInPool DEF DataOK
    <3>2. NextFrame \in 0..POOLSIZE
      BY <3>1, PoolAssumption DEF Frame
    <3>3. PICK f \in 0..POOLSIZE : f = NextFrame
      BY <3>2
    <3>4. victim' = [victim EXCEPT ![x].frame = f]
      BY <2>3, <3>3
    <3>5. /\ victim' \in [Asid -> [frame : 0..POOLSIZE, asid : Asid \cup {-1}, page : Index]]
          /\ victim'[x].frame = f /\ \A y \in Asid \ {x} : victim'[y] = victim[y]
      BY <1>19, <3>4
    <3>6. pc' = [pc EXCEPT ![x] = "evict"]
      BY <2>3 DEF Goto
    <3>7. f \in Frame
      BY <3>1, <3>3
    <3>8. VictimOK(x)'
      BY <3>5, <3>6, <3>7 DEF DataOK, VictimOK
    <3>9. \A y \in Asid : VictimOK(y)'
      BY <3>5, <3>6, <3>8, VictimFrame
    <3> QED BY <2>1, <2>3, <3>1, <3>5, <3>9 DEF DataOK, VictimOK, dataVars, pageVars
  <2>4. CASE victim[x].frame # POOLSIZE /\ Goto(x, "evict") /\ UNCHANGED << victim, fifo >>
    <3>1. victim[x].frame \in Frame
      BY <2>2, <2>4, PoolAssumption DEF Frame
    <3>2. \A y \in Asid : VictimOK(y)'
      BY <2>4, <3>1, VictimFrame DEF Goto, VictimOK
    <3> QED BY <2>1, <2>4, <3>2 DEF DataOK, VictimOK, dataVars, pageVars
  <2>5. CASE /\ victim[x].frame # POOLSIZE /\ UNCHANGED << fifo, pc >>
             /\ victim' = [victim EXCEPT ![x].frame = victim[x].frame + 1]
    <3>1. victim[x].frame + 1 \in 0..POOLSIZE
      BY <2>2, <2>5, PoolAssumption
    <3>2. PICK f \in 0..POOLSIZE : f = victim[x].frame + 1
      BY <3>1
    <3>3. /\ victim' \in [Asid -> [frame : 0..POOLSIZE, asid : Asid \cup {-1}, page : Index]]
          /\ \A y \in Asid \ {x} : victim'[y] = victim[y]
      BY <1>19, <2>5, <3>2
    <3>4. \A y \in Asid : VictimOK(y)'
      BY <2>1, <2>5, <3>3 DEF DataOK, VictimOK
    <3> QED BY <2>1, <2>5, <3>3, <3>4 DEF DataOK, VictimOK, dataVars, pageVars
  <2> QED BY <1>20, <2>3, <2>4, <2>5 DEF pick_page
<1>10. CASE EvictPage(x)
  <2> DEFINE swap == swap_pool_table[victim[x].frame]
             lo == IF swap.asid = x THEN ZeroLo ELSE pte[swap.asid][swap.page]
  <2>1. victim[x].frame \in Frame
    BY <1>10 DEF EvictPage, At, DataOK
  <2>2. swap \in [asid : Asid \cup {-1}, page : Index]
    BY <2>1 DEF DataOK
  <2>3. ZeroLo \in Entries
    BY DEF ZeroLo, Lo, Entries
  <2>4. /\ victim' \in [Asid -> [frame : 0..POOLSIZE, asid : Asid \cup {-1}, page : Index]]
        /\ victim'[x].frame = victim[x].frame /\ victim'[x].asid = swap.asid
        /\ \A y \in Asid \ {x} : victim'[y] = victim[y]
    BY <1>10, <2>1, EvictVictim
  <2> HIDE DEF swap
  <2>5. /\ victim' \in [Asid -> [frame : 0..POOLSIZE, asid : Asid \cup {-1}, page : Index]]
        /\ victim'[x].frame = victim[x].frame /\ victim'[x].asid = swap.asid
        /\ \A y \in Asid \ {x} : victim'[y] = victim[y]
    BY <2>4
  <2>6. CASE swap.asid = -1 /\ Goto(x, "read") /\ UNCHANGED pageVars
    <3>1. \A y \in Asid : VictimOK(y)'
      BY <2>1, <2>5, <2>6, VictimFrame DEF Goto, VictimOK
    <3> QED BY <1>10, <2>5, <2>6, <3>1
            DEF EvictPage, DataOK, VictimOK, dataVars, pageVars
  <2>7. CASE /\ swap.asid # -1 /\ mark_page_not_valid(x, swap.page)
             /\ tlb' = update_tlb(swap.asid, PteVpn(swap.page), lo) /\ Goto(x, "write")
    <3>1. swap.asid \in Asid /\ swap.page \in Index
      BY <2>2, <2>7
    <3>2. \A y \in Asid : VictimOK(y)'
      BY <2>1, <2>5, <2>7, <3>1, VictimFrame DEF Goto, VictimOK
    <3>3. pte' \in [Asid -> [Index -> Entries]]
      BY <2>3, <2>7 DEF mark_page_not_valid, DataOK
    <3>4. lo \in Entries
      BY <2>3, <3>1 DEF DataOK
    <3>5. /\ tlb' \subseteq [asid : Asid, vpn : Vpns, lo : Entries]
          /\ \A e \in tlb' : entryhi_to_vpn_ok(e.vpn)
      BY <2>7, <3>1, <3>4, TlbTyped
    <3> QED BY <1>10, <2>5, <3>2, <3>3, <3>5 DEF EvictPage, DataOK, VictimOK, dataVars
  <2> QED BY <1>10, <2>6, <2>7 DEF EvictPage, swap
<1>11. CASE WriteVictim(x)
  <2>1. /\ victim[x].frame \in Frame /\ victim[x].asid \in Asid
    BY <1>11 DEF WriteVictim, At, DataOK
  <2>2. victim[x].page \in Index
    BY DEF DataOK
  <2>3. flash' \in [Asid -> [Index -> Values]]
    BY <1>11, <2>1, <2>2 DEF WriteVictim, write_flash, DataOK
  <2>4. \A y \in Asid : VictimOK(y)'
    BY <1>11, <2>1, VictimFrame DEF WriteVictim, Goto, VictimOK, localVars
  <2> QED BY <1>11, <2>3, <2>4
          DEF WriteVictim, DataOK, VictimOK, poolVars, pageVars, localVars
<1>12. CASE ReadPage(x)
  <2>1. victim[x].frame \in Frame
    BY <1>12 DEF ReadPage, At, DataOK
  <2>2. frame' \in [Frame -> Values]
    <3>1. flash[x][vpn_to_index(vpn[x])] \in Values /\ frame \in [Frame -> Values]
      BY <1>2 DEF DataOK
    <3>2. frame' = [frame EXCEPT ![victim[x].frame] = flash[x][vpn_to_index(vpn[x])]]
      BY <1>12 DEF ReadPage, read_flash
    <3> QED BY <2>1, <3>1, <3>2
  <2>3. \A y \in Asid : VictimOK(y)'
    BY <1>12, <2>1, VictimFrame DEF ReadPage, Goto, VictimOK, localVars
  <2> QED BY <1>12, <2>2, <2>3
          DEF ReadPage, DataOK, VictimOK, poolVars, pageVars, localVars
<1>13. CASE InstallPage(x)
  <2> DEFINE k == vpn_to_index(vpn[x])
             lo == update_page_table(victim[x].frame)
  <2>1. victim[x].frame \in Frame
    BY <1>13 DEF InstallPage, At, DataOK
  <2>2. lo \in Entries
    BY <2>1 DEF update_page_table, Lo, Entries
  <2> HIDE DEF k, lo
  <2>3. k \in Index
    BY <1>2 DEF k
  <2>4. swap_pool_table' \in [Frame -> [asid : Asid \cup {-1}, page : Index]]
    BY <1>13, <2>3 DEF InstallPage, add_entry_swap_pool_table, DataOK, k
  <2>5. pte' \in [Asid -> [Index -> Entries]]
    BY <1>13, <2>2 DEF InstallPage, DataOK, k, lo
  <2>6. /\ tlb' \subseteq [asid : Asid, vpn : Vpns, lo : Entries]
        /\ \A e \in tlb' : entryhi_to_vpn_ok(e.vpn)
    BY <1>13, <2>2, TlbTyped DEF InstallPage, lo
  <2>7. /\ victim' \in [Asid -> [frame : 0..POOLSIZE, asid : Asid \cup {-1}, page : Index]]
        /\ \A y \in Asid \ {x} : victim'[y] = victim[y]
    BY <1>13, PoolAssumption DEF InstallPage, DataOK, Index
  <2>8. \A y \in Asid : VictimOK(y)'
    BY <1>13, <2>7, VictimFrame DEF InstallPage, Goto, VictimOK
  <2> QED BY <1>13, <2>4, <2>5, <2>6, <2>7, <2>8
          DEF InstallPage, DataOK, VictimOK, dataVars
<1>14. CASE ReturnFromFault(x)
  <2>1. back[x] \in AccessPoints
    BY DEF DataOK
  <2>2. \A y \in Asid : VictimOK(y)'
    BY <1>1, <1>14, <2>1, VictimFrame DEF ReturnFromFault, Goto, VictimOK
  <2>3. /\ swap_pool_batons' \in [Asid -> BOOLEAN]
        /\ vpn' \in [Asid -> Vpns \cup {KUSEG_VPN}]
        /\ \A y \in Asid : entryhi_to_vpn_ok(vpn'[y])
        /\ back' \in [Asid -> AccessPoints]
    BY <1>14, Points, PageNumbers DEF ReturnFromFault, DataOK, set_swap_pool_baton
  <2> QED BY <1>14, <2>2, <2>3 DEF ReturnFromFault, DataOK, VictimOK, dataVars, pageVars
<1>15. CASE CleanRelease(x)
  <2>1. /\ victim' \in [Asid -> [frame : 0..POOLSIZE, asid : Asid \cup {-1}, page : Index]]
        /\ \A y \in Asid \ {x} : victim'[y] = victim[y]
    BY <1>15, PoolAssumption DEF CleanRelease, DataOK, Index
  <2>2. \A y \in Asid : VictimOK(y)'
    BY <1>15, <2>1, VictimFrame DEF CleanRelease, Goto, VictimOK
  <2> QED BY <1>15, <2>1, <2>2 DEF CleanRelease, DataOK, VictimOK, poolVars, dataVars, pageVars
<1>16. ASSUME victim' = [victim EXCEPT ![x].frame = victim[x].frame + 1],
              victim[x].frame \in Frame
       PROVE  /\ victim' \in [Asid -> [frame : 0..POOLSIZE, asid : Asid \cup {-1}, page : Index]]
              /\ \A y \in Asid \ {x} : victim'[y] = victim[y]
  <2>1. victim[x].frame + 1 \in 0..POOLSIZE
    BY <1>16, PoolAssumption DEF Frame
  <2> QED BY <1>16, <2>1, VictimMoved DEF DataOK, Victims
<1>17. CASE CleanTest(x)
  <2>1. UNCHANGED << poolVars, dataVars, pageVars, back, vpn, machine >> /\ pc[x] = "clean"
    BY <1>17 DEF CleanTest, At
  <2>2. victim[x].frame \in 0..POOLSIZE
    BY DEF DataOK
  <2>3. CASE victim[x].frame = POOLSIZE /\ Goto(x, "cleaned") /\ UNCHANGED victim
    <3>1. \A y \in Asid : VictimOK(y)'
      BY <2>3, VictimFrame DEF Goto, VictimOK
    <3> QED BY <2>1, <2>3, <3>1 DEF DataOK, VictimOK, poolVars, dataVars, pageVars
  <2>4. CASE victim[x].frame # POOLSIZE /\ Goto(x, "free") /\ UNCHANGED victim
    <3>1. victim[x].frame \in Frame
      BY <2>2, <2>4, PoolAssumption DEF Frame
    <3>2. \A y \in Asid : VictimOK(y)'
      BY <2>4, <3>1, VictimFrame DEF Goto, VictimOK
    <3> QED BY <2>1, <2>4, <3>2 DEF DataOK, VictimOK, poolVars, dataVars, pageVars
  <2>5. CASE /\ victim[x].frame # POOLSIZE /\ UNCHANGED pc
             /\ victim' = [victim EXCEPT ![x].frame = victim[x].frame + 1]
    <3>1. victim[x].frame \in Frame
      BY <2>2, <2>5, PoolAssumption DEF Frame
    <3>2. \A y \in Asid : VictimOK(y)'
      BY <1>16, <2>1, <2>5, <3>1 DEF DataOK, VictimOK
    <3> QED BY <1>16, <2>1, <2>5, <3>1, <3>2 DEF DataOK, VictimOK, poolVars, dataVars, pageVars
  <2> QED BY <1>17, <2>3, <2>4, <2>5 DEF CleanTest
<1>18. CASE CleanFrame(x)
  <2>1. victim[x].frame \in Frame
    BY <1>18 DEF CleanFrame, At, DataOK
  <2>2. swap_pool_table' = [swap_pool_table EXCEPT ![victim[x].frame] =
                              [swap_pool_table[victim[x].frame] EXCEPT !.asid = -1]]
    BY <1>18, <2>1 DEF CleanFrame, DataOK
  <2>3. swap_pool_table' \in [Frame -> [asid : Asid \cup {-1}, page : Index]]
    <3>1. swap_pool_table \in [Frame -> [asid : Asid \cup {-1}, page : Index]]
      BY DEF DataOK
    <3>2. [swap_pool_table[victim[x].frame] EXCEPT !.asid = -1]
            \in [asid : Asid \cup {-1}, page : Index]
      BY <2>1, <3>1
    <3> QED BY <2>1, <2>2, <3>1, <3>2
  <2>4. /\ victim' \in [Asid -> [frame : 0..POOLSIZE, asid : Asid \cup {-1}, page : Index]]
        /\ \A y \in Asid \ {x} : victim'[y] = victim[y]
    BY <1>16, <1>18, <2>1 DEF CleanFrame
  <2>5. \A y \in Asid : VictimOK(y)'
    BY <1>18, <2>4, VictimFrame DEF CleanFrame, Goto, VictimOK
  <2> QED BY <1>18, <2>3, <2>4, <2>5
          DEF CleanFrame, DataOK, VictimOK, dataVars, pageVars
<1> QED BY <1>7, <1>8, <1>9, <1>10, <1>11, <1>12, <1>13, <1>14, <1>15, <1>17, <1>18, <1>20
        DEF PagerStep, support_tlb, clean_after_uproc

\* pc, which the steps of the pager keep within the points of the pager.
LEMMA PointStep ==
  ASSUME NEW P, AccessPoints \cup HandlerPoints \subseteq P, pc \in [Asid -> P],
         DataOK, NEW x \in Asid, PagerStep(x)
  PROVE  pc' \in [Asid -> P]
<1>1. back[x] \in P /\ \A q \in HandlerPoints : q \in P
  BY DEF DataOK
<1>2. CASE Access(x)
  BY <1>1, <1>2 DEF Access, tlb_refill_handler, LoadFrom, StoreTo, Fault, Goto,
                    HandlerPoints, FaultPoints, Ending
<1>3. CASE Terminate(x) \/ clean_after_uproc(x)
  BY <1>1, <1>3 DEF Terminate, clean_after_uproc, CleanRelease, CleanTest, CleanFrame,
                    Goto, HandlerPoints, FaultPoints, Ending
<1>4. CASE support_tlb(x)
  BY <1>1, <1>4 DEF support_tlb, GainSwapPool, TakeBaton, pick_page, EvictPage, WriteVictim, ReadPage,
                    FlashError, InstallPage, ReleaseSwapPool, ReturnFromFault,
                    Goto, HandlerPoints, FaultPoints, Ending
<1> QED BY <1>2, <1>3, <1>4 DEF PagerStep

\* The tables init_pager sets up.
LEMMA InitData ==
  ASSUME init_pager, \A x \in Asid : pc[x] \notin {"evict", "write", "read", "install", "free"}
  PROVE  DataOK
<1>1. init_page_table \in [Index -> Entries]
  BY DEF init_page_table, Lo, Entries
<1>2. 0 \in 0..POOLSIZE /\ 0 \in Index
  BY PoolAssumption DEF Index
<1>3. Blank \in Values /\ "user" \in AccessPoints
  BY PagerConstants
<1>4. entryhi_to_vpn_ok(KUSEG_VPN)
  BY PageNumbers
<1>5. pte \in [Asid -> [Index -> Entries]]
  BY <1>1 DEF init_pager
<1>6. /\ tlb \subseteq [asid : Asid, vpn : Vpns, lo : Entries]
      /\ \A e \in tlb : entryhi_to_vpn_ok(e.vpn)
  BY DEF init_pager
<1>7. swap_pool_table \in [Frame -> [asid : Asid \cup {-1}, page : Index]]
  BY <1>2 DEF init_pager
<1>8. victim \in [Asid -> [frame : 0..POOLSIZE, asid : Asid \cup {-1}, page : Index]]
  BY <1>2 DEF init_pager
<1>9. vpn \in [Asid -> Vpns \cup {KUSEG_VPN}] /\ \A x \in Asid : entryhi_to_vpn_ok(vpn[x])
  BY <1>4 DEF init_pager
<1>10. \A x \in Asid : pc[x] # "write"
  OBVIOUS
<1> QED BY <1>3, <1>5, <1>6, <1>7, <1>8, <1>9, <1>10 DEF init_pager, DataOK

\* The swap pool is free at first.
LEMMA InitSwap ==
  ASSUME NEW N, PlainPoints(N), InitSems, value[SWAP] = 1,
         \A x \in Asid : pc[x] \in N \ {"pick"}, swap_pool_batons = [x \in Asid |-> FALSE]
  PROVE  SwapInv(N)
<1>1. SWAP \in Sems
  BY Points
<1>2. SemsOK /\ queue[SWAP] = << >>
  BY <1>1, NilList DEF InitSems, SemsOK
<1>3. Range(queue[SWAP]) = {} /\ IsInjective(queue[SWAP])
  BY <1>2, NilList
<1>4. N \cap BatonPoints = {} /\ N \cap Ending = {}
  BY DEF PlainPoints
<1>5. \A x \in Asid : ~swap_pool_batons[x] /\ pc[x] \notin BatonPoints
  BY <1>4
<1>6. \A x \in Asid : ~Holds(x)
  BY <1>5 DEF Holds, BatonPoints
<1>7. SwapPoolMutex
  BY <1>3, <1>6 DEF SwapPoolMutex, list_contains
<1> QED BY <1>2, <1>3, <1>5, <1>7 DEF SwapInv

-----------------------------------------------------------------------------
(* Page tables, swap pool table, TLB and contents.                          *)

\* PagingInv without its condition, one U-proc at a time.
Paged(x) == Agrees(x) /\ VictimUnused(x) /\ PageMissing(x) /\ FreesOwn(x) /\ Transfers(x)

TlbCurrent == \A e \in tlb : Alive(e.asid) => e.lo = pte[e.asid][vpn_to_index(e.vpn)]

LEMMA Unfold ==
  /\ PagingInv <=> (~crossed => TlbCurrent /\ \A x \in Asid : Paged(x))
  /\ PagingInv' <=> (~crossed' => TlbCurrent' /\ \A x \in Asid : Paged(x)')
BY DEF PagingInv, TlbAgrees, TlbCurrent, Paged, Agrees

\* The points of support_tlb that have the swap pool belong to one U-proc.
Inside == {"evict", "write", "read", "install", "release"}

LEMMA Alone ==
  ASSUME NEW N, SwapInv(N), NEW x \in Asid, NEW y \in Asid,
         pc[x] \in Inside, pc[y] \in Inside
  PROVE  x = y
BY DEF SwapInv, SwapPoolMutex, Holds, Inside

\* A step of another U-proc: it leaves the frames and the backing store of y alone.
LEMMA OthersPaged ==
  ASSUME DataOK, NEW y \in Asid, Paged(y),
         pc'[y] = pc[y], pte'[y] = pte[y], vpn'[y] = vpn[y], victim'[y] = victim[y],
         \A i \in Frame : \/ swap_pool_table'[i] = swap_pool_table[i]
                          \/ /\ swap_pool_table[i].asid # y
                             /\ swap_pool_table'[i].asid # y
                             /\ \/ swap_pool_table'[i].asid = -1
                                \/ pc[y] \notin {"write", "read", "install"},
         pc[y] = "install" => /\ frame'[victim[y].frame] = frame[victim[y].frame]
                              /\ flash'[y] = flash[y]
  PROVE  Paged(y)'
<1>1. \A k \in Index : pte[y][k].valid => pte[y][k].frame \in Frame
  BY DEF DataOK, Entries
<1>2. pc[y] \in {"write", "read", "install", "free"} => victim[y].frame \in Frame
  BY DEF DataOK
<1>3. Agrees(y)'
  <2> SUFFICES ASSUME Alive(y)
               PROVE  /\ \A k \in Index : pte[y][k].valid =>
                           swap_pool_table'[pte[y][k].frame] = [asid |-> y, page |-> k]
                      /\ \A i \in Frame : swap_pool_table'[i].asid = y /\ ~Evicting(y, i) =>
                           pte[y][swap_pool_table'[i].page] = Lo(i, TRUE, TRUE)
    BY DEF Agrees, Alive, Evicting, Lo
  <2>1. ASSUME NEW k \in Index, pte[y][k].valid
        PROVE  swap_pool_table'[pte[y][k].frame] = [asid |-> y, page |-> k]
    <3>1. swap_pool_table[pte[y][k].frame] = [asid |-> y, page |-> k]
      BY <2>1 DEF Paged, Agrees
    <3>2. swap_pool_table[pte[y][k].frame].asid = y
      BY <3>1
    <3> QED BY <1>1, <2>1, <3>1, <3>2
  <2>2. ASSUME NEW i \in Frame, swap_pool_table'[i].asid = y, ~Evicting(y, i)
        PROVE  pte[y][swap_pool_table'[i].page] = Lo(i, TRUE, TRUE)
    <3>1. swap_pool_table'[i] = swap_pool_table[i]
      BY <2>2
    <3> QED BY <2>2, <3>1 DEF Paged, Agrees
  <2> QED BY <2>1, <2>2
<1>4. VictimUnused(y)'
  BY <1>2 DEF VictimUnused, Paged
<1>5. PageMissing(y)'
  BY DEF PageMissing, Paged, vpn_to_index
<1>6. FreesOwn(y)'
  BY <1>2 DEF FreesOwn, Paged
<1>7. Transfers(y)'
  BY DEF Transfers, Paged, vpn_to_index
<1> QED BY <1>3, <1>4, <1>5, <1>6, <1>7 DEF Paged

\* The TLB, when pages are not changed and nobody comes back to life.
LEMMA TlbKept ==
  ASSUME DataOK, TlbCurrent, UNCHANGED << tlb, pte >>,
         \A y \in Asid : Alive(y)' => Alive(y)
  PROVE  TlbCurrent'
BY DEF TlbCurrent, DataOK, vpn_to_index

\* Steps that leave tables, TLB, frames and backing stores alone.
LEMMA LocalStep ==
  ASSUME NEW P, pc \in [Asid -> P], DataOK, TlbCurrent, \A y \in Asid : Paged(y),
         NEW x \in Asid, UNCHANGED << pte, tlb, swap_pool_table, frame, flash >>,
         \A y \in Asid \ {x} : pc'[y] = pc[y] /\ vpn'[y] = vpn[y] /\ victim'[y] = victim[y],
         Alive(x)' => Alive(x), Paged(x)'
  PROVE  TlbCurrent' /\ \A y \in Asid : Paged(y)'
<1>1. \A y \in Asid \ {x} : Paged(y)'
  BY OthersPaged
<1>2. \A y \in Asid : Alive(y)' => Alive(y)
  BY DEF Alive
<1>3. TlbCurrent'
  BY <1>2, TlbKept
<1> QED BY <1>1, <1>3

\* What an access finds: the entry of the page table, which maps a frame that the
\* swap pool table records, if it is valid, and can be written.
LEMMA AccessEntry ==
  ASSUME DataOK, TlbCurrent, \A y \in Asid : Paged(y), NEW x \in Asid, NEW v \in Vpns,
         pc[x] \in AccessPoints, Cached(x, v)
  PROVE  /\ entryhi_to_vpn_ok(v) /\ vpn_to_index(v) \in Index
         /\ TlbLo(x, v) = pte[x][vpn_to_index(v)]
         /\ TlbLo(x, v).valid =>
              /\ TlbLo(x, v).frame \in Frame /\ TlbLo(x, v).dirty
              /\ swap_pool_table[TlbLo(x, v).frame] = [asid |-> x, page |-> vpn_to_index(v)]
<1> DEFINE k == vpn_to_index(v)
<1>1. PICK e \in tlb : e.asid = x /\ e.vpn = v /\ e.lo = TlbLo(x, v)
  BY TlbEntry
<1>2. entryhi_to_vpn_ok(v) /\ v \in Int
  BY <1>1, PagerConstants DEF DataOK
<1>3. k \in Index
  BY <1>2, PageNumbers
<1>4. Alive(x) /\ \A i : ~Evicting(x, i)
  BY Points DEF Alive, Evicting, FaultPoints
<1>5. TlbLo(x, v) = pte[x][k]
  BY <1>1, <1>4 DEF TlbCurrent
<1> HIDE DEF k
<1>6. ASSUME pte[x][k].valid
      PROVE  /\ pte[x][k].frame \in Frame /\ pte[x][k].dirty
             /\ swap_pool_table[pte[x][k].frame] = [asid |-> x, page |-> k]
  <2>1. pte[x][k].frame \in Frame
    BY <1>3, <1>6 DEF DataOK, Entries
  <2>2. swap_pool_table[pte[x][k].frame] = [asid |-> x, page |-> k]
    BY <1>3, <1>4, <1>6 DEF Paged, Agrees
  <2>3. /\ swap_pool_table[pte[x][k].frame].asid = x
        /\ swap_pool_table[pte[x][k].frame].page = k
    BY <2>2
  <2>4. pte[x][k] = Lo(pte[x][k].frame, TRUE, TRUE)
    <3>1. \A i \in Frame : swap_pool_table[i].asid = x =>
            pte[x][swap_pool_table[i].page] = Lo(i, TRUE, TRUE)
      BY <1>4 DEF Paged, Agrees
    <3> QED BY <2>1, <2>3, <3>1
  <2> QED BY <2>1, <2>2, <2>4 DEF Lo
<1> QED BY <1>2, <1>3, <1>5, <1>6 DEF k

\* A U-proc uses its memory.
LEMMA AccessPaged ==
  ASSUME NEW P, pc \in [Asid -> P], DataOK, TlbCurrent, \A y \in Asid : Paged(y),
         NEW x \in Asid, Access(x)
  PROVE  TlbCurrent' /\ \A y \in Asid : Paged(y)'
<1>1. AccessPoints \cap (FaultPoints \cup EndPoints) = {}
  BY Points
<1>2. ASSUME NEW v \in Vpns, tlb_refill_handler(x, v)
      PROVE  TlbCurrent' /\ \A y \in Asid : Paged(y)'
  <2>1. UNCHANGED << pc, vpn, victim, pte, swap_pool_table, frame, flash >>
    BY <1>2 DEF tlb_refill_handler, poolVars, dataVars, localVars
  <2>2. \A y \in Asid : Paged(y)'
    BY <2>1, OthersPaged
  <2>3. \A e \in tlb' : e \in tlb \/ e = [asid |-> x, vpn |-> v, lo |-> pte[x][vpn_to_index(v)]]
    BY <1>2 DEF tlb_refill_handler, add_random_in_tlb
  <2>4. \A e \in tlb' : Alive(e.asid) => e.lo = pte[e.asid][vpn_to_index(e.vpn)]
    BY <2>3 DEF TlbCurrent
  <2>5. TlbCurrent'
    BY <2>1, <2>4 DEF TlbCurrent, Alive, vpn_to_index
  <2> QED BY <2>2, <2>5
<1>3. ASSUME NEW v \in Vpns, LoadFrom(x, v)
      PROVE  TlbCurrent' /\ \A y \in Asid : Paged(y)'
  <2>1. UNCHANGED << pc, vpn, victim, pte, tlb, swap_pool_table, frame, flash >>
    BY <1>3 DEF LoadFrom, poolVars, pageVars, localVars
  <2>2. \A y \in Asid : Paged(y)'
    BY <2>1, OthersPaged
  <2> QED BY <2>1, <2>2, TlbKept DEF Alive
<1>4. ASSUME NEW v \in Vpns, NEW data, StoreTo(x, v, data)
      PROVE  TlbCurrent' /\ \A y \in Asid : Paged(y)'
  <2> DEFINE f == TlbLo(x, v).frame
  <2>1. UNCHANGED << pc, vpn, victim, pte, tlb, swap_pool_table, flash >>
    BY <1>4 DEF StoreTo, poolVars, pageVars, localVars
  <2>2. pc[x] \in AccessPoints /\ Cached(x, v) /\ TlbLo(x, v).valid
    BY <1>4 DEF StoreTo, At, Allows
  <2>3. f \in Frame /\ swap_pool_table[f].asid = x
    <3>1. f \in Frame /\ swap_pool_table[f] = [asid |-> x, page |-> vpn_to_index(v)]
      BY <2>2, AccessEntry
    <3> QED BY <3>1
  <2>4. frame' = [frame EXCEPT ![f] = data]
    BY <1>4 DEF StoreTo
  <2> HIDE DEF f
  <2>5. ASSUME NEW y \in Asid, pc[y] = "install"
        PROVE  frame'[victim[y].frame] = frame[victim[y].frame]
    <3>1. swap_pool_table[victim[y].frame].asid \in {-1, y} /\ victim[y].frame \in Frame
      BY <2>5 DEF Paged, VictimUnused, DataOK
    <3>2. y # x /\ x # -1
      BY <1>1, <2>2, <2>5, PoolAssumption DEF FaultPoints, Asid
    <3>3. victim[y].frame # f
      BY <2>3, <3>1, <3>2
    <3> QED BY <2>4, <3>1, <3>3 DEF DataOK
  <2>6. \A y \in Asid : Paged(y)'
    BY <2>1, <2>5, OthersPaged
  <2> QED BY <2>1, <2>6, TlbKept DEF Alive
<1>5. ASSUME NEW v \in Vpns, NEW op \in {"load", "store"}, Fault(x, v, op)
      PROVE  TlbCurrent' /\ \A y \in Asid : Paged(y)'
  <2>1. /\ UNCHANGED << victim, pte, tlb, swap_pool_table, frame, flash >>
        /\ pc'[x] = "tlb" /\ vpn'[x] = v
        /\ \A y \in Asid \ {x} : pc'[y] = pc[y] /\ vpn'[y] = vpn[y]
    BY <1>5 DEF Fault, Goto, poolVars, dataVars, pageVars, DataOK
  <2>2. pc[x] \in AccessPoints /\ Cached(x, v) /\ ~Allows(TlbLo(x, v), op)
    BY <1>5 DEF Fault, At
  <2>3. ~pte[x][vpn_to_index(v)].valid
    BY <2>2, AccessEntry DEF Allows
  <2>4. Alive(x) /\ \A i : ~Evicting(x, i)
    BY <1>1, <2>2 DEF Alive, Evicting, FaultPoints
  <2>5. Agrees(x)
    BY DEF Paged
  <2>6. Agrees(x)'
    BY <2>1, <2>4, <2>5 DEF Agrees, Alive, Evicting, Lo
  <2>7. PageMissing(x)'
    BY <2>1, <2>3 DEF PageMissing, vpn_to_index
  <2>8. VictimUnused(x)' /\ FreesOwn(x)' /\ Transfers(x)'
    BY <2>1 DEF VictimUnused, FreesOwn, Transfers
  <2> QED BY <2>1, <2>4, <2>6, <2>7, <2>8, LocalStep DEF Paged
<1> QED BY <1>2, <1>3, <1>4, <1>5 DEF Access

\* The steps of the handlers that change nothing but local variables.
LEMMA HandlerPaged ==
  ASSUME NEW P, pc \in [Asid -> P], DataOK, TlbCurrent, \A y \in Asid : Paged(y),
         NEW x \in Asid,
         \/ Terminate(x) \/ GainSwapPool(x) \/ TakeBaton(x) \/ pick_page(x) \/ FlashError(x)
         \/ ReleaseSwapPool(x) \/ ReturnFromFault(x) \/ CleanRelease(x) \/ CleanTest(x)
  PROVE  TlbCurrent' /\ \A y \in Asid : Paged(y)'
<1>1. AccessPoints \cap (FaultPoints \cup EndPoints) = {}
  BY Points
<1>2. UNCHANGED << pte, tlb, swap_pool_table, frame, flash >>
  BY DEF Terminate, GainSwapPool, TakeBaton, pick_page, FlashError, ReleaseSwapPool, ReturnFromFault,
         CleanRelease, CleanTest, poolVars, dataVars, pageVars
<1>3. \A y \in Asid \ {x} : pc'[y] = pc[y]
  BY DEF Terminate, GainSwapPool, TakeBaton, pick_page, FlashError, ReleaseSwapPool, ReturnFromFault,
         CleanRelease, CleanTest, Goto
<1>4. \A y \in Asid \ {x} : vpn'[y] = vpn[y] /\ victim'[y] = victim[y]
  BY DEF Terminate, GainSwapPool, TakeBaton, pick_page, FlashError, ReleaseSwapPool, ReturnFromFault,
         CleanRelease, CleanTest, localVars, DataOK
<1>5. Agrees(x) /\ PageMissing(x)
  BY DEF Paged
<1>6. CASE Terminate(x) \/ FlashError(x) \/ CleanRelease(x) \/ CleanTest(x)
  <2>1. pc'[x] \in EndPoints /\ pc'[x] \notin {"write", "read", "install"} \cup Serving
    BY <1>6 DEF Terminate, FlashError, CleanRelease, CleanTest, At, Goto, Ending, EndPoints, Serving
  <2>2. pc'[x] = "free" => swap_pool_table'[victim'[x].frame].asid = x
    BY <1>2, <1>6 DEF Terminate, FlashError, CleanRelease, CleanTest, At, Goto
  <2>3. Paged(x)' /\ ~Alive(x)'
    BY <2>1, <2>2 DEF Paged, Agrees, Alive, VictimUnused, PageMissing, FreesOwn, Transfers
  <2> QED BY <1>2, <1>3, <1>4, <2>3, LocalStep
<1>7. CASE \/ GainSwapPool(x) \/ TakeBaton(x) \/ pick_page(x) \/ ReleaseSwapPool(x) \/ ReturnFromFault(x)
  <2>1. /\ pc[x] \in {"tlb", "pick", "scan", "release", "baton"}
        /\ pc'[x] \in {"pick", "scan", "evict", "baton"} \cup AccessPoints
        /\ pc'[x] \in Serving => pc[x] \in Serving /\ vpn'[x] = vpn[x]
    BY <1>1, <1>7 DEF GainSwapPool, TakeBaton, pick_page, ReleaseSwapPool, ReturnFromFault, At, Goto,
                 localVars, DataOK, Serving, FaultPoints
  <2>2. /\ pc[x] \notin EndPoints /\ pc'[x] \notin EndPoints \cup {"write", "read", "install"}
        /\ pc[x] \notin {"write", "read", "install"}
    BY <1>1, <2>1 DEF Ending, EndPoints, FaultPoints
  <2>3. Agrees(x)'
    BY <1>2, <1>5, <2>2 DEF Agrees, Alive, Evicting, Lo
  <2>4. PageMissing(x)'
    BY <1>2, <1>5, <2>1 DEF PageMissing, vpn_to_index
  <2>5. VictimUnused(x)' /\ FreesOwn(x)' /\ Transfers(x)'
    BY <2>2 DEF VictimUnused, FreesOwn, Transfers, Ending, EndPoints
  <2>6. Alive(x)
    BY <2>2 DEF Alive
  <2> QED BY <1>2, <1>3, <1>4, <2>3, <2>4, <2>5, <2>6, LocalStep DEF Paged
<1> QED BY <1>6, <1>7

\* The page that is written out, or the page that is read.
LEMMA TransferPaged ==
  ASSUME NEW P, pc \in [Asid -> P], DataOK, NEW N, SwapInv(N), TlbCurrent,
         \A y \in Asid : Paged(y), NEW x \in Asid, WriteVictim(x) \/ ReadPage(x)
  PROVE  TlbCurrent' /\ \A y \in Asid : Paged(y)'
<1>1. /\ UNCHANGED << pte, tlb, swap_pool_table, vpn, victim >>
      /\ pc[x] \in {"write", "read"} /\ pc'[x] \in {"read", "install"}
      /\ \A y \in Asid \ {x} : pc'[y] = pc[y]
  BY DEF WriteVictim, ReadPage, At, Goto, poolVars, pageVars, localVars
<1>2. \A y \in Asid \ {x} : pc[y] # "install"
  BY <1>1, Alone DEF Inside
<1>3. \A y \in Asid \ {x} : Paged(y)'
  BY <1>1, <1>2, OthersPaged
<1>4. /\ Agrees(x) /\ VictimUnused(x) /\ PageMissing(x)
      /\ Alive(x) /\ Alive(x)' /\ \A i : Evicting(x, i)' <=> Evicting(x, i)
  BY <1>1 DEF Paged, Alive, Evicting, Ending, EndPoints
<1>5. Agrees(x)'
  BY <1>1, <1>4 DEF Agrees, Lo
<1>6. VictimUnused(x)' /\ PageMissing(x)' /\ FreesOwn(x)'
  BY <1>1, <1>4 DEF VictimUnused, PageMissing, FreesOwn, Serving, vpn_to_index
<1>7. Transfers(x)'
  <2>1. CASE WriteVictim(x)
    BY <2>1 DEF WriteVictim, Goto, Transfers
  <2>2. CASE ReadPage(x)
    <3>1. /\ pc'[x] = "install" /\ flash' = flash
          /\ frame' = [frame EXCEPT ![victim[x].frame] = flash[x][vpn_to_index(vpn[x])]]
      BY <2>2 DEF ReadPage, Goto, read_flash
    <3>2. victim[x].frame \in Frame
      BY <1>1 DEF DataOK
    <3>3. frame'[victim[x].frame] = flash[x][vpn_to_index(vpn[x])]
      BY <3>1, <3>2 DEF DataOK
    <3> QED BY <1>1, <3>1, <3>3 DEF Transfers, vpn_to_index
  <2> QED BY <2>1, <2>2
<1>8. \A y \in Asid : Alive(y)' => Alive(y)
  BY <1>1, <1>4 DEF Alive
<1>9. TlbCurrent'
  BY <1>1, <1>8, TlbKept
<1> QED BY <1>3, <1>5, <1>6, <1>7, <1>9 DEF Paged

\* mark_frames_as_unoccupied takes a frame from the U-proc that ends.
LEMMA CleanPaged ==
  ASSUME NEW P, pc \in [Asid -> P], DataOK, TlbCurrent, \A y \in Asid : Paged(y),
         NEW x \in Asid, CleanFrame(x)
  PROVE  TlbCurrent' /\ \A y \in Asid : Paged(y)'
<1>1. /\ UNCHANGED << pte, tlb, vpn, frame, flash >> /\ pc[x] = "free" /\ pc'[x] = "clean"
      /\ \A y \in Asid \ {x} : pc'[y] = pc[y]
  BY DEF CleanFrame, At, Goto, dataVars, pageVars
<1>2. \A y \in Asid \ {x} : victim'[y] = victim[y]
  BY DEF CleanFrame, DataOK
<1>3. victim[x].frame \in Frame /\ swap_pool_table[victim[x].frame].asid = x
  BY <1>1 DEF DataOK, Paged, FreesOwn
<1>4. /\ swap_pool_table'[victim[x].frame].asid = -1
      /\ \A i \in Frame \ {victim[x].frame} : swap_pool_table'[i] = swap_pool_table[i]
  BY <1>3 DEF CleanFrame, DataOK
<1>5. \A y \in Asid : y # -1
  BY PoolAssumption DEF Asid
<1>6. \A y \in Asid \ {x} : Paged(y)'
  BY <1>1, <1>2, <1>3, <1>4, <1>5, OthersPaged
<1>7. Paged(x)' /\ ~Alive(x)'
  BY <1>1 DEF Paged, Agrees, Alive, VictimUnused, PageMissing, FreesOwn, Transfers,
              Ending, EndPoints, Serving
<1>8. \A y \in Asid : Alive(y)' => Alive(y)
  BY <1>1, <1>7 DEF Alive
<1> QED BY <1>1, <1>6, <1>7, <1>8, TlbKept

\* A change of a page table entry reaches the TLB.
LEMMA TlbUpdated ==
  ASSUME DataOK, TlbCurrent, NEW x \in Asid, NEW k \in Index, NEW lo,
         pte' = [pte EXCEPT ![x][k] = lo], tlb' = update_tlb(x, PteVpn(k), lo),
         \A y \in Asid : Alive(y)' => Alive(y)
  PROVE  TlbCurrent'
<1> SUFFICES ASSUME NEW f \in tlb'
             PROVE  Alive(f.asid)' => f.lo = pte'[f.asid][vpn_to_index(f.vpn)]
  BY DEF TlbCurrent
<1>0. PICK e \in tlb : f = IF Matches(e, x, PteVpn(k)) THEN [e EXCEPT !.lo = lo] ELSE e
  BY DEF update_tlb
<1>1. e \in [asid : Asid, vpn : Vpns, lo : Entries] /\ entryhi_to_vpn_ok(e.vpn)
  BY DEF DataOK
<1>2. e.asid \in Asid /\ e.vpn \in Int
  BY <1>1, PagerConstants
<1>3. pte'[x][k] = lo
  BY DEF DataOK
<1>4. CASE Matches(e, x, PteVpn(k))
  <2>1. [e EXCEPT !.lo = lo].asid = x /\ [e EXCEPT !.lo = lo].vpn = PteVpn(k)
        /\ [e EXCEPT !.lo = lo].lo = lo
    BY <1>1, <1>4 DEF Matches
  <2> QED BY <1>0, <1>3, <1>4, <2>1, PageNumbers
<1>5. CASE ~Matches(e, x, PteVpn(k))
  <2>1. Alive(e.asid)' => e.lo = pte[e.asid][vpn_to_index(e.vpn)]
    BY <1>2 DEF TlbCurrent
  <2>2. vpn_to_index(e.vpn) \in Index /\ PteVpn(vpn_to_index(e.vpn)) = e.vpn
    BY <1>1, <1>2, PageNumbers
  <2>3. e.asid # x \/ vpn_to_index(e.vpn) # k
    BY <1>5, <2>2 DEF Matches
  <2>4. pte'[e.asid][vpn_to_index(e.vpn)] = pte[e.asid][vpn_to_index(e.vpn)]
    BY <1>2, <2>2, <2>3 DEF DataOK
  <2> QED BY <1>0, <1>5, <2>1, <2>4
<1> QED BY <1>4, <1>5

\* An eviction, as long as it is of a page of the U-proc itself.
LEMMA EvictPaged ==
  ASSUME NEW P, pc \in [Asid -> P], DataOK, TlbCurrent, \A y \in Asid : Paged(y),
         NEW x \in Asid, EvictPage(x), ~crossed'
  PROVE  TlbCurrent' /\ \A y \in Asid : Paged(y)'
<1> DEFINE f == victim[x].frame
           swap == swap_pool_table[f]
<1>1. /\ UNCHANGED << swap_pool_table, vpn, frame, flash >> /\ pc[x] = "evict"
      /\ swap.asid \in {-1, x}
  BY DEF EvictPage, At, dataVars
<1>2. /\ victim'[x].frame = f /\ victim'[x].asid = swap.asid
      /\ \A y \in Asid \ {x} : victim'[y] = victim[y]
  <2>1. f \in Frame
    BY <1>1 DEF DataOK
  <2> QED BY <2>1, EvictVictim
<1>3. f \in Frame /\ swap.page \in Index /\ x # -1
  BY <1>1, PoolAssumption DEF DataOK, Asid
<1>4. pc'[x] \in {"read", "write"} /\ \A y \in Asid \ {x} : pc'[y] = pc[y]
  BY DEF EvictPage, Goto
<1>5. \A y \in Asid \ {x} : pte'[y] = pte[y]
  BY DEF EvictPage, mark_page_not_valid, pageVars, DataOK
<1>6. \A y \in Asid \ {x} : Paged(y)'
  BY <1>1, <1>2, <1>4, <1>5, OthersPaged
<1>7. Alive(x) /\ Alive(x)' /\ \A i : Evicting(x, i)' <=> i = f
  BY <1>1, <1>2, <1>4 DEF Alive, Ending, EndPoints, Evicting
<1>8. /\ \A k \in Index : pte[x][k].valid =>
           swap_pool_table[pte[x][k].frame] = [asid |-> x, page |-> k]
      /\ \A i \in Frame : swap_pool_table[i].asid = x =>
           pte[x][swap_pool_table[i].page] = Lo(i, TRUE, TRUE)
  <2>1. \A i : ~Evicting(x, i)
    BY <1>1 DEF Evicting
  <2> QED BY <1>7, <2>1 DEF Paged, Agrees
<1>9. ~pte[x][vpn_to_index(vpn[x])].valid /\ vpn_to_index(vpn[x]) \in Index
  <2>1. vpn[x] \in Vpns \cup {KUSEG_VPN} /\ entryhi_to_vpn_ok(vpn[x])
    BY DEF DataOK
  <2>2. Vpns \subseteq Int
    BY PagerConstants
  <2>3. vpn_to_index(vpn[x]) \in Index
    BY <2>1, <2>2, PageNumbers
  <2> QED BY <1>1, <2>3 DEF Paged, PageMissing, Serving
<1>10. FreesOwn(x)'
  BY <1>4 DEF FreesOwn
<1>11. Transfers(x)'
  BY <1>1, <1>2, <1>4 DEF Transfers, EvictPage, Goto
<1> HIDE DEF f, swap
<1>12. CASE swap.asid = -1
  <2>1. UNCHANGED << pte, tlb >>
    BY <1>12 DEF EvictPage, pageVars, swap, f
  <2>2. \A k \in Index : pte[x][k].valid => pte[x][k].frame # f
    <3> SUFFICES ASSUME NEW k \in Index, pte[x][k].valid, pte[x][k].frame = f PROVE FALSE
      OBVIOUS
    <3>1. swap_pool_table[f] = [asid |-> x, page |-> k]
      BY <1>8
    <3> QED BY <1>3, <1>12, <3>1 DEF swap
  <2>3. Agrees(x)'
    BY <1>1, <1>7, <1>8, <2>1 DEF Agrees, Lo
  <2>4. VictimUnused(x)'
    BY <1>1, <1>2, <1>12, <2>1, <2>2 DEF VictimUnused, swap
  <2>5. PageMissing(x)'
    BY <1>1, <1>9, <2>1 DEF PageMissing, vpn_to_index
  <2>6. TlbCurrent'
    BY <1>4, <1>7, <2>1, TlbKept DEF Alive
  <2> QED BY <1>6, <1>10, <1>11, <2>3, <2>4, <2>5, <2>6 DEF Paged
<1>13. CASE swap.asid = x
  <2>1. pte' = [pte EXCEPT ![x][swap.page] = ZeroLo]
    BY <1>3, <1>13 DEF EvictPage, mark_page_not_valid, swap, f
  <2>2. tlb' = update_tlb(x, PteVpn(swap.page), ZeroLo)
    BY <1>3, <1>13 DEF EvictPage, swap, f
  <2>3. /\ pte'[x][swap.page] = ZeroLo
        /\ \A k \in Index \ {swap.page} : pte'[x][k] = pte[x][k]
    BY <1>3, <2>1 DEF DataOK
  <2>4. ~ZeroLo.valid
    BY DEF ZeroLo, Lo
  <2>5. pte[x][swap.page] = Lo(f, TRUE, TRUE)
    BY <1>3, <1>8, <1>13 DEF swap
  <2>6. \A k \in Index \ {swap.page} : pte[x][k].valid => pte[x][k].frame # f
    <3> SUFFICES ASSUME NEW k \in Index, pte[x][k].valid, pte[x][k].frame = f
                 PROVE  k = swap.page
      OBVIOUS
    <3>1. swap_pool_table[f] = [asid |-> x, page |-> k]
      BY <1>8
    <3> QED BY <3>1 DEF swap
  <2>7. \A k \in Index : pte'[x][k].valid => k # swap.page /\ pte[x][k].valid
    BY <2>3, <2>4
  <2>8. VictimUnused(x)'
    BY <1>1, <1>2, <1>13, <2>3, <2>6, <2>7 DEF VictimUnused, swap
  <2>9. PageMissing(x)'
    BY <1>1, <1>9, <2>7 DEF PageMissing, vpn_to_index
  <2>10. ASSUME NEW i \in Frame, swap_pool_table[i].asid = x, i # f
         PROVE  pte'[x][swap_pool_table[i].page] = Lo(i, TRUE, TRUE)
    <3>1. pte[x][swap_pool_table[i].page] = Lo(i, TRUE, TRUE)
      BY <1>8, <2>10
    <3>2. swap_pool_table[i].page # swap.page
      BY <2>5, <2>10, <3>1 DEF Lo
    <3>3. swap_pool_table[i].page \in Index
      BY DEF DataOK
    <3> QED BY <2>3, <3>1, <3>2, <3>3
  <2>11. ASSUME NEW k \in Index, pte'[x][k].valid
         PROVE  swap_pool_table[pte'[x][k].frame] = [asid |-> x, page |-> k]
    BY <1>8, <2>3, <2>7, <2>11
  <2>12. Agrees(x)'
    BY <1>1, <1>7, <2>10, <2>11 DEF Agrees, Lo
  <2>13. TlbCurrent'
    <3>1. \A y \in Asid : Alive(y)' => Alive(y)
      BY <1>4, <1>7 DEF Alive
    <3> QED BY <1>3, <2>1, <2>2, <3>1, TlbUpdated
  <2> QED BY <1>6, <1>10, <1>11, <2>8, <2>9, <2>12, <2>13 DEF Paged
<1> QED BY <1>1, <1>12, <1>13

\* The page is installed: its entry, the swap pool table and the TLB say so.
LEMMA InstallPaged ==
  ASSUME NEW P, pc \in [Asid -> P], DataOK, NEW N, SwapInv(N), TlbCurrent,
         \A y \in Asid : Paged(y), NEW x \in Asid, InstallPage(x)
  PROVE  TlbCurrent' /\ \A y \in Asid : Paged(y)'
<1> DEFINE f == victim[x].frame
           k == vpn_to_index(vpn[x])
           lo == Lo(f, TRUE, TRUE)
<1>1. /\ UNCHANGED << vpn, frame, flash >> /\ pc[x] = "install" /\ pc'[x] = "release"
      /\ \A y \in Asid \ {x} : pc'[y] = pc[y] /\ victim'[y] = victim[y]
  BY DEF InstallPage, At, Goto, dataVars, DataOK
<1>2. /\ swap_pool_table' = [swap_pool_table EXCEPT ![f] = [asid |-> x, page |-> k]]
      /\ pte' = [pte EXCEPT ![x][k] = lo] /\ tlb' = update_tlb(x, vpn[x], lo)
  BY DEF InstallPage, add_entry_swap_pool_table, update_page_table
<1>3. f \in Frame /\ x # -1
  BY <1>1, PoolAssumption DEF DataOK, Asid
<1>4. k \in Index /\ PteVpn(k) = vpn[x]
  <2>1. vpn[x] \in Vpns \cup {KUSEG_VPN} /\ entryhi_to_vpn_ok(vpn[x])
    BY DEF DataOK
  <2>2. Vpns \subseteq Int
    BY PagerConstants
  <2> QED BY <2>1, <2>2, PageNumbers
<1>5. /\ swap_pool_table[f].asid \in {-1, x}
      /\ \A j \in Index : pte[x][j].valid => pte[x][j].frame # f
      /\ ~pte[x][k].valid
  BY <1>1 DEF Paged, VictimUnused, PageMissing, Serving
<1>6. /\ Alive(x) /\ Alive(x)' /\ \A i : (Evicting(x, i) <=> i = f) /\ ~Evicting(x, i)'
  BY <1>1 DEF Alive, Ending, EndPoints, Evicting
<1>7. /\ \A j \in Index : pte[x][j].valid =>
           swap_pool_table[pte[x][j].frame] = [asid |-> x, page |-> j]
      /\ \A i \in Frame \ {f} : swap_pool_table[i].asid = x =>
           pte[x][swap_pool_table[i].page] = Lo(i, TRUE, TRUE)
  BY <1>6 DEF Paged, Agrees
<1> HIDE DEF f, k
<1>8. /\ pte'[x][k] = lo /\ \A j \in Index \ {k} : pte'[x][j] = pte[x][j]
      /\ \A y \in Asid \ {x} : pte'[y] = pte[y]
  BY <1>2, <1>4 DEF DataOK
<1>9. /\ swap_pool_table'[f] = [asid |-> x, page |-> k]
      /\ \A i \in Frame \ {f} : swap_pool_table'[i] = swap_pool_table[i]
  BY <1>2, <1>3 DEF DataOK
<1>10. swap_pool_table'[f].asid = x /\ swap_pool_table'[f].page = k
  BY <1>9
<1>11. \A y \in Asid \ {x} : pc[y] \notin {"write", "read", "install"}
  BY <1>1, Alone DEF Inside
<1>12. \A y \in Asid \ {x} : Paged(y)'
  <2> TAKE y \in Asid \ {x}
  <2>1. y # -1
    BY PoolAssumption DEF Asid
  <2>2. \A i \in Frame : \/ swap_pool_table'[i] = swap_pool_table[i]
                         \/ swap_pool_table[i].asid # y /\ swap_pool_table'[i].asid # y
    BY <1>5, <1>9, <1>10, <2>1
  <2> QED BY <1>1, <1>8, <1>11, <2>2, OthersPaged
<1>13. ASSUME NEW j \in Index, pte'[x][j].valid
       PROVE  swap_pool_table'[pte'[x][j].frame] = [asid |-> x, page |-> j]
  <2>1. CASE j = k
    BY <1>8, <1>9, <2>1 DEF Lo
  <2>2. CASE j # k
    <3>1. pte'[x][j] = pte[x][j] /\ pte[x][j].frame # f
      BY <1>5, <1>8, <1>13, <2>2
    <3>2. pte[x][j].frame \in Frame
      BY <1>13, <3>1 DEF DataOK, Entries
    <3> QED BY <1>7, <1>9, <1>13, <3>1, <3>2
  <2> QED BY <2>1, <2>2
<1>14. ASSUME NEW i \in Frame, swap_pool_table'[i].asid = x
       PROVE  pte'[x][swap_pool_table'[i].page] = Lo(i, TRUE, TRUE)
  <2>1. CASE i = f
    BY <1>8, <1>10, <2>1
  <2>2. CASE i # f
    <3>1. swap_pool_table'[i] = swap_pool_table[i]
      BY <1>9, <2>2
    <3>2. pte[x][swap_pool_table[i].page] = Lo(i, TRUE, TRUE)
      BY <1>7, <1>14, <2>2, <3>1
    <3>3. swap_pool_table[i].page \in Index /\ swap_pool_table[i].page # k
      BY <1>5, <3>2 DEF DataOK, Lo
    <3> QED BY <1>8, <3>1, <3>2, <3>3
  <2> QED BY <2>1, <2>2
<1>15. Agrees(x)'
  BY <1>13, <1>14 DEF Agrees, Lo
<1>16. VictimUnused(x)' /\ PageMissing(x)' /\ FreesOwn(x)' /\ Transfers(x)'
  BY <1>1 DEF VictimUnused, PageMissing, Serving, FreesOwn, Transfers
<1>17. TlbCurrent'
  <2>1. \A y \in Asid : Alive(y)' => Alive(y)
    BY <1>1, <1>6 DEF Alive
  <2> QED BY <1>2, <1>4, <2>1, TlbUpdated
<1> QED BY <1>12, <1>15, <1>16, <1>17 DEF Paged

-----------------------------------------------------------------------------
(* The inductive invariant of the pager, and what follows from it.          *)

Plain == AccessPoints \cup {"tlb", "pick"}

Inv ==
  /\ pc \in [Asid -> AccessPoints \cup HandlerPoints]
  /\ DataOK
  /\ SwapInv(Plain)
  /\ PagingInv

LEMMA PlainOK == PlainPoints(Plain)
BY Points DEF Plain, PlainPoints, BatonPoints, FaultPoints, Ending, EndPoints

\* crossed is never reset.
LEMMA CrossedStays ==
  ASSUME DataOK, NEW x \in Asid, PagerStep(x), ~crossed'
  PROVE  ~crossed
BY DEF PagerStep, Access, support_tlb, clean_after_uproc, tlb_refill_handler, LoadFrom,
       StoreTo, Fault, Terminate, GainSwapPool, TakeBaton, pick_page, EvictPage, WriteVictim, ReadPage,
       FlashError, InstallPage, ReleaseSwapPool, ReturnFromFault, CleanRelease, CleanTest,
       CleanFrame, poolVars

LEMMA PagingStep ==
  ASSUME NEW P, pc \in [Asid -> P], DataOK, NEW N, SwapInv(N), PagingInv,
         NEW x \in Asid, PagerStep(x)
  PROVE  PagingInv'
<1> SUFFICES ASSUME ~crossed' PROVE TlbCurrent' /\ \A y \in Asid : Paged(y)'
  BY Unfold
<1>1. TlbCurrent /\ \A y \in Asid : Paged(y)
  BY CrossedStays, Unfold
<1>2. CASE Access(x)
  BY <1>1, <1>2, AccessPaged
<1>3. CASE \/ Terminate(x) \/ GainSwapPool(x) \/ TakeBaton(x) \/ pick_page(x) \/ FlashError(x)
           \/ ReleaseSwapPool(x) \/ ReturnFromFault(x) \/ CleanRelease(x) \/ CleanTest(x)
  BY <1>1, <1>3, HandlerPaged
<1>4. CASE WriteVictim(x) \/ ReadPage(x)
  BY <1>1, <1>4, TransferPaged
<1>5. CASE EvictPage(x)
  BY <1>1, <1>5, EvictPaged
<1>6. CASE InstallPage(x)
  BY <1>1, <1>6, InstallPaged
<1>7. CASE CleanFrame(x)
  BY <1>1, <1>7, CleanPaged
<1> QED BY <1>2, <1>3, <1>4, <1>5, <1>6, <1>7 DEF PagerStep, support_tlb, clean_after_uproc

\* No page is in memory at first.
LEMMA InitPaging ==
  ASSUME init_pager, \A x \in Asid : pc[x] \in {"user", "none"}
  PROVE  PagingInv
<1>1. \A x \in Asid : Paged(x)
  <2> TAKE x \in Asid
  <2>1. x # -1
    BY PoolAssumption DEF Asid
  <2>2. \A i \in Frame : swap_pool_table[i].asid = -1
    BY DEF init_pager
  <2>3. \A k \in Index : ~pte[x][k].valid
    BY DEF init_pager, init_page_table, Lo
  <2>4. Agrees(x)
    BY <2>1, <2>2, <2>3 DEF Agrees
  <2> QED BY <2>4
          DEF Paged, VictimUnused, PageMissing, Serving, FreesOwn, Transfers
<1>2. TlbCurrent
  BY DEF init_pager, TlbCurrent
<1> QED BY <1>1, <1>2, Unfold

LEMMA InitInv ==
  ASSUME Init
  PROVE  Inv
<1>1. \A x \in Asid : pc[x] = "user"
  BY DEF Init
<1>2. pc \in [Asid -> AccessPoints \cup HandlerPoints]
  BY Points DEF Init
<1>3. DataOK
  BY <1>1, InitData DEF Init
<1>4. SwapInv(Plain)
  <2>1. \A x \in Asid : pc[x] \in Plain \ {"pick"}
    BY <1>1, Points DEF Plain
  <2> QED BY <2>1, PlainOK, InitSwap DEF Init, init_pager
<1>5. PagingInv
  BY <1>1, InitPaging DEF Init
<1> QED BY <1>2, <1>3, <1>4, <1>5 DEF Inv

LEMMA StepInv ==
  ASSUME Inv, [Next]_pagerVars
  PROVE  Inv'
<1>1. ASSUME NEW x \in Asid, PagerStep(x) PROVE Inv'
  <2>1. back \in [Asid -> AccessPoints]
    BY DEF Inv, DataOK
  <2>2. pc' \in [Asid -> AccessPoints \cup HandlerPoints]
    BY <1>1, PointStep DEF Inv
  <2>3. DataOK'
    BY <1>1, DataStep DEF Inv
  <2>4. SwapInv(Plain)'
    BY <1>1, <2>1, PlainOK, SwapStep DEF Inv
  <2>5. PagingInv'
    BY <1>1, PagingStep DEF Inv
  <2> QED BY <2>2, <2>3, <2>4, <2>5 DEF Inv
<1>2. CASE UNCHANGED pagerVars
  <2>1. UNCHANGED << pte, tlb, swap_pool_table, swap_pool_batons, fifo, frame, flash, reg,
                     pc, back, vpn, victim, machine, crossed, value, queue >>
    BY <1>2 DEF pagerVars, poolVars, dataVars, pageVars, localVars, sVars
  <2>2. DataOK'
    BY <2>1 DEF Inv, DataOK
  <2>3. SwapInv(Plain)'
    BY <2>1 DEF Inv, SwapInv, SemsOK, SwapPoolMutex, Holds, list_contains, Plain
  <2>4. PagingInv'
    BY <2>1 DEF Inv, PagingInv, Agrees, TlbAgrees, Alive, Evicting, Lo,
                VictimUnused, PageMissing, FreesOwn, Transfers, vpn_to_index
  <2> QED BY <2>1, <2>2, <2>3, <2>4 DEF Inv
<1> QED BY <1>1, <1>2 DEF Next, Stopped, PagerStep

\* The inductive invariant holds in every reachable state of the pager
\* (pager.c), whatever the numbers of U-procs, pages, frames and TLB entries.
THEOREM PagerInvariance == Spec => []Inv
BY InitInv, StepInv, PTL DEF Spec

\* Type correctness of the pager's data: every index that pager.c computes, from
\* a page number, from pick_page or in mark_frames_as_unoccupied, stays in its
\* table.
THEOREM PagerTypeCorrect == Spec => []TypeOK
<1>1. Inv => TypeOK
  <2> SUFFICES ASSUME Inv PROVE TypeOK
    OBVIOUS
  <2>1. Entries \subseteq [frame : Frame \cup {NULL}, valid : BOOLEAN, dirty : BOOLEAN]
    BY DEF Entries
  <2>2. pte \in [Asid -> [Index -> [frame : Frame \cup {NULL}, valid : BOOLEAN,
                                    dirty : BOOLEAN]]]
    BY <2>1 DEF Inv, DataOK
  <2>3. tlb \subseteq [asid : Asid, vpn : Vpns,
                       lo : [frame : Frame \cup {NULL}, valid : BOOLEAN,
                             dirty : BOOLEAN]]
    BY <2>1 DEF Inv, DataOK
  <2> QED BY <2>2, <2>3 DEF Inv, DataOK, TypeOK
<1> QED BY <1>1, PagerInvariance, PTL

\* The mutex of the swap pool (support_tlb, release_sem_swap_pool_table): one
\* U-proc has the table at a time, a flash error or the end of that U-proc
\* gives it back exactly once, and nobody ever waits in VERHOGEN.
THEOREM SwapPoolExclusive == Spec => []SwapPoolMutex
<1>1. Inv => SwapPoolMutex
  BY DEF Inv, SwapInv
<1> QED BY <1>1, PagerInvariance, PTL

LEMMA TablesFromInv ==
  ASSUME PagingInv
  PROVE  PageTablesAgree
<1> SUFFICES ASSUME ~crossed, NEW x \in Asid, Alive(x)
             PROVE  /\ \A k \in Index : pte[x][k].valid =>
                         swap_pool_table[pte[x][k].frame] = [asid |-> x, page |-> k]
                    /\ \A i \in Frame : swap_pool_table[i].asid = x /\ ~Evicting(x, i) =>
                         LET k == swap_pool_table[i].page
                         IN  /\ pte[x][k].frame = i /\ pte[x][k].valid
                             /\ k >= TextPages => pte[x][k].dirty
  BY DEF PageTablesAgree
<1>1. Agrees(x)
  BY DEF PagingInv
<1>2. ASSUME NEW i \in Frame, swap_pool_table[i].asid = x, ~Evicting(x, i)
      PROVE  LET k == swap_pool_table[i].page
             IN  /\ pte[x][k].frame = i /\ pte[x][k].valid
                 /\ k >= TextPages => pte[x][k].dirty
  <2>1. PICK lo : lo = pte[x][swap_pool_table[i].page]
    OBVIOUS
  <2>2. lo = Lo(i, TRUE, TRUE)
    BY <1>1, <1>2, <2>1 DEF Agrees
  <2>3. lo.frame = i /\ lo.valid /\ lo.dirty
    BY <2>2 DEF Lo
  <2> QED BY <2>1, <2>3
<1> QED BY <1>1, <1>2 DEF Agrees

\* Page tables and swap pool table describe each other (update_page_table,
\* mark_page_not_valid, mark_frames_as_unoccupied).
THEOREM TablesConsistent == Spec => []PageTablesAgree
<1>1. Inv => PageTablesAgree
  BY TablesFromInv DEF Inv
<1> QED BY <1>1, PagerInvariance, PTL

\* No translation in the TLB is stale (update_tlb, tlb_refill_handler).
THEOREM TlbConsistent == Spec => []TlbAgrees
<1>1. Inv => TlbAgrees
  BY DEF Inv, PagingInv
<1> QED BY <1>1, PagerInvariance, PTL

-----------------------------------------------------------------------------
(* The pager implements Memory.                                             *)

\* The contents of the pages of a U-proc that a step of another one leaves alone.
LEMMA OthersContents ==
  ASSUME DataOK, NEW y \in Asid,
         pc'[y] = pc[y], pte'[y] = pte[y], victim'[y] = victim[y], flash'[y] = flash[y],
         NEW g, \A i \in Frame \ {g} : frame'[i] = frame[i],
         Alive(y) => /\ \A k \in Index : pte[y][k].valid => pte[y][k].frame # g
                     /\ pc[y] = "write" => victim[y].frame # g
  PROVE  \A k \in Index : Contents(y, k)' = Contents(y, k)
<1> TAKE k \in Index
<1>1. pte[y][k].valid => pte[y][k].frame \in Frame
  BY DEF DataOK, Entries
<1>2. pc[y] = "write" => victim[y].frame \in Frame
  BY DEF DataOK
<1> QED BY <1>1, <1>2 DEF Contents, Alive

\* Steps that leave frames and backing stores alone change at most the contents
\* of the U-proc that takes them.
LEMMA QuietContents ==
  ASSUME DataOK, NEW x \in Asid, UNCHANGED << frame, flash >>,
         \A y \in Asid \ {x} : pc'[y] = pc[y] /\ pte'[y] = pte[y] /\ victim'[y] = victim[y],
         \A k \in Index : Contents(x, k)' = Contents(x, k)
  PROVE  \A y \in Asid, k \in Index : Contents(y, k)' = Contents(y, k)
<1>1. \A y \in Asid \ {x}, k \in Index : Contents(y, k)' = Contents(y, k)
  BY DEF Contents
<1> QED BY <1>1

\* A step that keeps contents, registers and the U-procs that have ended is a
\* stutter of Memory.
LEMMA MemoryStutter ==
  ASSUME \A y \in Asid, k \in Index : Contents(y, k)' = Contents(y, k),
         reg' = reg, \A y \in Asid : pc'[y] \in EndPoints <=> pc[y] \in EndPoints
  PROVE  UNCHANGED Virtual!memVars
<1>1. [x \in Asid |-> [k \in Index |-> Contents(x, k)]]' =
        [x \in Asid |-> [k \in Index |-> Contents(x, k)]]
  OBVIOUS
<1>2. {x \in Asid : pc[x] \in EndPoints}' = {x \in Asid : pc[x] \in EndPoints}
  BY DEF Ending, EndPoints
<1> QED BY <1>1, <1>2 DEF Virtual!memVars

MemStep == [Virtual!NextMemory]_(Virtual!memVars)

\* What is in the frame of a valid page of x is nobody else's.
LEMMA FrameOfOne ==
  ASSUME DataOK, \A y \in Asid : Paged(y), NEW f \in Frame, NEW x \in Asid,
         swap_pool_table[f].asid \in {-1, x}, NEW y \in Asid \ {x}, Alive(y)
  PROVE  \A k \in Index : pte[y][k].valid => pte[y][k].frame # f
<1> SUFFICES ASSUME NEW k \in Index, pte[y][k].valid, pte[y][k].frame = f PROVE FALSE
  OBVIOUS
<1>1. swap_pool_table[f] = [asid |-> y, page |-> k]
  BY DEF Paged, Agrees
<1>2. swap_pool_table[f].asid = y /\ y # -1
  BY <1>1, PoolAssumption DEF Asid
<1> QED BY <1>2

\* Loads and stores of U-procs are those of Memory.
LEMMA AccessMemory ==
  ASSUME NEW P, pc \in [Asid -> P], DataOK, TlbCurrent, \A y \in Asid : Paged(y),
         NEW x \in Asid, Access(x)
  PROVE  MemStep
<1>1. AccessPoints \cap (FaultPoints \cup EndPoints) = {}
  BY Points
<1>2. ASSUME NEW v \in Vpns, tlb_refill_handler(x, v) PROVE MemStep
  <2>1. UNCHANGED << pc, pte, victim, frame, flash, reg >>
    BY <1>2 DEF tlb_refill_handler, localVars, dataVars
  <2>2. \A y \in Asid, k \in Index : Contents(y, k)' = Contents(y, k)
    BY <2>1 DEF Contents
  <2> QED BY <2>1, <2>2, MemoryStutter DEF MemStep
<1>3. ASSUME NEW v \in Vpns, LoadFrom(x, v) PROVE MemStep
  <2> DEFINE k == vpn_to_index(v)
  <2>1. UNCHANGED << pc, pte, victim, frame, flash >>
    BY <1>3 DEF LoadFrom, localVars, pageVars
  <2>2. pc[x] \in AccessPoints /\ Cached(x, v) /\ TlbLo(x, v).valid
        /\ reg' = [reg EXCEPT ![x] = frame[TlbLo(x, v).frame]]
    BY <1>3 DEF LoadFrom, At, Allows
  <2>3. k \in Index /\ TlbLo(x, v) = pte[x][k]
    BY <2>2, AccessEntry
  <2> HIDE DEF k
  <2>4. pc[x] \notin EndPoints /\ Contents(x, k) = frame[TlbLo(x, v).frame]
    BY <1>1, <2>2, <2>3 DEF Contents
  <2>5. \A y \in Asid, j \in Index : Contents(y, j)' = Contents(y, j)
    BY <2>1 DEF Contents
  <2>6. [y \in Asid |-> [j \in Index |-> Contents(y, j)]]' =
          [y \in Asid |-> [j \in Index |-> Contents(y, j)]]
    BY <2>5
  <2>7. [y \in Asid |-> [j \in Index |-> Contents(y, j)]][x][k] = Contents(x, k)
    BY <2>3
  <2>8. Virtual!Load(x, k)
    BY <2>1, <2>2, <2>4, <2>6, <2>7 DEF Virtual!Load
  <2> QED BY <2>3, <2>8 DEF MemStep, Virtual!NextMemory
<1>4. ASSUME NEW v \in Vpns, NEW data \in Values, StoreTo(x, v, data) PROVE MemStep
  <2> DEFINE k == vpn_to_index(v)
             f == TlbLo(x, v).frame
  <2>1. UNCHANGED << pc, pte, victim, flash, reg >>
    BY <1>4 DEF StoreTo, localVars, pageVars
  <2>2. /\ pc[x] \in AccessPoints /\ Cached(x, v) /\ TlbLo(x, v).valid
        /\ frame' = [frame EXCEPT ![f] = data]
    BY <1>4 DEF StoreTo, At, Allows
  <2>3. /\ k \in Index /\ TlbLo(x, v) = pte[x][k] /\ f \in Frame
        /\ swap_pool_table[f] = [asid |-> x, page |-> k]
    BY <2>2, AccessEntry
  <2> HIDE DEF k, f
  <2>4. /\ pc[x] \notin EndPoints /\ pc[x] \notin {"write", "read", "install"} /\ x # -1
    BY <1>1, <2>2, PoolAssumption DEF FaultPoints, Asid
  <2>5. swap_pool_table[f].asid = x /\ swap_pool_table[f].page = k
    BY <2>3
  <2>6. \A i \in Frame \ {f} : frame'[i] = frame[i]
    BY <2>2 DEF DataOK
  <2>7. \A y \in Asid \ {x}, j \in Index : Contents(y, j)' = Contents(y, j)
    <3> TAKE y \in Asid \ {x}
    <3>1. Alive(y) => \A j \in Index : pte[y][j].valid => pte[y][j].frame # f
      BY <2>3, <2>5, FrameOfOne
    <3>2. pc[y] = "write" => victim[y].frame # f
      BY <2>4, <2>5 DEF Paged, VictimUnused
    <3> QED BY <2>1, <2>6, <3>1, <3>2, OthersContents
  <2>8. Contents(x, k)' = data
    BY <2>1, <2>2, <2>3, <2>4 DEF Contents, DataOK, f
  <2>9. \A j \in Index \ {k} : Contents(x, j)' = Contents(x, j)
    <3> TAKE j \in Index \ {k}
    <3>1. pte[x][j].valid => swap_pool_table[pte[x][j].frame] = [asid |-> x, page |-> j]
      BY <2>4 DEF Paged, Agrees, Alive
    <3>2. pte[x][j].valid => pte[x][j].frame # f /\ pte[x][j].frame \in Frame
      BY <2>5, <3>1 DEF DataOK, Entries
    <3> QED BY <2>1, <2>4, <2>6, <3>2 DEF Contents
  <2>10. [y \in Asid |-> [j \in Index |-> Contents(y, j)]]' =
           [[y \in Asid |-> [j \in Index |-> Contents(y, j)]] EXCEPT ![x][k] = data]
    BY <2>3, <2>7, <2>8, <2>9
  <2>11. Virtual!Store(x, k, data)
    BY <2>1, <2>4, <2>10 DEF Virtual!Store
  <2> QED BY <2>3, <2>11 DEF MemStep, Virtual!NextMemory
<1>5. ASSUME NEW v \in Vpns, NEW op, Fault(x, v, op) PROVE MemStep
  <2>1. /\ UNCHANGED << pte, victim, frame, flash, reg >> /\ pc[x] \in AccessPoints
        /\ pc'[x] = "tlb" /\ \A y \in Asid \ {x} : pc'[y] = pc[y]
    BY <1>5 DEF Fault, At, Goto, dataVars, pageVars
  <2>2. pc[x] \notin EndPoints \cup {"write"} /\ pc'[x] \notin EndPoints \cup {"write"}
    BY <1>1, <2>1 DEF Ending, EndPoints, FaultPoints
  <2>3. \A k \in Index : Contents(x, k)' = Contents(x, k)
    BY <2>1, <2>2 DEF Contents
  <2>4. \A y \in Asid, k \in Index : Contents(y, k)' = Contents(y, k)
    BY <2>1, <2>3, QuietContents
  <2> QED BY <2>1, <2>2, <2>4, MemoryStutter DEF MemStep
<1> QED BY <1>2, <1>3, <1>4, <1>5 DEF Access

\* The end of a U-proc, asked for or after a flash error.
LEMMA EndMemory ==
  ASSUME NEW P, pc \in [Asid -> P], DataOK, NEW x \in Asid, Terminate(x) \/ FlashError(x)
  PROVE  MemStep
<1>1. /\ UNCHANGED << pte, victim, frame, flash, reg >>
      /\ pc'[x] = "terminate" /\ \A y \in Asid \ {x} : pc'[y] = pc[y]
  BY DEF Terminate, FlashError, Goto, localVars, dataVars, pageVars
<1>2. \A y \in Asid \ {x}, k \in Index : Contents(y, k)' = Contents(y, k)
  BY <1>1 DEF Contents
<1>3. \A k \in Index : Contents(x, k)' = Blank
  BY <1>1 DEF Contents, Ending, EndPoints
<1>4. [y \in Asid |-> [k \in Index |-> Contents(y, k)]]' =
        [[y \in Asid |-> [k \in Index |-> Contents(y, k)]] EXCEPT ![x] = [k \in Index |-> Blank]]
  BY <1>2, <1>3
<1>5. {y \in Asid : pc[y] \in EndPoints}' = {y \in Asid : pc[y] \in EndPoints} \cup {x}
  BY <1>1 DEF Ending, EndPoints
<1>6. Virtual!End(x)
  BY <1>1, <1>4, <1>5 DEF Virtual!End
<1> QED BY <1>6 DEF MemStep, Virtual!NextMemory

\* The steps of the handlers that move no page.
LEMMA HandlerMemory ==
  ASSUME NEW P, pc \in [Asid -> P], DataOK, NEW x \in Asid,
         \/ GainSwapPool(x) \/ TakeBaton(x) \/ pick_page(x) \/ ReleaseSwapPool(x) \/ ReturnFromFault(x)
         \/ clean_after_uproc(x)
  PROVE  MemStep
<1>1. UNCHANGED << pte, frame, flash, reg >>
  BY DEF GainSwapPool, TakeBaton, pick_page, ReleaseSwapPool, ReturnFromFault, clean_after_uproc,
         CleanRelease, CleanTest, CleanFrame, dataVars, pageVars
<1>2. \A y \in Asid \ {x} : pc'[y] = pc[y]
  BY DEF GainSwapPool, TakeBaton, pick_page, ReleaseSwapPool, ReturnFromFault, clean_after_uproc,
         CleanRelease, CleanTest, CleanFrame, Goto
<1>3. \A y \in Asid \ {x} : victim'[y] = victim[y]
  BY DEF GainSwapPool, TakeBaton, pick_page, ReleaseSwapPool, ReturnFromFault, clean_after_uproc,
         CleanRelease, CleanTest, CleanFrame, localVars, DataOK
<1>4. /\ pc'[x] \in EndPoints <=> pc[x] \in EndPoints
      /\ pc[x] # "write" /\ pc'[x] # "write"
  <2>1. CASE clean_after_uproc(x)
    BY <2>1 DEF clean_after_uproc, CleanRelease, CleanTest, CleanFrame, At, Goto, Ending, EndPoints
  <2>2. CASE GainSwapPool(x) \/ TakeBaton(x) \/ pick_page(x) \/ ReleaseSwapPool(x)
    BY <2>2 DEF GainSwapPool, TakeBaton, pick_page, ReleaseSwapPool, At, Goto, Ending, EndPoints
  <2>3. CASE ReturnFromFault(x)
    <3>1. pc[x] = "baton" /\ pc'[x] \in AccessPoints
      BY <2>3 DEF ReturnFromFault, At, Goto, DataOK
    <3> QED BY <3>1, Points DEF Ending, EndPoints, FaultPoints
  <2> QED BY <2>1, <2>2, <2>3
<1>5. \A k \in Index : Contents(x, k)' = Contents(x, k)
  BY <1>1, <1>4 DEF Contents
<1>6. \A y \in Asid, k \in Index : Contents(y, k)' = Contents(y, k)
  BY <1>1, <1>2, <1>3, <1>5, QuietContents
<1> QED BY <1>1, <1>2, <1>4, <1>6, MemoryStutter DEF MemStep

\* The page that leaves its frame keeps its contents.
LEMMA EvictMemory ==
  ASSUME NEW P, pc \in [Asid -> P], DataOK, \A y \in Asid : Paged(y),
         NEW x \in Asid, EvictPage(x), ~crossed'
  PROVE  MemStep
<1> DEFINE f == victim[x].frame
           swap == swap_pool_table[f]
<1>1. /\ UNCHANGED << swap_pool_table, frame, flash, reg >> /\ pc[x] = "evict"
      /\ swap.asid \in {-1, x}
  BY DEF EvictPage, At, dataVars
<1>2. /\ victim'[x].frame = f /\ victim'[x].asid = swap.asid /\ victim'[x].page = swap.page
      /\ \A y \in Asid \ {x} : victim'[y] = victim[y]
  <2>1. f \in Frame
    BY <1>1 DEF DataOK
  <2> QED BY <2>1, EvictVictim
<1>3. f \in Frame /\ swap.page \in Index /\ x # -1
  BY <1>1, PoolAssumption DEF DataOK, Asid
<1>4. \A y \in Asid \ {x} : pc'[y] = pc[y] /\ pte'[y] = pte[y]
  BY DEF EvictPage, Goto, mark_page_not_valid, pageVars, DataOK
<1> HIDE DEF f, swap
<1>5. pc'[x] \notin EndPoints /\ pc[x] \notin EndPoints
  BY <1>1 DEF EvictPage, Goto, Ending, EndPoints
<1>6. CASE swap.asid = -1
  <2>1. UNCHANGED pte /\ pc'[x] = "read"
    BY <1>6 DEF EvictPage, pageVars, Goto, swap, f
  <2>2. \A k \in Index : Contents(x, k)' = Contents(x, k)
    BY <1>1, <1>5, <2>1 DEF Contents
  <2>3. \A y \in Asid, k \in Index : Contents(y, k)' = Contents(y, k)
    BY <1>1, <1>2, <1>4, <2>2, QuietContents
  <2> QED BY <1>1, <1>4, <1>5, <2>3, MemoryStutter DEF MemStep
<1>7. CASE swap.asid = x
  <2>1. /\ pte' = [pte EXCEPT ![x][swap.page] = ZeroLo]
        /\ pc'[x] = "write"
    BY <1>3, <1>7 DEF EvictPage, mark_page_not_valid, Goto, swap, f
  <2>2. /\ pte'[x][swap.page] = ZeroLo /\ ~ZeroLo.valid
        /\ \A k \in Index \ {swap.page} : pte'[x][k] = pte[x][k]
    BY <1>3, <2>1 DEF DataOK, ZeroLo, Lo
  <2>3. pte[x][swap.page] = Lo(f, TRUE, TRUE)
    <3>1. Alive(x) /\ ~Evicting(x, f)
      BY <1>1, <1>5 DEF Alive, Evicting
    <3> QED BY <1>3, <1>7, <3>1 DEF Paged, Agrees, swap
  <2>4. PICK j \in Index : j = swap.page
    BY <1>3
  <2>5. Contents(x, j)' = Contents(x, j)
    <3>1. Contents(x, j) = frame[f]
      BY <1>5, <2>3, <2>4 DEF Contents, Lo
    <3>2. Contents(x, j)' = frame'[victim'[x].frame]
      BY <1>2, <1>5, <1>7, <2>1, <2>2, <2>4 DEF Contents
    <3> QED BY <1>1, <1>2, <3>1, <3>2
  <2>6. \A k \in Index : Contents(x, k)' = Contents(x, k)
    <3> TAKE k \in Index
    <3>1. CASE k = j
      BY <2>5, <3>1
    <3>2. CASE k # j
      <4>1. pte'[x][k] = pte[x][k] /\ victim'[x].page # k
        BY <1>2, <2>2, <2>4, <3>2
      <4> QED BY <1>1, <1>5, <4>1 DEF Contents
    <3> QED BY <3>1, <3>2
  <2>7. \A y \in Asid, k \in Index : Contents(y, k)' = Contents(y, k)
    BY <1>1, <1>2, <1>4, <2>6, QuietContents
  <2> QED BY <1>1, <1>4, <1>5, <2>7, MemoryStutter DEF MemStep
<1> QED BY <1>1, <1>6, <1>7

\* The page reaches the backing store.
LEMMA WriteMemory ==
  ASSUME NEW P, pc \in [Asid -> P], DataOK, \A y \in Asid : Paged(y),
         NEW x \in Asid, WriteVictim(x)
  PROVE  MemStep
<1> DEFINE f == victim[x].frame
           j == victim[x].page
<1>1. /\ UNCHANGED << pte, victim, frame, reg >> /\ pc[x] = "write" /\ pc'[x] = "read"
      /\ \A y \in Asid \ {x} : pc'[y] = pc[y]
  BY DEF WriteVictim, At, Goto, pageVars, localVars
<1>2. victim[x].asid = x /\ j \in Index
  BY <1>1 DEF Paged, Transfers, DataOK
<1>3. flash' = [flash EXCEPT ![x][j] = frame[f]]
  BY <1>2 DEF WriteVictim, write_flash
<1> HIDE DEF f, j
<1>4. /\ flash'[x][j] = frame[f] /\ \A k \in Index \ {j} : flash'[x][k] = flash[x][k]
      /\ \A y \in Asid \ {x} : flash'[y] = flash[y]
  BY <1>2, <1>3 DEF DataOK
<1>5. \A y \in Asid \ {x}, k \in Index : Contents(y, k)' = Contents(y, k)
  BY <1>1, <1>4 DEF Contents
<1>6. \A k \in Index : Contents(x, k)' = Contents(x, k)
  BY <1>1, <1>2, <1>4 DEF Contents, Ending, EndPoints, f, j
<1>7. \A y \in Asid : pc'[y] \in EndPoints <=> pc[y] \in EndPoints
  BY <1>1 DEF Ending, EndPoints
<1> QED BY <1>1, <1>5, <1>6, <1>7, MemoryStutter DEF MemStep

\* The frame that is filled is in use by nobody.
LEMMA ReadMemory ==
  ASSUME NEW P, pc \in [Asid -> P], DataOK, NEW N, SwapInv(N), \A y \in Asid : Paged(y),
         NEW x \in Asid, ReadPage(x)
  PROVE  MemStep
<1> DEFINE f == victim[x].frame
<1>1. /\ UNCHANGED << pte, victim, flash, reg >> /\ pc[x] = "read" /\ pc'[x] = "install"
      /\ \A y \in Asid \ {x} : pc'[y] = pc[y]
  BY DEF ReadPage, At, Goto, pageVars, localVars
<1>2. /\ f \in Frame /\ swap_pool_table[f].asid \in {-1, x}
      /\ \A k \in Index : pte[x][k].valid => pte[x][k].frame # f
  BY <1>1 DEF DataOK, Paged, VictimUnused
<1>3. \A i \in Frame \ {f} : frame'[i] = frame[i]
  BY DEF ReadPage, read_flash, DataOK
<1> HIDE DEF f
<1>4. \A y \in Asid \ {x} : pc[y] # "write"
  BY <1>1, Alone DEF Inside
<1>5. \A y \in Asid \ {x}, k \in Index : Contents(y, k)' = Contents(y, k)
  <2> TAKE y \in Asid \ {x}
  <2>1. Alive(y) => \A k \in Index : pte[y][k].valid => pte[y][k].frame # f
    BY <1>2, FrameOfOne
  <2> QED BY <1>1, <1>3, <1>4, <2>1, OthersContents
<1>6. \A k \in Index : Contents(x, k)' = Contents(x, k)
  <2> TAKE k \in Index
  <2>1. pte[x][k].valid => pte[x][k].frame \in Frame
    BY DEF DataOK, Entries
  <2> QED BY <1>1, <1>2, <1>3, <2>1 DEF Contents, Ending, EndPoints
<1>7. \A y \in Asid : pc'[y] \in EndPoints <=> pc[y] \in EndPoints
  BY <1>1 DEF Ending, EndPoints
<1> QED BY <1>1, <1>5, <1>6, <1>7, MemoryStutter DEF MemStep

\* The page is where the backing store said.
LEMMA InstallMemory ==
  ASSUME NEW P, pc \in [Asid -> P], DataOK, \A y \in Asid : Paged(y),
         NEW x \in Asid, InstallPage(x)
  PROVE  MemStep
<1> DEFINE f == victim[x].frame
           j == vpn_to_index(vpn[x])
<1>1. /\ UNCHANGED << frame, flash, reg >> /\ pc[x] = "install" /\ pc'[x] = "release"
      /\ \A y \in Asid \ {x} : pc'[y] = pc[y] /\ victim'[y] = victim[y]
  BY DEF InstallPage, At, Goto, dataVars, DataOK
<1>2. pte' = [pte EXCEPT ![x][j] = Lo(f, TRUE, TRUE)]
  BY DEF InstallPage, update_page_table
<1>3. ~pte[x][j].valid /\ frame[f] = flash[x][j]
  BY <1>1 DEF Paged, PageMissing, Serving, Transfers
<1>4. j \in Index
  <2>1. vpn[x] \in Vpns \cup {KUSEG_VPN} /\ entryhi_to_vpn_ok(vpn[x])
    BY DEF DataOK
  <2>2. Vpns \subseteq Int
    BY PagerConstants
  <2> QED BY <2>1, <2>2, PageNumbers
<1> HIDE DEF f, j
<1>5. /\ pte'[x][j] = Lo(f, TRUE, TRUE) /\ \A k \in Index \ {j} : pte'[x][k] = pte[x][k]
      /\ \A y \in Asid \ {x} : pte'[y] = pte[y]
  BY <1>2, <1>4 DEF DataOK
<1>6. \A k \in Index : Contents(x, k)' = Contents(x, k)
  <2> TAKE k \in Index
  <2>1. CASE k = j
    BY <1>1, <1>3, <1>5, <2>1 DEF Contents, Ending, EndPoints, Lo
  <2>2. CASE k # j
    BY <1>1, <1>5, <2>2 DEF Contents, Ending, EndPoints
  <2> QED BY <2>1, <2>2
<1>7. \A y \in Asid, k \in Index : Contents(y, k)' = Contents(y, k)
  BY <1>1, <1>5, <1>6, QuietContents
<1>8. \A y \in Asid : pc'[y] \in EndPoints <=> pc[y] \in EndPoints
  BY <1>1 DEF Ending, EndPoints
<1> QED BY <1>1, <1>7, <1>8, MemoryStutter DEF MemStep

LEMMA InitMemoryOK ==
  ASSUME init_pager, \A x \in Asid : pc[x] \in {"user", "none"}
  PROVE  Virtual!InitMemory
<1>1. \A x \in Asid : pc[x] \notin EndPoints /\ pc[x] # "write"
  BY DEF Ending, EndPoints
<1>2. \A x \in Asid, k \in Index : Contents(x, k) = Blank
  BY <1>1 DEF Contents, init_pager, init_page_table, Lo
<1> QED BY <1>1, <1>2 DEF Virtual!InitMemory, init_pager

\* Every step of the pager is a step of Memory, or none.
LEMMA PagerMemory ==
  ASSUME NEW P, pc \in [Asid -> P], DataOK, NEW N, SwapInv(N), PagingInv,
         NEW x \in Asid, PagerStep(x), ~crossed'
  PROVE  MemStep
<1>1. TlbCurrent /\ \A y \in Asid : Paged(y)
  BY CrossedStays, Unfold
<1>2. CASE Access(x)
  BY <1>1, <1>2, AccessMemory
<1>3. CASE Terminate(x) \/ FlashError(x)
  BY <1>3, EndMemory
<1>4. CASE \/ GainSwapPool(x) \/ TakeBaton(x) \/ pick_page(x) \/ ReleaseSwapPool(x) \/ ReturnFromFault(x)
           \/ clean_after_uproc(x)
  BY <1>4, HandlerMemory
<1>5. CASE EvictPage(x)
  BY <1>1, <1>5, EvictMemory
<1>6. CASE WriteVictim(x)
  BY <1>1, <1>6, WriteMemory
<1>7. CASE ReadPage(x)
  BY <1>1, <1>7, ReadMemory
<1>8. CASE InstallPage(x)
  BY <1>1, <1>8, InstallMemory
<1> QED BY <1>2, <1>3, <1>4, <1>5, <1>6, <1>7, <1>8 DEF PagerStep, support_tlb

\* Demand paging is invisible: as long as no U-proc evicts a page of another
\* one, every step of support_tlb, tlb_refill_handler and clean_after_uproc is
\* a step of Memory, where a load returns what was stored last, or no step of it.
THEOREM PagingInvisible == Spec => ImplementsMemory
<1>1. ASSUME Inv, NEW x \in Asid, PagerStep(x), ~crossed' PROVE MemStep
  BY <1>1, PagerMemory DEF Inv
<1>2. ASSUME UNCHANGED pagerVars PROVE MemStep
  <2>1. UNCHANGED << pc, pte, victim, frame, flash, reg >>
    BY <1>2 DEF pagerVars, dataVars, pageVars, localVars
  <2>2. \A y \in Asid, k \in Index : Contents(y, k)' = Contents(y, k)
    BY <2>1 DEF Contents
  <2> QED BY <2>1, <2>2, MemoryStutter DEF MemStep
<1>3. Inv /\ [Next]_pagerVars => [~crossed' => Virtual!NextMemory]_(Virtual!memVars)
  BY <1>1, <1>2 DEF Next, Stopped, PagerStep, MemStep
<1>4. Init => Virtual!InitMemory
  BY InitMemoryOK DEF Init
<1> QED BY <1>3, <1>4, PagerInvariance, PTL DEF Spec, ImplementsMemory

=============================================================================
