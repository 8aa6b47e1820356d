--------------------------- MODULE NucleusProofs ---------------------------
(***************************************************************************)
(* Proofs about the nucleus, for every size of the tables, every set of     *)
(* devices and every choice of the other constants: IInv of NucleusLemmas   *)
(* holds initially and every action keeps it; on top of it, the refinement  *)
(* of BinarySemaphore, pids, the family of the first process, device I/O,   *)
(* the panics that cannot happen, and two action properties.                *)
(***************************************************************************)
EXTENDS NucleusLemmas

-----------------------------------------------------------------------------
(* Taking IInv apart and putting it together again.                         *)

\* The types of what is neither in the lists nor in the tree.
RestType ==
  /\ p_support \in [Proc -> Supports \cup {NULL}]
  /\ p_status \in [Proc -> SUBSET StatusBits]
  /\ sem \in [Sem -> {0, 1}]
  /\ dev \in [Units -> {"ready", "busy", "ok", "err"}]
  /\ it_timer \in {"loaded", "running", "expired"}
  /\ plt \in {"running", "expired"}
  /\ status \subseteq StatusBits
  /\ recycle_count \in 0..(RECYCLE_MOD - 1)
  /\ active_process \in Proc \cup {NULL}
  /\ yield_process \in Proc \cup {NULL}
  /\ mode \in Modes
  /\ ctrl \in Controls
  /\ orphan \subseteq Units
  /\ idle \subseteq Units

\* IInv by parts.
LEMMA Parts ==
  ASSUME IInv
  PROVE  /\ ListType /\ ListInv /\ TreeType /\ ProcessTree /\ RestType
         /\ ControlInv /\ KillInv /\ KillLinks /\ DeviceInv /\ CountInv
  BY DEF IInv, TypeOK, ListType, TreeType, RestType, KillInv, KillLinks

\* The bound of process_count follows from the length of the free list.
LEMMA Assemble ==
  ASSUME ListType', ListInv', TreeType', ProcessTree', RestType',
         ControlInv', KillInv', DeviceInv', CountInv'
  PROVE  IInv'
<1>1. pcb_free' \in Seq(Proc) /\ IsInjective(pcb_free')
  BY DEF ListType, ListInv, ListsInjective
<1>2. Len(pcb_free') \in 0..MAX_PROC
  BY <1>1, ListBound
<1>3. process_count' \in 0..MAX_PROC
  BY <1>2, ProcFacts DEF CountInv
<1>4. TypeOK'
  BY <1>3 DEF TypeOK, ListType, TreeType, RestType
<1> QED
  BY <1>4 DEF IInv

\* A handler that leaves the process tree alone.
LEMMA Handler ==
  ASSUME IInv, mode \notin {"kill", "die"}, mode' \notin {"kill", "die"},
         UNCHANGED << pcb_free, p_pid, p_parent, p_child, kstack, process_count >>,
         ListType', ListInv', RestType', ControlInv', DeviceInv'
  PROVE  IInv'
<1>1. kstack = << >>
  BY Parts DEF KillInv
<1>2. TreeType' /\ ProcessTree'
  BY Parts, TreeUnchanged
<1>3. CountInv'
  BY Parts DEF CountInv
<1>4. Len(<< >>) = 0
  OBVIOUS
<1>5. KillInv'
  BY <1>1, <1>4 DEF KillInv
<1> QED
  BY <1>2, <1>3, <1>5, Assemble

\* The panics are none of the modes in which the kernel goes on.
LEMMA PanicModes ==
  \A m \in Panics : m \notin {"run", "wait", "halt", "sched", "kill", "die", "tick"}
  BY DEF Panics

\* Where a handler leaves the pcb that was running.
LEMMA ControlAfter ==
  ASSUME ControlInv, mode \in {"run", "tick", "wait"},
         active_process \in Proc \cup {NULL},
         active_process' = active_process, yield_process' = yield_process,
         \/ NullSame /\ mode' = "sched" /\ ctrl' # "BLOCK"
         \/ NullMinus(active_process) /\ active_process # NULL
            /\ mode' = "sched" /\ ctrl' = "BLOCK"
         \/ (NullSame \/ NullMinus(active_process)) /\ mode' \in Panics
         \/ NullSame /\ mode' = "tick"
  PROVE  ControlInv'
<1>1. yield_process = NULL /\ (active_process # NULL => list_null(active_process))
  BY DEF ControlInv
<1>2. \A q \in Proc : list_null(q) => q = active_process
  BY DEF ControlInv
<1>3. \A q \in Proc : list_null(q)' => list_null(q)
  BY DEF NullSame, NullMinus
<1> QED
  BY <1>1, <1>2, <1>3, PanicModes DEF ControlInv, NullSame, NullMinus

\* What holds while a process runs.
LEMMA Running ==
  ASSUME IInv, mode = "run"
  PROVE  /\ active_process \in Proc /\ list_null(active_process) /\ ~IsFree(active_process)
         /\ yield_process = NULL /\ kstack = << >> /\ mode # "No active process"
<1>1. active_process \in Proc /\ list_null(active_process) /\ yield_process = NULL
  BY Parts DEF ControlInv, RestType
<1>2. kstack = << >>
  BY Parts DEF KillInv
<1> QED
  BY <1>1, <1>2 DEF list_null

\* Device semaphores, their queues and the devices are left alone.
LEMMA DevicesKept ==
  ASSUME DeviceInv, mode # "No active process",
         \A u \in Units : sem'[u] = sem[u] /\ s_procq'[u] = s_procq[u] /\ dev'[u] = dev[u]
  PROVE  DeviceInv'
  BY DEF DeviceInv

\* OthersSame(s) for a semaphore that is no device's.
LEMMA NoDevice ==
  ASSUME DeviceInv, mode # "No active process", dev' = dev,
         NEW s \in UserSems \cup {TIMER_SEM}, OthersSame(s)
  PROVE  DeviceInv'
<1>1. \A u \in Units : u \in Sem \ {s}
  BY SemFacts
<1> QED
  BY <1>1, DevicesKept DEF OthersSame

-----------------------------------------------------------------------------
(* System calls.                                                            *)

\* System calls that only return (GETTIME, GETSUPPORTPTR, GETPROCESSID,
\* CREATEPROCESS with no free pcb) or panic at once.
LEMMA OnlyControlKeeps ==
  ASSUME IInv, mode = "run", OnlyControl,
         \/ mode' = "sched" /\ ctrl' \in {"RESCHEDULE", "PRESERVE"}
         \/ mode' \in Panics /\ ctrl' = ctrl
  PROVE  IInv'
<1>1. UNCHANGED << otherVars, semVars, p_status, hwVars >>
  BY DEF OnlyControl
<1>2. ListType' /\ ListInv' /\ NullSame
  BY <1>1, Parts, ListsUnchanged DEF otherVars, semVars
<1>3. mode' \in Modes /\ ctrl' \in Controls /\ mode' \notin {"kill", "die"}
  BY Parts, PanicModes DEF RestType, Modes, Controls, KernelModes
<1>4. RestType'
  BY <1>1, <1>3, Parts DEF RestType, otherVars, semVars, hwVars
<1>5. ControlInv'
  BY <1>1, <1>2, Parts, Running, ControlAfter DEF otherVars
<1>6. DeviceInv'
  BY <1>1, Parts, Running, DevicesKept DEF otherVars, semVars, aslVars, hwVars
<1> QED
  BY <1>1, <1>2, <1>3, <1>4, <1>5, <1>6, Handler DEF otherVars

\* PASSEREN and CLOCKWAIT.
LEMMA PasserenKeeps ==
  ASSUME IInv, mode = "run", NEW s \in UserSems \cup {TIMER_SEM},
         P(s, active_process), UNCHANGED << otherVars, p_status, hwVars >>
  PROVE  IInv'
<1>1. /\ ListType /\ ListInv /\ RestType /\ DeviceInv /\ ControlInv
      /\ active_process \in Proc /\ list_null(active_process)
      /\ mode \notin {"kill", "die", "No active process"}
  BY Parts, Running
<1>2. s \in Sem /\ sem \in [Sem -> {0, 1}] /\ pcb_free' = pcb_free /\ p_prio' = p_prio
  BY <1>1, SemFacts DEF RestType, otherVars
<1>3. /\ ListType' /\ ListInv' /\ sem' \in [Sem -> {0, 1}] /\ OthersSame(s)
      /\ \/ mode' = "sched" /\ ctrl' = "BLOCK" /\ NullMinus(active_process)
         \/ mode' = "sched" /\ ctrl' = "RESCHEDULE" /\ NullSame
         \/ mode' = "PASSEREN failed" /\ ctrl' = ctrl /\ NullSame
  BY <1>1, <1>2, PEffect
<1>4. "PASSEREN failed" \in Panics
  BY DEF Panics
<1>5. mode' \in Modes /\ ctrl' \in Controls /\ mode' \notin {"kill", "die"}
  BY <1>1, <1>3, <1>4 DEF RestType, Modes, KernelModes, Controls
<1>6. RestType'
  BY <1>1, <1>3, <1>5 DEF RestType, otherVars, hwVars
<1>7. ControlInv'
  BY <1>1, <1>3, <1>4, ControlAfter, ProcFacts DEF otherVars
<1>8. DeviceInv'
  BY <1>1, <1>3, NoDevice DEF hwVars
<1> QED
  BY <1>1, <1>3, <1>5, <1>6, <1>7, <1>8, Handler DEF otherVars

\* VERHOGEN.
LEMMA VerhogenKeeps ==
  ASSUME IInv, mode = "run", NEW s \in UserSems, syscall_verhogen(s)
  PROVE  IInv'
<1>1. /\ ListType /\ ListInv /\ RestType /\ DeviceInv /\ ControlInv
      /\ active_process \in Proc /\ list_null(active_process)
      /\ mode \notin {"kill", "die", "No active process"}
  BY Parts, Running
<1>2. s \in Sem /\ sem \in [Sem -> {0, 1}] /\ pcb_free' = pcb_free /\ p_prio' = p_prio
      /\ UNCHANGED << otherVars, p_status, hwVars >>
  BY <1>1, SemFacts DEF RestType, otherVars, syscall_verhogen
<1>3. /\ ListType' /\ ListInv' /\ sem' \in [Sem -> {0, 1}] /\ OthersSame(s)
      /\ ~(V_blocks(s) /\ ~V_fails(s)) => NullSame
      /\ V_blocks(s) /\ ~V_fails(s) => NullMinus(active_process)
  BY <1>1, <1>2, VEffect DEF syscall_verhogen
<1>4. /\ V_fails(s) => V_blocks(s)
      /\ V_blocks(s) <=> V_result(s) = NULL
  <2>1. p_sem_add[active_process] = NULL /\ active_process # NULL
    BY <1>1, BlockedFacts, ListParts, ProcFacts DEF list_null
  <2>2. V_blocks(s) <=> sem[s] = 1
    BY <2>1 DEF V_blocks
  <2> QED
    BY <2>1, <2>2 DEF V_fails, V_result
<1>5. \/ NullSame /\ mode' = "sched" /\ ctrl' = "RESCHEDULE"
      \/ NullMinus(active_process) /\ mode' = "sched" /\ ctrl' = "BLOCK"
      \/ NullSame /\ mode' = "VERHOGEN failed" /\ ctrl' = ctrl
  BY <1>3, <1>4 DEF syscall_verhogen, scheduler_panic, Return
<1>6. "VERHOGEN failed" \in Panics
  BY DEF Panics
<1>7. mode' \in Modes /\ ctrl' \in Controls /\ mode' \notin {"kill", "die"}
  BY <1>1, <1>5, <1>6 DEF RestType, Modes, KernelModes, Controls
<1>8. RestType'
  BY <1>1, <1>2, <1>3, <1>7 DEF RestType, otherVars, hwVars
<1>9. ControlInv'
  BY <1>1, <1>2, <1>5, <1>6, ControlAfter, ProcFacts DEF otherVars
<1>10. DeviceInv'
  BY <1>1, <1>2, <1>3, NoDevice DEF hwVars
<1> QED
  BY <1>1, <1>2, <1>3, <1>7, <1>8, <1>9, <1>10, Handler DEF otherVars

\* YIELD: the caller is in no list until schedule enqueues it again.
LEMMA YieldKeeps ==
  ASSUME IInv, mode = "run", syscall_yield
  PROVE  IInv'
<1>1. /\ ListType /\ ListInv /\ RestType /\ DeviceInv /\ ControlInv
      /\ active_process \in Proc /\ list_null(active_process)
      /\ mode \notin {"kill", "die", "No active process"}
  BY Parts, Running
<1>2. /\ yield_process' = active_process /\ mode' = "sched" /\ ctrl' = "BLOCK"
      /\ UNCHANGED << pcb_free, p_pid, p_prio, p_parent, p_child, p_support,
                      process_count, recycle_count, active_process, kstack, orphan,
                      idle, semVars, p_status, hwVars >>
  BY DEF syscall_yield, Return
<1>3. ListType' /\ ListInv' /\ NullSame
  BY <1>1, <1>2, ListsUnchanged DEF semVars
<1>4. RestType'
  BY <1>1, <1>2 DEF RestType, semVars, hwVars, Modes, KernelModes, Controls
<1>5. ControlInv'
  BY <1>1, <1>2, <1>3 DEF ControlInv, NullSame
<1>6. DeviceInv'
  BY <1>1, <1>2, DevicesKept DEF semVars, aslVars, hwVars
<1> QED
  BY <1>1, <1>2, <1>3, <1>4, <1>5, <1>6, Handler

\* The start of kill_progeny, on the caller or on a process found by its pid.
LEMMA StartKillKeeps ==
  ASSUME IInv, mode = "run", NEW p \in Proc, ~IsFree(p), NEW m, NEW c,
         StartKill(p, m, c),
         \/ m = "die" /\ c = "BLOCK" /\ p = active_process
         \/ m = "kill" /\ c = "BLOCK" /\ p = active_process
         \/ m = "kill" /\ c = "RESCHEDULE"
  PROVE  IInv'
<1>1. /\ ListType /\ ListInv /\ RestType /\ DeviceInv /\ ControlInv /\ TreeType /\ ProcessTree
      /\ CountInv /\ active_process \in Proc /\ list_null(active_process)
      /\ kstack = << >> /\ yield_process = NULL /\ mode # "No active process"
  BY Parts, Running
<1>2. /\ mode' = m /\ ctrl' = c /\ kstack' = << p >>
      /\ UNCHANGED << pcb_free, p_pid, p_prio, p_parent, p_child, p_support,
                      process_count, recycle_count, active_process, yield_process,
                      orphan, idle, semVars, p_status, hwVars >>
  BY DEF StartKill
<1>3. ListType' /\ ListInv' /\ NullSame
  BY <1>1, <1>2, ListsUnchanged DEF semVars
<1>4. TreeType' /\ ProcessTree'
  BY <1>1, <1>2, TreeStartKill
<1>5. RestType'
  BY <1>1, <1>2 DEF RestType, semVars, hwVars, Modes, KernelModes, Controls
<1>6. ControlInv'
  BY <1>1, <1>2, <1>3, ProcFacts DEF ControlInv, NullSame
<1>7. DeviceInv'
  BY <1>1, <1>2, DevicesKept DEF semVars, aslVars, hwVars
<1>8. KillInv'
  <2>1. Len(<< p >>) = 1 /\ << p >>[1] = p /\ << p >> # << >>
    OBVIOUS
  <2> QED
    BY <1>2, <2>1 DEF KillInv
<1>9. CountInv'
  BY <1>1, <1>2 DEF CountInv
<1> QED
  BY <1>3, <1>4, <1>5, <1>6, <1>7, <1>8, <1>9, Assemble

\* pass_up_or_die (puod.c).
LEMMA PassUpOrDieKeeps ==
  ASSUME IInv, mode = "run", pass_up_or_die
  PROVE  IInv'
<1>1. /\ ListType /\ ListInv /\ RestType /\ DeviceInv /\ ControlInv
      /\ active_process \in Proc /\ ~IsFree(active_process)
      /\ mode \notin {"kill", "die", "No active process"}
  BY Parts, Running
<1>2. CASE p_support[active_process] = NULL
  <2>1. StartKill(active_process, "die", "BLOCK")
    BY <1>2 DEF pass_up_or_die
  <2> QED
    BY <1>1, <2>1, StartKillKeeps
<1>3. CASE p_support[active_process] # NULL
  <2>1. PICK st \in Statuses :
          /\ status' = st
          /\ p_status' = [p_status EXCEPT ![active_process] = st]
    BY <1>3 DEF pass_up_or_die
  <2>2. UNCHANGED << otherVars, semVars, dev, it_timer, plt, mode, ctrl >>
    BY <1>3 DEF pass_up_or_die
  <2>3. ListType' /\ ListInv' /\ NullSame
    BY <1>1, <2>2, ListsUnchanged DEF otherVars, semVars
  <2>4. st \subseteq StatusBits
    BY StatusesAssumption
  <2>5. RestType'
    BY <1>1, <2>1, <2>2, <2>4 DEF RestType, otherVars, semVars
  <2>6. ControlInv'
    BY <1>1, <2>2, <2>3 DEF ControlInv, NullSame, otherVars
  <2>7. DeviceInv'
    BY <1>1, <2>2, DevicesKept DEF semVars, aslVars
  <2> QED
    BY <1>1, <2>2, <2>3, <2>5, <2>6, <2>7, Handler DEF otherVars
<1> QED
  BY <1>2, <1>3

\* A process that find_process returns is live.
LEMMA FoundIsLive ==
  ASSUME IInv, NEW pid \in Pid, pid # 0, find_process(pid) # NULL
  PROVE  find_process(pid) \in Proc /\ ~IsFree(find_process(pid))
<1> DEFINE i == mask_pid_id(pid)
<1>1. i < MAX_PROC /\ p_pid[i] = pid /\ find_process(pid) = i
  BY DEF find_process
<1>2. pid - 1 \in Nat /\ PID_SLOTS \in Nat \ {0}
  BY PidAssumption, ProcFacts DEF Pid
<1>3. (pid - 1) % PID_SLOTS \in Nat
  BY <1>2
<1>4. i \in Proc
  BY <1>1, <1>3, ProcFacts DEF mask_pid_id, Proc
<1> HIDE DEF i
<1>5. ~IsFree(i)
  BY <1>1, <1>4, Parts, TreeParts DEF NULL_PID
<1> QED
  BY <1>1, <1>4, <1>5

\* TERMPROCESS.
LEMMA TerminateKeeps ==
  ASSUME IInv, mode = "run", NEW pid \in Pid, syscall_terminate_process(pid)
  PROVE  IInv'
<1>1. active_process \in Proc /\ ~IsFree(active_process)
  BY Running
<1>2. CASE pid = 0
  BY <1>1, <1>2, StartKillKeeps DEF syscall_terminate_process
<1>3. CASE pid # 0 /\ find_process(pid) # NULL
  <2>1. StartKill(find_process(pid), "kill", "RESCHEDULE")
    BY <1>3 DEF syscall_terminate_process
  <2>2. find_process(pid) \in Proc /\ ~IsFree(find_process(pid))
    BY <1>3, FoundIsLive
  <2> QED
    BY <2>1, <2>2, StartKillKeeps
<1>4. CASE pid # 0 /\ find_process(pid) = NULL
  BY <1>4, PassUpOrDieKeeps DEF syscall_terminate_process
<1> QED
  BY <1>2, <1>3, <1>4

\* CREATEPROCESS.
LEMMA CreateKeeps ==
  ASSUME IInv, mode = "run", NEW prio \in Prio, NEW st \in Statuses,
         NEW sup \in Supports \cup {NULL}, syscall_create_process(prio, st, sup)
  PROVE  IInv'
<1>1. /\ ListType /\ ListInv /\ RestType /\ DeviceInv /\ ControlInv /\ TreeType /\ ProcessTree
      /\ CountInv /\ active_process \in Proc /\ list_null(active_process)
      /\ ~IsFree(active_process) /\ kstack = << >> /\ mode \notin {"No active process"}
  BY Parts, Running
<1>2. CASE alloc_pcb = NULL
  BY <1>2, OnlyControlKeeps DEF syscall_create_process, Return
<1>3. CASE alloc_pcb # NULL
  <2> DEFINE c == alloc_pcb
  <2>1. /\ spawn_process(c, prio)
        /\ p_support' = [p_support EXCEPT ![c] = sup]
        /\ p_status' = [p_status EXCEPT ![c] = st]
        /\ insert_child(active_process, c)
        /\ mode' = "sched" /\ ctrl' = "PRESERVE"
        /\ UNCHANGED << semd_h, semd_free, s_procq, sem, softblock_count, hwVars,
                        active_process, yield_process, kstack, orphan, idle >>
    BY <1>3 DEF syscall_create_process, Return
  <2>2. /\ ListType' /\ ListInv'
        /\ c \in Proc /\ IsFree(c)
        /\ Len(pcb_free') = Len(pcb_free) - 1
        /\ \A q \in Proc : IsFree(q)' <=> IsFree(q) /\ q # c
        /\ NullSame
    BY <1>1, <1>3, <2>1, Spawned DEF NullSame
  <2>3. /\ p_pid' = [p_pid EXCEPT ![c] = make_pid(c, recycle_count)]
        /\ recycle_count' = (recycle_count + 1) % RECYCLE_MOD
        /\ process_count' = process_count + 1
    BY <2>1 DEF spawn_process
  <2> HIDE DEF c
  <2>4. make_pid(c, recycle_count) \in Pid \ {0}
    BY <1>1, <2>2, MakePid DEF RestType
  <2>5. pcb_free' \in Seq(Proc)
    BY <2>2 DEF ListType
  <2>6. TreeType' /\ ProcessTree'
    BY <1>1, <2>1, <2>2, <2>3, <2>4, <2>5, TreeCreate
  <2>7. recycle_count' \in 0..(RECYCLE_MOD - 1)
    BY <1>1, <2>3, PidAssumption DEF RestType
  <2>8. RestType'
    <3>1. st \subseteq StatusBits
      BY StatusesAssumption
    <3> QED
      BY <1>1, <2>1, <2>2, <2>7, <3>1 DEF RestType, hwVars, Modes, KernelModes, Controls
  <2>9. ControlInv'
    BY <1>1, <2>1, <2>2, ControlAfter
  <2>10. DeviceInv'
    BY <1>1, <2>1, DevicesKept DEF hwVars
  <2>11. CountInv'
    <3>1. Len(pcb_free) \in Nat
      BY <1>1 DEF ListType
    <3> QED
      BY <1>1, <2>2, <2>3, <3>1, ProcFacts DEF CountInv
  <2>12. KillInv'
    <3>1. Len(<< >>) = 0
      OBVIOUS
    <3> QED
      BY <1>1, <2>1, <3>1 DEF KillInv
  <2> QED
    BY <2>2, <2>6, <2>8, <2>9, <2>10, <2>11, <2>12, Assemble
<1> QED
  BY <1>2, <1>3

\* DOIO.
LEMMA DoIoKeeps ==
  ASSUME IInv, mode = "run", NEW d \in IoDevs, syscall_do_io(d)
  PROVE  IInv'
<1> DEFINE u == d.semaphore
<1>0. u \in Units /\ d.interrupt_line \in Lines /\ d.commands \subseteq {u}
  BY IoDevFacts
<1>1. /\ ListType /\ ListInv /\ RestType /\ DeviceInv /\ ControlInv
      /\ active_process \in Proc /\ list_null(active_process)
      /\ mode \notin {"kill", "die", "No active process"}
  BY Parts, Running
<1>2. CASE head_blocked(u) # NULL
  BY <1>2, PassUpOrDieKeeps DEF syscall_do_io
<1>3. CASE head_blocked(u) = NULL /\ sem[u] > 0
  <2>1. "Device semaphore > 0" \in Panics
    BY DEF Panics
  <2>2. ~(sem[u] <= 0)
    <3>1. sem[u] \in {0, 1}
      BY <1>0, <1>1, SemFacts DEF RestType
    <3> QED
      BY <1>3, <3>1
  <2>3. mode' = "Device semaphore > 0" /\ ctrl' = ctrl /\ OnlyControl
    BY <1>3, <2>2 DEF syscall_do_io, scheduler_panic
  <2> QED
    BY <2>1, <2>3, OnlyControlKeeps
<1>4. CASE head_blocked(u) = NULL /\ sem[u] <= 0
  <2>1. u \in Sem /\ sem \in [Sem -> {0, 1}] /\ sem[u] = 0
    BY <1>0, <1>1, <1>4, SemFacts DEF RestType
  <2>2. /\ P(u, active_process)
        /\ p_status' = [p_status EXCEPT ![active_process] =
                          @ \cup (IF p_prio[active_process] = 1 THEN {d.interrupt_line} ELSE Lines)]
        /\ StartOperation(d)
        /\ idle' = (idle \ {u}) \cup (IF dev'[u] = "ready" THEN {u} ELSE {})
        /\ UNCHANGED << pcb_free, p_pid, p_prio, p_parent, p_child, p_support,
                        process_count, recycle_count, active_process,
                        yield_process, kstack, orphan, it_timer, plt, status >>
    BY <1>4, <2>1 DEF syscall_do_io
  <2>3. pcb_free' = pcb_free /\ p_prio' = p_prio
    BY <2>2 
  <2>4. /\ ListType' /\ ListInv' /\ sem' \in [Sem -> {0, 1}] /\ OthersSame(u)
        /\ \/ mode' = "sched" /\ ctrl' = "BLOCK" /\ NullMinus(active_process)
           \/ mode' = "sched" /\ ctrl' = "RESCHEDULE" /\ NullSame
           \/ mode' = "PASSEREN failed" /\ ctrl' = ctrl /\ NullSame
        /\ sem'[u] = 0
    BY <1>1, <2>1, <2>2, <2>3, PEffect
  <2>5. "PASSEREN failed" \in Panics
    BY DEF Panics
  <2>6. mode' \in Modes /\ ctrl' \in Controls /\ mode' \notin {"kill", "die"}
    BY <1>1, <2>4, <2>5 DEF RestType, Modes, KernelModes, Controls
  <2>7. p_status' \in [Proc -> SUBSET StatusBits]
    <3>1. {d.interrupt_line} \subseteq StatusBits /\ Lines \subseteq StatusBits
      BY <1>0 DEF StatusBits
    <3>2. p_status \in [Proc -> SUBSET StatusBits]
      BY <1>1 DEF RestType
    <3> HIDE DEF StatusBits, Lines
    <3> QED
      BY <1>1, <2>2, <3>1, <3>2
  <2>8. /\ dev' \in [Units -> {"ready", "busy", "ok", "err"}]
        /\ \A v \in Units \ {u} : dev'[v] = dev[v]
        /\ idle' \subseteq Units
    BY <1>0, <1>1, <2>2 DEF StartOperation, RestType
  <2>11. RestType'
    BY <1>1, <2>2, <2>4, <2>6, <2>7, <2>8 DEF RestType
  <2>9. ControlInv'
    BY <1>1, <2>2, <2>4, <2>5, ControlAfter, ProcFacts 
  <2>10. DeviceInv'
    <3>1. \A v \in Units \ {u} : sem'[v] = sem[v] /\ s_procq'[v] = s_procq[v] /\ dev'[v] = dev[v]
      BY <2>4, <2>8, SemFacts DEF OthersSame
    <3> QED
      BY <1>1, <2>4, <3>1 DEF DeviceInv
  <2> QED
    BY <1>1, <2>2, <2>4, <2>6, <2>9, <2>10, <2>11, Handler 
<1>5. sem[u] > 0 \/ sem[u] <= 0
  BY <1>0, <1>1, SemFacts DEF RestType
<1> QED
  BY <1>2, <1>3, <1>4, <1>5

\* Every system call, and every trap.
LEMMA SystemCallKeeps ==
  ASSUME IInv, SystemCall \/ Trap
  PROVE  IInv'
<1>1. mode = "run"
  BY DEF SystemCall, Trap
<1>2. CASE pass_up_or_die
  BY <1>1, <1>2, PassUpOrDieKeeps
<1>3. ASSUME NEW prio \in Prio, NEW st \in Statuses, NEW sup \in Supports \cup {NULL},
             syscall_create_process(prio, st, sup)
      PROVE  IInv'
  BY <1>1, <1>3, CreateKeeps
<1>4. ASSUME NEW pid \in Pid, syscall_terminate_process(pid)
      PROVE  IInv'
  BY <1>1, <1>4, TerminateKeeps
<1>5. ASSUME NEW s \in UserSems, syscall_passeren(s)
      PROVE  IInv'
  BY <1>1, <1>5, PasserenKeeps DEF syscall_passeren
<1>6. ASSUME NEW s \in UserSems, syscall_verhogen(s)
      PROVE  IInv'
  BY <1>1, <1>6, VerhogenKeeps
<1>7. ASSUME NEW d \in IoDevs, syscall_do_io(d)
      PROVE  IInv'
  BY <1>1, <1>7, DoIoKeeps
<1>8. CASE syscall_do_io_bad_address
  <2>1. "Semaphore not found" \in Panics
    BY DEF Panics
  <2> QED
    BY <1>1, <1>8, <2>1, OnlyControlKeeps DEF syscall_do_io_bad_address, scheduler_panic
<1>9. CASE syscall_get_cpu_time \/ syscall_get_support_data \/ syscall_get_process_id
  BY <1>1, <1>9, OnlyControlKeeps
     DEF syscall_get_cpu_time, syscall_get_support_data, syscall_get_process_id, Return
<1>10. CASE syscall_wait_for_clock
  BY <1>1, <1>10, PasserenKeeps DEF syscall_wait_for_clock
<1>11. CASE syscall_yield
  BY <1>1, <1>11, YieldKeeps
<1> QED
  BY <1>2, <1>3, <1>4, <1>5, <1>6, <1>7, <1>8, <1>9, <1>10, <1>11
     DEF SystemCall, Trap, syscall_handler

-----------------------------------------------------------------------------
(* Interrupts.                                                              *)

\* The processor local timer.
LEMMA LocalTimerKeeps ==
  ASSUME IInv, mode \in {"run", "wait"}, interrupt_local_timer
  PROVE  IInv'
<1>1. /\ ListType /\ ListInv /\ RestType /\ DeviceInv /\ ControlInv
  BY Parts
<1>2. /\ plt' = "running" /\ mode' = "sched" /\ ctrl' = "RESCHEDULE"
      /\ UNCHANGED << otherVars, semVars, p_status, dev, it_timer, status >>
  BY DEF interrupt_local_timer, Return
<1>3. ListType' /\ ListInv' /\ NullSame
  BY <1>1, <1>2, ListsUnchanged DEF otherVars, semVars
<1>4. RestType'
  BY <1>1, <1>2 DEF RestType, otherVars, semVars, Modes, KernelModes, Controls
<1>5. ControlInv'
  BY <1>1, <1>2, <1>3, ControlAfter DEF otherVars, RestType
<1>6. DeviceInv'
  BY <1>1, <1>2, DevicesKept DEF semVars, aslVars
<1> QED
  BY <1>2, <1>3, <1>4, <1>5, <1>6, Handler DEF otherVars

\* The interval timer: its interrupt, and the loop that follows.
LEMMA IntervalTimerKeeps ==
  ASSUME IInv, mode \in {"run", "wait"}, interrupt_timer
  PROVE  IInv'
<1>1. /\ ListType /\ ListInv /\ RestType /\ DeviceInv /\ ControlInv
  BY Parts
<1>2. /\ it_timer' = "loaded" /\ mode' = "tick"
      /\ UNCHANGED << otherVars, semVars, p_status, dev, plt, status, ctrl >>
  BY DEF interrupt_timer
<1>3. ListType' /\ ListInv' /\ NullSame
  BY <1>1, <1>2, ListsUnchanged DEF otherVars, semVars
<1>4. RestType'
  BY <1>1, <1>2 DEF RestType, otherVars, semVars, Modes, KernelModes
<1>5. ControlInv'
  BY <1>1, <1>2, <1>3, ControlAfter DEF otherVars, RestType
<1>6. DeviceInv'
  BY <1>1, <1>2, DevicesKept DEF semVars, aslVars
<1> QED
  BY <1>2, <1>3, <1>4, <1>5, <1>6, Handler DEF otherVars

\* One round of the loop that serves the interval timer.
LEMMA TimerLoopKeeps ==
  ASSUME IInv, TimerLoop
  PROVE  IInv'
<1>1. /\ ListType /\ ListInv /\ RestType /\ DeviceInv /\ ControlInv
      /\ mode = "tick" /\ UNCHANGED << otherVars, p_status, hwVars >>
  BY Parts DEF TimerLoop
<1>2. /\ active_process \in Proc \cup {NULL}
      /\ active_process # NULL => list_null(active_process)
  BY <1>1 DEF RestType, ControlInv
<1>3. TIMER_SEM \in Sem /\ TIMER_SEM \in UserSems \cup {TIMER_SEM} /\ sem \in [Sem -> {0, 1}]
  BY <1>1, SemFacts DEF RestType
<1>4. CASE sem[TIMER_SEM] # 1
  <2>1. V(TIMER_SEM) /\ UNCHANGED << mode, ctrl >>
    BY <1>4 DEF TimerLoop
  <2>2. ~V_blocks(TIMER_SEM)
    BY <1>4 DEF V_blocks
  <2>3. pcb_free' = pcb_free /\ p_prio' = p_prio
    BY <1>1 DEF otherVars
  <2>4. ListType' /\ ListInv' /\ sem' \in [Sem -> {0, 1}] /\ OthersSame(TIMER_SEM) /\ NullSame
    BY <1>1, <1>2, <1>3, <2>1, <2>2, <2>3, VEffect
  <2>5. RestType'
    BY <1>1, <2>1, <2>4 DEF RestType, otherVars, hwVars
  <2>6. ControlInv'
    BY <1>1, <1>2, <2>1, <2>4, ControlAfter DEF otherVars
  <2>7. DeviceInv'
    BY <1>1, <1>3, <2>4, NoDevice DEF hwVars
  <2> QED
    BY <1>1, <2>1, <2>4, <2>5, <2>6, <2>7, Handler DEF otherVars
<1>5. CASE sem[TIMER_SEM] = 1
  <2>1. mode' = "sched" /\ ctrl' = "PRESERVE" /\ UNCHANGED semVars
    BY <1>5 DEF TimerLoop, Return
  <2>2. ListType' /\ ListInv' /\ NullSame
    BY <1>1, <2>1, ListsUnchanged DEF otherVars, semVars
  <2>3. RestType'
    BY <1>1, <2>1 DEF RestType, otherVars, semVars, hwVars, Modes, KernelModes, Controls
  <2>4. ControlInv'
    BY <1>1, <1>2, <2>1, <2>2, ControlAfter DEF otherVars
  <2>5. DeviceInv'
    BY <1>1, <2>1, DevicesKept DEF semVars, aslVars, hwVars
  <2> QED
    BY <1>1, <2>1, <2>2, <2>3, <2>4, <2>5, Handler DEF otherVars
<1> QED
  BY <1>4, <1>5

\* The two values of a semaphore.
LEMMA ZeroIsNotOne == 0 # 1
  OBVIOUS

\* The semaphore of a unit that has finished is 0, so V does not block on it.
LEMMA UnitIsZero ==
  ASSUME DeviceInv, mode # "No active process", NEW u \in Units, dev[u] \in {"ok", "err"}
  PROVE  sem[u] = 0 /\ ~V_blocks(u)
<1>1. sem[u] = 0
  BY DEF DeviceInv
<1>2. ~V_blocks(u)
  BY <1>1, ZeroIsNotOne, Zenon DEF V_blocks
<1> QED
  BY <1>1, <1>2

\* The interrupt of a unit that has finished: V on its semaphore, which never
\* blocks because the semaphore is 0, and the acknowledgement, unless there is
\* no process to give the status to.
LEMMA UnitKeeps ==
  ASSUME IInv, mode \in {"run", "wait"}, NEW u \in Units, dev[u] \in {"ok", "err"},
         V(u), UNCHANGED << otherVars, p_status, it_timer, plt, status >>,
         \/ /\ mode' = "sched" /\ ctrl' \in {"RESCHEDULE", "PRESERVE"}
            /\ Acknowledge(u)
         \/ /\ mode' = "No active process" /\ ctrl' = ctrl
            /\ dev' = dev
  PROVE  IInv'
<1>1. /\ ListType /\ ListInv /\ RestType /\ DeviceInv /\ ControlInv
      /\ mode \notin {"kill", "die", "No active process"}
  BY Parts
<1>2. /\ active_process \in Proc \cup {NULL}
      /\ active_process # NULL => list_null(active_process)
  BY <1>1 DEF RestType, ControlInv
<1>3. u \in Sem /\ sem \in [Sem -> {0, 1}] /\ pcb_free' = pcb_free /\ p_prio' = p_prio
  BY <1>1, SemFacts DEF RestType, otherVars
<1>4. sem[u] = 0 /\ ~V_blocks(u)
  BY <1>1, UnitIsZero
<1>5. /\ ListType' /\ ListInv' /\ sem' \in [Sem -> {0, 1}] /\ OthersSame(u) /\ NullSame
      /\ sem'[u] # 0 => s_procq'[u] = << >>
  BY <1>1, <1>2, <1>3, <1>4, VEffect
<1>6. "No active process" \in Panics
  BY DEF Panics
<1>7. mode' \in Modes /\ ctrl' \in Controls /\ mode' \notin {"kill", "die"}
  BY <1>1, <1>6 DEF RestType, Modes, KernelModes, Controls
<1>8. dev' \in [Units -> {"ready", "busy", "ok", "err"}]
  BY <1>1 DEF Acknowledge, RestType
<1>9. RestType'
  BY <1>1, <1>5, <1>7, <1>8 DEF RestType, otherVars
<1>10. ControlInv'
  BY <1>1, <1>2, <1>5, <1>6, ControlAfter DEF otherVars
<1>11. DeviceInv'
  <2>1. \A v \in Units \ {u} : sem'[v] = sem[v] /\ s_procq'[v] = s_procq[v] /\ dev'[v] = dev[v]
    BY <1>1, <1>5, SemFacts DEF OthersSame, RestType, Acknowledge
  <2>2. dev'[u] = "ready" \/ mode' = "No active process"
    BY <1>1 DEF RestType, Acknowledge
  <2> QED
    BY <1>1, <1>5, <2>1, <2>2 DEF DeviceInv
<1> QED
  BY <1>1, <1>5, <1>7, <1>9, <1>10, <1>11, Handler DEF otherVars

\* Disks, flash devices, network cards and printers.
LEMMA GenericKeeps ==
  ASSUME IInv, mode \in {"run", "wait"},
         Pending \cap IL_DISK..IL_PRINTER # {}, interrupt_generic
  PROVE  IInv'
<1> DEFINE il == Min(Pending \cap IL_DISK..IL_PRINTER)
           u == get_semaphore(il, find_device_number(CDEV_BITMAP(il)), FALSE)
<1>1. u \in Units /\ dev[u] \in {"ok", "err"}
  BY GenericUnit
<1>2. /\ V(u)
      /\ IF V_fails(u) THEN scheduler_panic("VERHOGEN failed") /\ UNCHANGED dev
         ELSE IF V_result(u) = active_process /\ V_result(u) = NULL
         THEN scheduler_panic("No active process") /\ UNCHANGED dev
         ELSE IF V_result(u) = NULL
         THEN scheduler_panic("NULL dereference") /\ UNCHANGED dev
         ELSE /\ Return(IF V_result(u) = active_process THEN "RESCHEDULE" ELSE "PRESERVE")
              /\ Acknowledge(u)
      /\ UNCHANGED << otherVars, p_status, it_timer, plt, status >>
  BY DEF interrupt_generic
<1> HIDE DEF u
<1>3. sem[u] = 0
  BY <1>1, Parts DEF DeviceInv
<1>4. ~V_fails(u) /\ (V_result(u) = NULL => active_process = NULL)
  BY <1>3 DEF V_fails, V_blocks, V_result
<1>5. \/ mode' = "sched" /\ ctrl' \in {"RESCHEDULE", "PRESERVE"} /\ Acknowledge(u)
      \/ mode' = "No active process" /\ ctrl' = ctrl /\ dev' = dev
  BY <1>2, <1>4 DEF scheduler_panic, Return
<1> QED
  BY <1>1, <1>2, <1>5, UnitKeeps

\* Terminals: a half that ended well is served, or the kernel panics.
LEMMA TerminalKeeps ==
  ASSUME IInv, mode \in {"run", "wait"}, interrupt_terminal
  PROVE  IInv'
<1> DEFINE u == TerminalUnit(find_device_number(CDEV_BITMAP(IL_TERMINAL)))
<1>1. u # NULL => u \in Units /\ dev[u] = "ok"
  BY DEF TerminalUnit
<1>2. /\ \/ /\ u = NULL
            /\ scheduler_panic("Unexpected interrupt")
            /\ UNCHANGED << semVars, dev >>
         \/ /\ u # NULL
            /\ V(u)
            /\ IF V_fails(u)
               THEN scheduler_panic("VERHOGEN failed") /\ UNCHANGED dev
               ELSE IF V_result(u) \in {NULL, active_process}
                       /\ active_process = NULL
               THEN scheduler_panic("No active process") /\ UNCHANGED dev
               ELSE /\ Return(IF V_result(u) \in {NULL, active_process}
                              THEN "RESCHEDULE" ELSE "PRESERVE")
                    /\ Acknowledge(u)
      /\ UNCHANGED << otherVars, p_status, it_timer, plt, status >>
  BY DEF interrupt_terminal
<1> HIDE DEF u
<1>3. CASE u = NULL
  <2>1. mode' = "Unexpected interrupt" /\ ctrl' = ctrl /\ UNCHANGED << semVars, dev >>
        /\ UNCHANGED << otherVars, p_status, it_timer, plt, status >>
    BY <1>2, <1>3 DEF scheduler_panic
  <2>2. /\ ListType /\ ListInv /\ RestType /\ DeviceInv /\ ControlInv
    BY Parts
  <2>3. ListType' /\ ListInv' /\ NullSame
    BY <2>1, <2>2, ListsUnchanged DEF otherVars, semVars
  <2>4. "Unexpected interrupt" \in Panics
    BY DEF Panics
  <2>5. RestType'
    BY <2>1, <2>2, <2>4 DEF RestType, otherVars, semVars, Modes
  <2>6. ControlInv'
    BY <2>1, <2>2, <2>3, <2>4, ControlAfter DEF otherVars, RestType
  <2>7. DeviceInv'
    BY <2>1, <2>2, DevicesKept DEF semVars, aslVars
  <2> QED
    BY <2>1, <2>3, <2>5, <2>6, <2>7, Handler DEF otherVars
<1>4. CASE u # NULL
  <2>1. sem[u] = 0
    BY <1>1, <1>4, Parts DEF DeviceInv
  <2>2. ~V_fails(u)
    BY <2>1 DEF V_fails, V_blocks
  <2>3. \/ mode' = "sched" /\ ctrl' \in {"RESCHEDULE", "PRESERVE"} /\ Acknowledge(u)
        \/ mode' = "No active process" /\ ctrl' = ctrl /\ dev' = dev
    BY <1>2, <1>4, <2>2 DEF scheduler_panic, Return
  <2> QED
    BY <1>1, <1>2, <1>4, <2>3, UnitKeeps
<1> QED
  BY <1>3, <1>4

\* Every interrupt.
LEMMA InterruptKeeps ==
  ASSUME IInv, Interrupt
  PROVE  IInv'
<1>1. mode \in {"run", "wait"} /\ interrupt_handler
  BY DEF Interrupt
<1> QED
  BY <1>1, LocalTimerKeeps, IntervalTimerKeeps, GenericKeeps, TerminalKeeps
     DEF interrupt_handler

-----------------------------------------------------------------------------
(* kill_progeny.                                                            *)

\* A round of its loop.
LEMMA KillChildKeeps ==
  ASSUME IInv, KillChild, sem' = sem
  PROVE  IInv'
<1>1. /\ ListType /\ ListInv /\ RestType /\ DeviceInv /\ ControlInv /\ CountInv
      /\ TreeType /\ ProcessTree /\ KillInv /\ KillLinks
      /\ mode \in {"kill", "die"}
  BY Parts DEF KillChild
<1>2. UNCHANGED << pcb_free, p_pid, p_prio, p_support, p_status, aslVars, hwVars,
                   ready_queue, process_count, softblock_count, recycle_count,
                   active_process, yield_process, mode, ctrl, orphan, idle >>
  BY DEF KillChild
<1>3. kstack # << >>
  BY <1>1 DEF KillInv
<1>4. /\ TreeType' /\ ProcessTree' /\ KillLinks'
      /\ kstack' # << >> /\ kstack'[Len(kstack')] = kstack[Len(kstack)]
  <2> DEFINE p == Head(kstack)
             c == Head(p_child[p])
  <2>1. p_child[p] # << >> /\ out_child(c) /\ kstack' = list_add(c, kstack)
    BY DEF KillChild, list_empty
  <2> HIDE DEF p, c
  <2>2. p = Head(kstack) /\ c = Head(p_child[p])
    BY DEF p, c
  <2> QED
    BY <1>1, <1>2, <1>3, <2>1, <2>2, TreeKillChild
<1>5. ListType' /\ ListInv' /\ NullSame
  BY <1>1, <1>2, ListsUnchanged
<1>6. RestType'
  BY <1>1, <1>2 DEF RestType, hwVars
<1>7. ControlInv'
  <2>1. IsFree(active_process)' <=> IsFree(active_process)
    BY <1>2 DEF IsFree
  <2>2. active_process \in Proc
    BY <1>1 DEF ControlInv, RestType
  <2> QED
    BY <1>1, <1>2, <1>5, <2>1, <2>2 DEF ControlInv, NullSame
<1>8. KillInv'
  BY <1>1, <1>2, <1>4 DEF KillInv, KillLinks
<1>9. DeviceInv'
  BY <1>1, <1>2, DevicesKept DEF aslVars, hwVars
<1>10. CountInv'
  BY <1>1, <1>2 DEF CountInv
<1> QED
  BY <1>4, <1>5, <1>6, <1>7, <1>8, <1>9, <1>10, Assemble

\* The head of the stack is a live pcb, and its parent lists it.
LEMMA VictimIsLinked ==
  ASSUME IInv, mode \in {"kill", "die"}, NEW p, p = Head(kstack)
  PROVE  /\ kstack # << >> /\ p \in Proc /\ ~IsFree(p)
         /\ ~(p_parent[p] # NULL /\ out_child_fails(p))
<1>1. TreeType /\ ProcessTree /\ kstack # << >>
  BY Parts DEF KillInv
<1>2. p \in Proc /\ p \in Range(kstack)
  BY <1>1, TakeHead DEF TreeType
<1>3. ~IsFree(p)
  BY <1>1, <1>2 DEF ProcessTree
<1>4. p_parent[p] # NULL => p_parent[p] \in Proc
  BY <1>1, <1>2 DEF TreeType
<1>5. p_parent[p] # NULL => list_contains(p, p_child[p_parent[p]])
  BY <1>1, <1>2, <1>4 DEF ProcessTree
<1> QED
  BY <1>1, <1>2, <1>3, <1>5 DEF out_child_fails

\* The end of an activation.
LEMMA KillProcessKeeps ==
  ASSUME IInv, kill_process, sem' = sem
  PROVE  IInv'
<1>1. /\ ListType /\ ListInv /\ RestType /\ DeviceInv /\ ControlInv /\ CountInv
      /\ TreeType /\ ProcessTree /\ KillInv /\ KillLinks
      /\ mode \in {"kill", "die"}
  BY Parts DEF kill_process
<1> DEFINE p == Head(kstack)
<1>2. /\ kstack # << >> /\ p \in Proc /\ ~IsFree(p)
      /\ ~(p_parent[p] # NULL /\ out_child_fails(p))
  BY <1>1, VictimIsLinked
<1>3. /\ p_child[p] = << >>
      /\ IF p_parent[p] # NULL THEN out_child(p) ELSE UNCHANGED << p_parent, p_child >>
      /\ process_count' = process_count - 1
      /\ UnlinkKilled(p) /\ free_pcb(p)
      /\ kstack' = Tail(kstack)
      /\ IF Len(kstack) = 1 THEN KillReturns(FALSE, p_pid'[active_process])
         ELSE UNCHANGED << mode, ctrl >>
      /\ UNCHANGED << p_prio, p_support, p_status, hwVars, recycle_count,
                      active_process, yield_process >>
  BY <1>2 DEF kill_process, list_empty
<1>4. p = Head(kstack)
  OBVIOUS
<1> HIDE DEF p
<1>5. /\ ListType' /\ ListInv'
      /\ pcb_free' = list_add(p, pcb_free)
      /\ p_pid' = [p_pid EXCEPT ![p] = NULL_PID]
      /\ \A q \in Proc : IsFree(q)' <=> IsFree(q) \/ q = p
      /\ \A q \in Proc : list_null(q)' <=> list_null(q) /\ q # p
      /\ \A r \in Sem : s_procq[r] = << >> => s_procq'[r] = << >>
  BY <1>1, <1>2, <1>3, Killed
<1>6. TreeType' /\ ProcessTree' /\ KillLinks'
  <2>1. pcb_free' \in Seq(Proc)
    BY <1>5 DEF ListType
  <2> QED
    BY <1>1, <1>2, <1>3, <1>4, <1>5, <2>1, TreeKilled
<1>7. CountInv'
  <2>1. pcb_free \in Seq(Proc)
    BY <1>1 DEF TreeType
  <2>2. Len(pcb_free) \in Nat /\ Len(pcb_free') = Len(pcb_free) + 1
    BY <1>2, <1>5, <2>1 DEF list_add
  <2> QED
    BY <1>1, <1>3, <2>2, ProcFacts DEF CountInv
<1>8. DeviceInv'
  <2>1. mode # "No active process" /\ dev' = dev
    BY <1>1, <1>3 DEF hwVars
  <2> QED
    BY <1>1, <1>5, <2>1, SemFacts DEF DeviceInv
<1>9. /\ Len(kstack) \in Nat \ {0} /\ kstack[1] = p
      /\ kstack' \in Seq(Proc) /\ Len(kstack') = Len(kstack) - 1
      /\ \A i \in 1..(Len(kstack) - 1) : kstack'[i] = kstack[i + 1]
  BY <1>1, <1>2, <1>3, <1>4, TakeHead DEF TreeType
<1>10. active_process \in Proc /\ active_process' = active_process
       /\ yield_process = NULL /\ yield_process' = NULL
  BY <1>1, <1>3 DEF ControlInv, RestType
<1>11. orphan' \subseteq Units /\ idle' \subseteq Units
  BY <1>1, <1>3 DEF UnlinkKilled, RestType
<1>12. CASE Len(kstack) = 1
  <2>1. kstack' = << >>
    BY <1>9, <1>12, EmptyList
  <2>2. /\ mode' = "sched"
        /\ ctrl' = IF mode = "die" \/ p_pid'[active_process] = NULL_PID THEN "BLOCK" ELSE ctrl
    BY <1>1, <1>3, <1>12 DEF KillReturns, Return
  <2>3. RestType'
    BY <1>1, <1>3, <1>11, <2>2 DEF RestType, hwVars, Modes, KernelModes, Controls
  <2>4. mode = "die" \/ ctrl = "BLOCK" => active_process = p
    BY <1>1, <1>9, <1>12 DEF KillInv
  <2>5. p_pid'[active_process] = NULL_PID <=> IsFree(active_process)'
    BY <1>6, <1>10 DEF ProcessTree
  <2>6. IsFree(active_process)' => ~list_null(active_process)'
    BY DEF list_null
  <2>7. ~IsFree(active_process)' => list_null(active_process)'
    BY <1>1, <1>5, <1>10 DEF ControlInv
  <2>8. ctrl' = "BLOCK" <=> IsFree(active_process)'
    BY <1>1, <1>5, <1>10, <2>2, <2>4, <2>5
  <2>9. \A q \in Proc : list_null(q)' => q = active_process'
    BY <1>1, <1>5, <1>10 DEF ControlInv
  <2>10. active_process' # NULL
    BY <1>10, ProcFacts
  <2>11. ControlInv'
    BY <1>10, <2>2, <2>6, <2>7, <2>8, <2>9, <2>10 DEF ControlInv
  <2>12. KillInv'
    BY <1>6, <2>1, <2>2 DEF KillInv, KillLinks
  <2> QED
    BY <1>5, <1>6, <1>7, <1>8, <2>3, <2>11, <2>12, Assemble
<1>13. CASE Len(kstack) # 1
  <2>1. mode' = mode /\ ctrl' = ctrl
    BY <1>3, <1>13
  <2>2. RestType'
    BY <1>1, <1>3, <1>11, <2>1 DEF RestType, hwVars
  <2>3. kstack' # << >> /\ kstack'[Len(kstack')] = kstack[Len(kstack)]
    BY <1>9, <1>13, EmptyList
  <2>4. KillInv'
    BY <1>1, <1>6, <1>10, <2>1, <2>3 DEF KillInv, KillLinks
  <2>5. ControlInv'
    BY <1>1, <1>5, <1>10, <2>1 DEF ControlInv
  <2> QED
    BY <1>5, <1>6, <1>7, <1>8, <2>2, <2>4, <2>5, Assemble
<1> QED
  BY <1>12, <1>13

-----------------------------------------------------------------------------
(* schedule.                                                                *)

\* q is in no list, if the ready queues are rq.
Out(rq, q) == ~IsFree(q) /\ ~IsBlocked(q) /\ ~InReady(rq, q)

\* The pcbs of P, and no others, are in no list.
OnlyOut(rq, P_) == \A q \in Proc : Out(rq, q) <=> q \in P_

\* What schedule leaves alone, however it ends.
SchedKeeps ==
  UNCHANGED << pcb_free, p_pid, p_prio, p_parent, p_child, p_support,
               aslVars, process_count, softblock_count, recycle_count,
               ctrl, kstack, orphan, idle, sem >>

\* A process is loaded that is in no list.
LEMMA DispatchKeeps ==
  ASSUME IInv, mode = "sched", SchedKeeps, NEW p \in Proc,
         ReadyOK(ready_queue'), OnlyOut(ready_queue', {p}),
         active_process' = p, yield_process' = NULL, scheduler_takeover(p)
  PROVE  IInv'
<1>1. ListType /\ ListInv /\ RestType /\ DeviceInv
  BY Parts
<1>2. UNCHANGED << pcb_free, p_pid, p_prio, p_parent, p_child, p_support,
                   aslVars, process_count, softblock_count, recycle_count,
                   ctrl, kstack, orphan, idle, sem >>
  BY DEF SchedKeeps
<1>3. /\ ListType' /\ ListInv'
      /\ \A q \in Proc : list_null(q)' <=> q = p
  <2>1. /\ ListType' /\ ListInv'
        /\ \A q \in Proc : list_null(q)' <=>
             ~IsFree(q) /\ ~IsBlocked(q) /\ ~InReady(ready_queue', q)
    BY <1>1, <1>2, ReadyThen
  <2> QED
    BY <2>1 DEF OnlyOut, Out
<1>4. /\ mode' = "run" /\ dev' = dev /\ it_timer' = it_timer /\ plt' = "running"
      /\ status' \subseteq StatusBits /\ p_status' \in [Proc -> SUBSET StatusBits]
  <2> DEFINE st == p_status[p] \cup (IF p_prio[p] = 1 THEN {TE, IL_TIMER} ELSE {})
  <2>1. TE \in StatusBits /\ IL_TIMER \in StatusBits
    BY DEF StatusBits, Lines, IL_TIMER, TE
  <2>2. st \in SUBSET StatusBits
    BY <1>1, <2>1 DEF RestType
  <2>3. /\ p_status' = [p_status EXCEPT ![p] = st] /\ status' = st
        /\ mode' = "run" /\ dev' = dev /\ it_timer' = it_timer /\ plt' = "running"
    BY DEF scheduler_takeover
  <2> HIDE DEF st
  <2> QED
    BY <1>1, <2>2, <2>3 DEF RestType
<1>5. RestType'
  BY <1>1, <1>2, <1>4, ProcFacts DEF RestType, Modes
<1>6. ControlInv'
  BY <1>3, <1>4, ProcFacts DEF ControlInv
<1>7. DeviceInv'
  BY <1>1, <1>2, <1>4, DevicesKept DEF aslVars
<1> QED
  BY <1>2, <1>3, <1>4, <1>5, <1>6, <1>7, Handler

\* Nobody is loaded: the kernel waits for an interrupt, halts or panics.
LEMMA WaitOrDieKeeps ==
  ASSUME IInv, mode = "sched", SchedKeeps, OnlyOut(ready_queue, {}),
         \A b \in Prio : ready_queue[b] = << >>,
         yield_process = NULL, wait_or_die, UNCHANGED << ready_queue, yield_process >>
  PROVE  IInv'
<1>1. ListType /\ ListInv /\ RestType /\ DeviceInv
  BY Parts
<1>2. UNCHANGED << pcb_free, p_pid, p_prio, p_parent, p_child, p_support,
                   aslVars, process_count, softblock_count, recycle_count,
                   ctrl, kstack, orphan, idle, sem >>
  BY DEF SchedKeeps
<1>3. ListType' /\ ListInv' /\ NullSame
  BY <1>1, <1>2, ListsUnchanged
<1>4. \A q \in Proc : ~list_null(q)'
  BY <1>1, <1>3, ReadyNow DEF NullSame, OnlyOut, Out, list_null
<1>5. /\ dev' = dev /\ plt' = plt /\ p_status' = p_status
      /\ it_timer' \in {"loaded", it_timer}
      /\ status' \subseteq status \cup Lines
      /\ \/ mode' = "wait" /\ active_process' = NULL
         \/ mode' \in {"halt", "Deadlock detected"} /\ active_process' = active_process
  BY DEF wait_or_die, scheduler_wait, hwVars
<1>6. "Deadlock detected" \in Panics
  BY DEF Panics
<1>7. RestType'
  BY <1>1, <1>2, <1>5, <1>6 DEF RestType, Modes, StatusBits
<1>8. ControlInv'
  BY <1>4, <1>5 DEF ControlInv, list_empty
<1>9. DeviceInv'
  BY <1>1, <1>2, <1>5, DevicesKept DEF aslVars
<1> QED
  BY <1>2, <1>3, <1>5, <1>7, <1>8, <1>9, Handler

\* When h has been taken off a queue and the process that yielded, if any, has
\* been enqueued, only h is in no list.
LEMMA TakeAndYield ==
  ASSUME IInv, NEW rq, ReadyOK(rq), NEW y \in Proc \cup {NULL}, OnlyOut(rq, {y}),
         NEW h \in Proc, InReady(rq, h), NEW r, ReadyOK(r), ReadyMinus(rq, h, r)
  PROVE  /\ y = NULL => OnlyOut(r, {h})
         /\ y # NULL => ReadyOK(enqueue_process(r, y)) /\ OnlyOut(enqueue_process(r, y), {h})
<1>1. ~IsFree(h) /\ ~IsBlocked(h)
  BY DEF ReadyOK
<1>2. OnlyOut(r, {y, h}) /\ y # h
  BY <1>1, ProcFacts DEF OnlyOut, Out, ReadyMinus
<1>3. CASE y = NULL
  BY <1>2, <1>3, ProcFacts DEF OnlyOut
<1>4. CASE y # NULL
  <2>1. y \in Proc /\ ~IsFree(y) /\ ~IsBlocked(y)
    BY <1>4 DEF OnlyOut, Out
  <2>2. p_prio \in [Proc -> Prio]
    BY Parts DEF ListType
  <2> DEFINE s == enqueue_process(r, y)
  <2>3. s = enqueue_process(r, y)
    OBVIOUS
  <2> HIDE DEF s
  <2>4. ReadyOK(s) /\ ReadyPlus(r, y, s)
    BY <2>1, <2>2, <2>3, ReadyEnqueue
  <2>5. OnlyOut(s, {h})
    BY <1>2, <2>1, <2>4 DEF OnlyOut, Out, ReadyPlus
  <2> QED
    BY <1>4, <2>3, <2>4, <2>5
<1> QED
  BY <1>3, <1>4

\* schedule.
LEMMA ScheduleKeeps ==
  ASSUME IInv, schedule, sem' = sem
  PROVE  IInv'
<1> DEFINE pcb == IF ctrl = "BLOCK" THEN NULL ELSE active_process
           keep == pcb # NULL /\ ctrl = "PRESERVE"
           rq == IF pcb # NULL /\ ctrl = "RESCHEDULE"
                 THEN enqueue_process(ready_queue, pcb) ELSE ready_queue
<1>1. /\ ListType /\ ListInv /\ RestType /\ ControlInv /\ mode = "sched" /\ SchedKeeps
      /\ p_prio \in [Proc -> Prio]
  BY Parts DEF schedule, SchedKeeps, ListType
<1>2. /\ active_process \in Proc \cup {NULL} /\ yield_process \in Proc \cup {NULL}
      /\ ctrl \in {"BLOCK", "PRESERVE", "RESCHEDULE"}
  BY <1>1 DEF RestType, Controls
<1>3. ReadyOK(ready_queue) /\ \A q \in Proc : Out(ready_queue, q) <=> list_null(q)
  BY <1>1, ReadyNow DEF Out, list_null
<1>4. \/ /\ keep
         /\ Dispatch(pcb, rq, yield_process)
      \/ /\ ~keep /\ rq[1] # << >>
         /\ Dispatch(head_proc_q(rq[1]), [rq EXCEPT ![1] = remove_proc_q(@)], yield_process)
      \/ /\ ~keep /\ rq[1] = << >> /\ rq[0] # << >>
         /\ Dispatch(head_proc_q(rq[0]), [rq EXCEPT ![0] = remove_proc_q(@)], yield_process)
      \/ /\ ~keep /\ rq[1] = << >> /\ rq[0] = << >>
         /\ yield_process # NULL
         /\ Dispatch(yield_process, rq, NULL)
      \/ /\ ~keep /\ rq[1] = << >> /\ rq[0] = << >>
         /\ yield_process = NULL
         /\ wait_or_die
         /\ UNCHANGED << ready_queue, yield_process >>
  BY DEF schedule, list_empty
<1>5. CASE keep
  <2>1. active_process \in Proc /\ ctrl = "PRESERVE" /\ pcb = active_process /\ rq = ready_queue
    BY <1>2, <1>5
  <2>2. yield_process = NULL
    BY <1>1, <2>1 DEF ControlInv
  <2>3. OnlyOut(ready_queue, {active_process})
    BY <1>1, <1>3, <2>1, ProcFacts DEF OnlyOut, ControlInv
  <2>4. Dispatch(active_process, ready_queue, NULL)
    BY <1>4, <1>5, <2>1, <2>2
  <2> QED
    BY <1>1, <1>3, <2>1, <2>3, <2>4, DispatchKeeps DEF Dispatch
<1>6. ASSUME ~keep
      PROVE  /\ ReadyOK(rq) /\ OnlyOut(rq, {yield_process})
             /\ rq[1] = << >> /\ rq[0] = << >> => rq = ready_queue
  <2>1. CASE pcb # NULL
    <3>1. active_process \in Proc /\ ctrl = "RESCHEDULE" /\ pcb = active_process
      BY <1>2, <1>6, <2>1
    <3>2. yield_process = NULL /\ list_null(active_process)
      BY <1>1, <3>1, ProcFacts DEF ControlInv
    <3>3. OnlyOut(ready_queue, {active_process})
      BY <1>1, <1>3, <3>1, <3>2 DEF OnlyOut, ControlInv
    <3>4. rq = enqueue_process(ready_queue, active_process)
      BY <2>1, <3>1
    <3>5. ~IsFree(active_process) /\ ~IsBlocked(active_process)
      BY <3>2 DEF list_null
    <3> HIDE DEF rq
    <3>6. ReadyOK(rq) /\ ReadyPlus(ready_queue, active_process, rq)
          /\ ~(rq[0] = << >> /\ rq[1] = << >>)
      BY <1>1, <1>3, <3>1, <3>4, <3>5, ReadyEnqueue
    <3> QED
      BY <3>1, <3>2, <3>3, <3>6, ProcFacts DEF OnlyOut, Out, ReadyPlus
  <2>2. CASE pcb = NULL
    <3>1. rq = ready_queue /\ (ctrl = "BLOCK" \/ active_process = NULL)
      BY <2>2
    <3>2. \A q \in Proc : list_null(q) <=> q = yield_process
      BY <1>1, <1>2, <3>1, ProcFacts DEF ControlInv
    <3> QED
      BY <1>3, <3>1, <3>2 DEF OnlyOut
  <2> QED
    BY <2>1, <2>2
<1> HIDE DEF keep, rq, pcb
<1>7. ASSUME ~keep, NEW c \in Prio, rq[c] # << >>,
             Dispatch(head_proc_q(rq[c]), [rq EXCEPT ![c] = remove_proc_q(@)], yield_process)
      PROVE  IInv'
  <2> DEFINE h == head_proc_q(rq[c])
             r == [rq EXCEPT ![c] = remove_proc_q(@)]
  <2>1. /\ active_process' = h /\ yield_process' = NULL /\ scheduler_takeover(h)
        /\ ready_queue' = IF yield_process # NULL
                          THEN enqueue_process(r, yield_process) ELSE r
    BY <1>7 DEF Dispatch
  <2>2. h = head_proc_q(rq[c]) /\ r = [rq EXCEPT ![c] = remove_proc_q(@)]
    OBVIOUS
  <2>3. /\ ReadyOK(rq) /\ OnlyOut(rq, {yield_process})
        /\ c \in Prio /\ rq[c] # << >> /\ yield_process \in Proc \cup {NULL}
    BY <1>2, <1>6, <1>7
  <2> HIDE DEF h, r
  <2>4. h \in Proc /\ InReady(rq, h) /\ ReadyOK(r) /\ ReadyMinus(rq, h, r)
    BY <2>2, <2>3, ReadyTake
  <2>5. ReadyOK(ready_queue') /\ OnlyOut(ready_queue', {h})
    BY <2>1, <2>3, <2>4, TakeAndYield
  <2> QED
    BY <1>1, <2>1, <2>4, <2>5, DispatchKeeps
<1>8. CASE ~keep /\ rq[1] # << >>
  BY <1>4, <1>7, <1>8 DEF Prio
<1>9. CASE ~keep /\ rq[1] = << >> /\ rq[0] # << >>
  BY <1>4, <1>7, <1>9 DEF Prio
<1>10. CASE ~keep /\ rq[1] = << >> /\ rq[0] = << >>
  <2>1. rq = ready_queue /\ ReadyOK(ready_queue) /\ OnlyOut(ready_queue, {yield_process})
    BY <1>6, <1>10
  <2>2. CASE yield_process # NULL
    <3>1. Dispatch(yield_process, ready_queue, NULL) /\ yield_process \in Proc
      BY <1>2, <1>4, <1>10, <2>1, <2>2
    <3> QED
      BY <1>1, <2>1, <3>1, DispatchKeeps DEF Dispatch
  <2>3. CASE yield_process = NULL
    <3>1. wait_or_die /\ UNCHANGED << ready_queue, yield_process >>
      BY <1>4, <1>10, <2>3
    <3>2. OnlyOut(ready_queue, {})
      BY <2>1, <2>3, ProcFacts DEF OnlyOut
    <3>3. \A b \in Prio : ready_queue[b] = << >>
      BY <1>10, <2>1 DEF Prio
    <3> QED
      BY <1>1, <2>3, <3>1, <3>2, <3>3, WaitOrDieKeeps
  <2> QED
    BY <2>2, <2>3
<1> QED
  BY <1>5, <1>8, <1>9, <1>10

-----------------------------------------------------------------------------
(* The machine, the initial state and the theorems.                         *)

\* Devices and timers.
LEMMA HardwareKeeps ==
  ASSUME IInv, Hardware
  PROVE  IInv'
<1>1. /\ ListType /\ ListInv /\ RestType /\ DeviceInv /\ ControlInv
      /\ mode \in {"run", "sched", "wait"}
  BY Parts DEF Hardware
<1>2. UNCHANGED << pcb_free, p_pid, p_prio, p_parent, p_child, p_support,
                   p_status, aslVars, schedVars, sem >>
  BY DEF Hardware
<1>3. ListType' /\ ListInv' /\ NullSame
  BY <1>1, <1>2, ListsUnchanged DEF schedVars
<1>4. ControlInv'
  <2>1. active_process \in Proc \cup {NULL}
    BY <1>1 DEF RestType
  <2> QED
    BY <1>1, <1>2, <1>3, <2>1 DEF ControlInv, NullSame, schedVars
<1>5. CASE \E u \in Units : DeviceFinishes(u)
  <2>1. PICK u \in Units : DeviceFinishes(u)
    BY <1>5
  <2>2. PICK o \in Outcomes : dev' = [dev EXCEPT ![u] = o]
    BY <2>1 DEF DeviceFinishes
  <2>3. o \in {"ok", "err"} /\ dev[u] = "busy" /\ UNCHANGED << it_timer, plt, status >>
    BY <2>1, OutcomesAssumption DEF DeviceFinishes
  <2>4. RestType'
    BY <1>1, <1>2, <2>2, <2>3 DEF RestType, schedVars
  <2>5. DeviceInv'
    <3>1. \A v \in Units \ {u} : dev'[v] = dev[v]
      BY <1>1, <2>2 DEF RestType
    <3>2. sem[u] = 0
      BY <1>1, <2>3 DEF DeviceInv
    <3> QED
      BY <1>1, <1>2, <3>1, <3>2 DEF DeviceInv, aslVars, schedVars
  <2> QED
    BY <1>1, <1>2, <1>3, <1>4, <2>4, <2>5, Handler DEF schedVars
<1>6. CASE TimerRuns \/ TimerExpires \/ LocalTimerExpires
  <2>1. /\ it_timer' \in {it_timer, "running", "expired"} /\ plt' \in {plt, "expired"}
        /\ UNCHANGED << dev, status >>
    BY <1>6 DEF TimerRuns, TimerExpires, LocalTimerExpires
  <2>2. RestType'
    BY <1>1, <1>2, <2>1 DEF RestType, schedVars
  <2>3. DeviceInv'
    BY <1>1, <1>2, <2>1, DevicesKept DEF aslVars
  <2> QED
    BY <1>1, <1>2, <1>3, <1>4, <2>2, <2>3, Handler DEF schedVars
<1> QED
  BY <1>5, <1>6 DEF Hardware

\* The free list that init() leaves: every pcb but the first process, once.
LEMMA InitialFreeList ==
  ASSUME init_pcbs
  PROVE  /\ pcb_free \in Seq(Proc) /\ IsInjective(pcb_free) /\ Len(pcb_free) = MAX_PROC - 1
         /\ Range(pcb_free) = Proc \ {FirstPcb}
<1>1. /\ MAX_PROC \in Nat \ {0} /\ MAX_PROC - 1 \in Nat
      /\ pcb_free = [i \in 1..(MAX_PROC - 1) |-> MAX_PROC - 1 - i]
  BY MaxProcAssumption DEF init_pcbs
<1>2. \A i \in 1..(MAX_PROC - 1) : MAX_PROC - 1 - i \in Proc
  BY <1>1 DEF Proc
<1>3. pcb_free \in Seq(Proc)
  BY <1>1, <1>2
<1>4. Len(pcb_free) = MAX_PROC - 1
  BY <1>1
<1>5. IsInjective(pcb_free)
  <2>1. \A i, j \in 1..Len(pcb_free) : pcb_free[i] = pcb_free[j] => i = j
    BY <1>1, <1>4
  <2> QED
    BY <1>3, <2>1, RangeByIndex
<1>6. \A i \in 1..(MAX_PROC - 1) : pcb_free[i] \in Proc \ {FirstPcb}
  BY <1>1 DEF Proc, FirstPcb
<1>7. ASSUME NEW p \in Proc \ {FirstPcb}
      PROVE  \E i \in 1..(MAX_PROC - 1) : pcb_free[i] = p
  <2>1. MAX_PROC - 1 - p \in 1..(MAX_PROC - 1)
    BY <1>1, <1>7 DEF Proc, FirstPcb
  <2>2. pcb_free[MAX_PROC - 1 - p] = p
    BY <1>1, <2>1 DEF Proc
  <2> QED
    BY <2>1, <2>2
<1>8. Range(pcb_free) = {pcb_free[i] : i \in 1..(MAX_PROC - 1)}
  BY <1>3, <1>4, RangeByIndex
<1> QED
  BY <1>3, <1>4, <1>5, <1>6, <1>7, <1>8

\* The invariant holds when main() calls schedule for the first time.
LEMMA InitHolds == Init => IInv
<1> SUFFICES ASSUME Init PROVE IInv
  OBVIOUS
<1>1. /\ init_pcbs /\ init_asl /\ InitDevices /\ init_scheduler
      /\ process_count = 1 /\ mode = "sched" /\ ctrl = "BLOCK"
      /\ recycle_count = 1 % RECYCLE_MOD
      /\ sem \in [Sem -> {0, 1}]
      /\ \A s \in Sem \ UserSems : sem[s] = 0
  BY DEF Init
<1>2. /\ pcb_free \in Seq(Proc) /\ IsInjective(pcb_free) /\ Len(pcb_free) = MAX_PROC - 1
      /\ \A p \in Proc : IsFree(p) <=> p # FirstPcb
  BY <1>1, InitialFreeList DEF IsFree, list_contains
<1>3. FirstPcb \in Proc /\ NULL \notin Proc /\ NULL \notin Sem
  BY ProcFacts, SemFacts DEF FirstPcb
<1>4. /\ ready_queue \in [Prio -> Seq(Proc)]
      /\ Range(ready_queue[0]) = {FirstPcb} /\ Range(ready_queue[1]) = {}
      /\ IsInjective(ready_queue[0]) /\ IsInjective(ready_queue[1])
  <2>1. ready_queue = [b \in Prio |-> IF b = 0 THEN << FirstPcb >> ELSE << >>]
    BY DEF Init
  <2>2. << FirstPcb >> \in Seq(Proc) /\ << >> \in Seq(Proc)
    BY <1>3
  <2>3. DOMAIN << FirstPcb >> = {1} /\ << FirstPcb >>[1] = FirstPcb
    OBVIOUS
  <2>4. Range(<< FirstPcb >>) = {FirstPcb} /\ IsInjective(<< FirstPcb >>)
    BY <2>3 DEF Range, IsInjective
  <2>5. Range(<< >>) = {} /\ IsInjective(<< >>)
    BY NilList
  <2>6. ready_queue \in [Prio -> Seq(Proc)]
    BY <2>1, <2>2
  <2>7. ready_queue[0] = << FirstPcb >> /\ ready_queue[1] = << >>
    BY <2>1 DEF Prio
  <2> QED
    BY <2>4, <2>5, <2>6, <2>7
<1>5. \A p \in Proc : IsReady(p) <=> p = FirstPcb
  BY <1>4 DEF IsReady, list_contains, Prio
<1>6. /\ \A s \in Sem : s_procq[s] = << >> /\ Range(s_procq[s]) = {} /\ IsInjective(s_procq[s])
      /\ s_procq \in [Sem -> Seq(Proc)] /\ semd_h = {} /\ semd_free = MAX_PROC
      /\ p_sem_add = [p \in Proc |-> NULL]
  <2>1. << >> \in Seq(Proc) /\ Range(<< >>) = {} /\ IsInjective(<< >>)
    BY NilList
  <2> QED
    BY <1>1, <2>1 DEF init_asl
<1>7. \A p \in Proc : ~IsBlocked(p)
  BY <1>6 DEF IsBlocked, list_contains
<1>8. p_prio = [p \in Proc |-> 0] /\ 0 \in Prio
  BY <1>1 DEF init_pcbs, Prio
<1>9. softblock_count = 0 /\ active_process = NULL /\ yield_process = NULL /\ kstack = << >>
      /\ orphan = {} /\ idle = {}
  BY <1>1 DEF init_scheduler
<1>10. ListInv
  <2>1. ListsInjective
    BY <1>2, <1>4, <1>6 DEF ListsInjective, Prio
  <2>2. ListsDisjoint
    BY <1>2, <1>5, <1>7 DEF ListsDisjoint
  <2>3. ReadyByPriority
    BY <1>3, <1>4, <1>8 DEF ReadyByPriority, Prio
  <2>4. IsFiniteSet({}) /\ Cardinality({}) = 0
    BY FS_EmptySet
  <2>5. {p \in Proc : p_sem_add[p] # NULL} = {}
    BY <1>6
  <2>6. SemaphoreQueues
    BY <1>3, <1>6, <2>4, ProcFacts DEF SemaphoreQueues, list_empty, list_contains
  <2> QED
    BY <1>6, <1>9, <2>1, <2>2, <2>3, <2>4, <2>5, <2>6 DEF ListInv
<1>11. \A p \in Proc : ~list_null(p)
  BY <1>2, <1>5 DEF list_null
<1>12. ControlInv
  BY <1>1, <1>9, <1>11 DEF ControlInv
<1>13. KillInv
  <2>1. Len(<< >>) = 0
    OBVIOUS
  <2> QED
    BY <1>1, <1>9, <2>1 DEF KillInv
<1>14. /\ p_parent = [p \in Proc |-> NULL] /\ p_child = [p \in Proc |-> << >>]
       /\ p_support = [p \in Proc |-> NULL] /\ p_status = [p \in Proc |-> {}]
  BY <1>1 DEF init_pcbs
<1>15. /\ p_pid \in [Proc -> Pid]
       /\ \A p \in Proc : p_pid[p] = NULL_PID <=> p # FirstPcb
  <2>1. 0 \in 0..(RECYCLE_MOD - 1) /\ 0 \in Pid
    BY PidAssumption, MaxProcAssumption DEF Pid
  <2>2. make_pid(FirstPcb, 0) \in Pid \ {0}
    BY <1>3, <2>1, MakePid
  <2>3. p_pid = [p \in Proc |-> IF p = FirstPcb THEN make_pid(p, 0) ELSE NULL_PID]
    BY DEF Init
  <2> QED
    BY <2>1, <2>2, <2>3 DEF NULL_PID
<1>16. ProcessTree
  <2>1. Range(<< >>) = {} /\ IsInjective(<< >>) /\ Len(<< >>) = 0
    BY NilList
  <2>2. \A p \in Proc : KillParent(p) = NULL
    BY <1>9, <1>14, <2>1 DEF KillParent
  <2> QED
    BY <1>2, <1>3, <1>9, <1>14, <1>15, <2>1, <2>2 DEF ProcessTree, list_contains, list_empty
<1>17. DeviceInv
  BY <1>1, SemFacts DEF DeviceInv
<1>18. CountInv
  BY <1>1, <1>2, MaxProcAssumption DEF CountInv
<1>19. TypeOK
  <2>1. 1 % RECYCLE_MOD \in 0..(RECYCLE_MOD - 1)
    BY PidAssumption
  <2>2. /\ dev = [u \in Units |-> "ready"] /\ it_timer = "loaded" /\ plt = "running"
        /\ status = {}
    BY <1>1 DEF InitDevices
  <2>3. 0 \in 0..MAX_PROC /\ 1 \in 0..MAX_PROC /\ MAX_PROC \in 0..MAX_PROC
    BY MaxProcAssumption
  <2>4. << >> \in Seq(Proc)
    BY NilList
  <2> QED
    BY <1>1, <1>2, <1>4, <1>6, <1>8, <1>9, <1>14, <1>15, <2>1, <2>2, <2>3, <2>4
       DEF TypeOK, Modes, KernelModes, Controls
<1> QED
  BY <1>10, <1>12, <1>13, <1>16, <1>17, <1>18, <1>19 DEF IInv

\* A step that changes nothing.
LEMMA StutterKeeps ==
  ASSUME IInv, UNCHANGED vars
  PROVE  IInv'
<1>1. /\ ListType /\ ListInv /\ RestType /\ DeviceInv /\ ControlInv /\ CountInv
      /\ TreeType /\ ProcessTree /\ KillInv
  BY Parts
<1>2. UNCHANGED << pcb_free, p_pid, p_prio, p_parent, p_child, p_support, p_status,
                   aslVars, hwVars, schedVars, sem >>
  BY DEF vars
<1>3. ListType' /\ ListInv' /\ NullSame
  BY <1>1, <1>2, ListsUnchanged DEF schedVars
<1>4. TreeType' /\ ProcessTree'
  BY <1>1, <1>2, TreeUnchanged DEF schedVars
<1>5. RestType'
  BY <1>1, <1>2 DEF RestType, hwVars, schedVars
<1>6. ControlInv'
  <2>1. active_process \in Proc \cup {NULL}
    BY <1>1 DEF RestType
  <2>2. \A q \in Proc : IsFree(q)' <=> IsFree(q)
    BY <1>2 DEF IsFree
  <2> QED
    BY <1>1, <1>2, <1>3, <2>1, <2>2 DEF ControlInv, NullSame, schedVars
<1>7. KillInv'
  BY <1>1, <1>2 DEF KillInv, schedVars
<1>8. DeviceInv' /\ CountInv'
  BY <1>1, <1>2 DEF DeviceInv, CountInv, aslVars, hwVars, schedVars
<1> QED
  BY <1>3, <1>4, <1>5, <1>6, <1>7, <1>8, Assemble

\* Every step of the specification keeps the invariant.
LEMMA NextKeeps == IInv /\ [Next]_vars => IInv'
<1> SUFFICES ASSUME IInv, [Next]_vars PROVE IInv'
  OBVIOUS
<1>1. CASE Kernel
  BY <1>1, ScheduleKeeps, KillChildKeeps, KillProcessKeeps DEF Kernel
<1>2. CASE TimerLoop
  BY <1>2, TimerLoopKeeps
<1>3. CASE Interrupt
  BY <1>3, InterruptKeeps
<1>4. CASE SystemCall \/ Trap
  BY <1>4, SystemCallKeeps
<1>5. CASE Hardware
  BY <1>5, HardwareKeeps
<1>6. CASE UNCHANGED vars
  BY <1>6, StutterKeeps
<1> QED
  BY <1>1, <1>2, <1>3, <1>4, <1>5, <1>6 DEF Next, Stopped

\* The inductive invariant holds in every reachable state.
THEOREM Invariance == Spec => []IInv
  BY InitHolds, NextKeeps, PTL DEF Spec

\* Every variable keeps its type: no list ever holds anything but pcbs, the
\* counters stay within the table, no semaphore takes a value but 0 and 1.
THEOREM TypeCorrect == Spec => []TypeOK
<1>1. IInv => TypeOK
  BY DEF IInv
<1> QED
  BY <1>1, Invariance, PTL

\* schedule, P, V, the kill of a subtree and the interrupt handlers never lose
\* a process and never link one twice (scheduler.c, semaphores.c).
THEOREM ProcessesKept == Spec => []NoProcessLost
<1>1. IInv => NoProcessLost
  BY DEF IInv, ListInv, ControlInv, NoProcessLost
<1> QED
  BY <1>1, Invariance, PTL

\* process_count and softblock_count are exact whenever wait_or_die reads them.
THEOREM CountsExact == Spec => []CountsAgree
<1>1. IInv => CountsAgree
  BY DEF IInv, ListInv, CountInv, CountsAgree
<1> QED
  BY <1>1, Invariance, PTL

\* insert_blocked, out_blocked and their users keep the active semaphore list
\* consistent and leak no descriptor (asl.c).
THEOREM QueuesConsistent == Spec => []SemaphoreQueues
<1>1. IInv => SemaphoreQueues
  BY DEF IInv, ListInv
<1> QED
  BY <1>1, Invariance, PTL

\* insert_child, out_child and kill_progeny keep the process tree a forest
\* whose links agree, whatever subtree is killed (pcb.c, scheduler.c).
THEOREM TreeConsistent == Spec => []ProcessTree
<1>1. IInv => ProcessTree
  BY DEF IInv
<1> QED
  BY <1>1, Invariance, PTL

-----------------------------------------------------------------------------
(* The refinement: every step of the nucleus is, on the values and the      *)
(* queues of the semaphores, one operation of BinarySemaphore or none.      *)

\* The step is one of BinarySemaphore, or leaves the semaphores alone.
SemStep == [BinarySem!NextSem]_<< sem, s_procq >>

\* The operations of BinarySemaphore with their definitions expanded.
LEMMA SemOperation ==
  ASSUME NEW s \in Sem, NEW p \in Proc, NEW full \in {0, 1},
         \/ /\ sem[s] = full /\ \A r \in Sem : p \notin Range(s_procq[r])
            /\ s_procq' = [s_procq EXCEPT ![s] = Append(@, p)]
            /\ sem' = sem
         \/ /\ sem[s] # full /\ s_procq[s] # << >>
            /\ s_procq' = [s_procq EXCEPT ![s] = Tail(@)]
            /\ sem' = sem
         \/ /\ sem[s] # full /\ s_procq[s] = << >>
            /\ sem' = [sem EXCEPT ![s] = full]
            /\ s_procq' = s_procq
  PROVE  SemStep
<1>1. BinarySem!Operate(s, p, full, full)
  BY DEF BinarySem!Operate, BinarySem!Waiting, BinarySem!list_contains,
         BinarySem!Range, Range
<1>2. BinarySem!Passeren(s, p) \/ BinarySem!Verhogen(s, p)
  BY <1>1 DEF BinarySem!Passeren, BinarySem!Verhogen
<1> QED
  BY <1>2 DEF SemStep, BinarySem!NextSem

\* A blocked pcb that is killed leaves its queue (out_blocked in kill_process).
LEMMA SemLeave ==
  ASSUME NEW s \in Sem, NEW p \in Proc, p \in Range(s_procq[s]),
         s_procq' = [s_procq EXCEPT ![s] = list_sdel(p, @)], sem' = sem
  PROVE  SemStep
<1>1. BinarySem!Leave(s, p)
  BY DEF BinarySem!Leave, BinarySem!list_contains, BinarySem!list_sdel,
         BinarySem!Range, Range, list_contains, list_sdel
<1> QED
  BY <1>1 DEF SemStep, BinarySem!NextSem

\* Two sequences of the same length and the same elements are equal.
LEMMA SameSequence ==
  ASSUME NEW S, NEW q \in Seq(S), NEW r \in Seq(S), Len(q) = Len(r),
         \A j \in 1..Len(q) : q[j] = r[j]
  PROVE  q = r
  OBVIOUS

\* Taking out the first element of a list is taking its tail.
LEMMA SdelHead ==
  ASSUME NEW S, NEW q \in Seq(S), q # << >>, IsInjective(q)
  PROVE  list_sdel(Head(q), q) = Tail(q)
<1> DEFINE i == CHOOSE k \in 1..Len(q) : q[k] = Head(q)
           r == [j \in 1..(Len(q) - 1) |-> IF j < i THEN q[j] ELSE q[j + 1]]
<1>1. /\ Head(q) \in Range(q) /\ Head(q) = q[1] /\ Len(q) \in Nat \ {0}
      /\ Tail(q) \in Seq(S) /\ Len(Tail(q)) = Len(q) - 1
      /\ \A j \in 1..(Len(q) - 1) : Tail(q)[j] = q[j + 1]
  BY TakeHead
<1>2. list_sdel(Head(q), q) = r
  BY <1>1 DEF list_sdel, list_contains
<1>3. i \in 1..Len(q) /\ q[i] = q[1]
  BY <1>1
<1>4. i = 1
  BY <1>1, <1>3, RangeByIndex
<1> HIDE DEF i
<1>5. \A j \in 1..(Len(q) - 1) : r[j] = q[j + 1]
  BY <1>1, <1>4
<1>6. r \in Seq(S) /\ Len(r) = Len(q) - 1
  BY <1>1, <1>2, Sdel
<1> HIDE DEF r
<1>7. r = Tail(q)
  BY <1>1, <1>5, <1>6, SameSequence
<1> QED
  BY <1>2, <1>7

-----------------------------------------------------------------------------
(* P and V.                                                                 *)

\* A process that is in no queue is in none of the abstract specification.
LEMMA NotWaiting ==
  ASSUME ListType, ListInv, NEW p \in Proc, p_sem_add[p] = NULL
  PROVE  \A r \in Sem : p \notin Range(s_procq[r])
  BY SemFacts DEF ListInv, SemaphoreQueues, list_contains

\* WakeHead takes the first process off the queue.
LEMMA WakeIsTail ==
  ASSUME ListType, ListInv, NEW s \in Sem, head_blocked(s) # NULL, WakeHead(s)
  PROVE  /\ s_procq[s] # << >> /\ s_procq' = [s_procq EXCEPT ![s] = Tail(@)]
         /\ sem' = sem
<1>1. AslType /\ AslInv
  BY ListParts
<1>2. s_procq[s] # << >> /\ p_sem_add[head_blocked(s)] = s
  BY <1>1, BlockedFacts
<1>3. head_blocked(s) = Head(s_procq[s])
  BY <1>2 DEF head_blocked, find_semd, ListInv, SemaphoreQueues, list_empty
<1>4. s_procq[s] \in Seq(Proc) /\ IsInjective(s_procq[s])
  BY DEF ListType, ListInv, ListsInjective
<1>5. list_sdel(head_blocked(s), s_procq[s]) = Tail(s_procq[s])
  BY <1>2, <1>3, <1>4, SdelHead
<1>6. s_procq' = [s_procq EXCEPT ![s] = list_sdel(head_blocked(s), s_procq[s])]
  BY <1>2 DEF WakeHead, out_blocked
<1> QED
  BY <1>2, <1>5, <1>6 DEF WakeHead

\* BlockOn appends to the queue.
LEMMA BlockIsAppend ==
  ASSUME NEW s, NEW p, BlockOn(s, p)
  PROVE  s_procq' = [s_procq EXCEPT ![s] = Append(@, p)] /\ sem' = sem
  BY DEF BlockOn, insert_blocked, list_add_tail

\* P of semaphores.c is Passeren, or nothing when insert_blocked fails.
LEMMA PIsStep ==
  ASSUME ListType, ListInv, sem \in [Sem -> {0, 1}], NEW s \in Sem,
         NEW p \in Proc, P(s, p)
  PROVE  SemStep
<1>1. CASE sem[s] = 0 /\ insert_blocked_fails(s, p)
  BY <1>1 DEF P, semVars, aslVars, SemStep
<1>2. CASE sem[s] = 0 /\ ~insert_blocked_fails(s, p)
  <2>1. BlockOn(s, p) /\ p_sem_add[p] = NULL
    BY <1>2 DEF P, insert_blocked_fails
  <2> QED
    BY <1>2, <2>1, BlockIsAppend, NotWaiting, SemOperation
<1>3. CASE sem[s] # 0 /\ head_blocked(s) # NULL
  <2>1. WakeHead(s)
    BY <1>3 DEF P
  <2> QED
    BY <1>3, <2>1, WakeIsTail, SemOperation
<1>4. CASE sem[s] # 0 /\ head_blocked(s) = NULL
  <2>1. sem' = [sem EXCEPT ![s] = sem[s] - 1] /\ s_procq' = s_procq
    BY <1>4 DEF P, aslVars
  <2>2. sem[s] - 1 = 0
    BY <1>4
  <2>3. s_procq[s] = << >>
    BY <1>4, ListParts, BlockedFacts
  <2> QED
    BY <1>4, <2>1, <2>2, <2>3, SemOperation
<1> QED
  BY <1>1, <1>2, <1>3, <1>4

\* V of semaphores.c is Verhogen, or nothing when it may not block.
LEMMA VIsStep ==
  ASSUME ListType, ListInv, sem \in [Sem -> {0, 1}], NEW s \in Sem, V(s),
         active_process \in Proc \cup {NULL}
  PROVE  SemStep
<1>1. CASE sem[s] = 1 /\ ~(V_blocks(s) /\ ~V_fails(s))
  BY <1>1 DEF V, semVars, aslVars, SemStep
<1>2. CASE sem[s] = 1 /\ V_blocks(s) /\ ~V_fails(s)
  <2>1. BlockOn(s, active_process)
    BY <1>2 DEF V
  <2>2. active_process \in Proc /\ p_sem_add[active_process] = NULL
    BY <1>2 DEF V_blocks
  <2> QED
    BY <1>2, <2>1, <2>2, BlockIsAppend, NotWaiting, SemOperation
<1>3. CASE sem[s] # 1 /\ head_blocked(s) # NULL
  <2>1. WakeHead(s)
    BY <1>3 DEF V
  <2>2. PICK p \in Proc : TRUE
    BY ProcFacts
  <2> QED
    BY <1>3, <2>1, <2>2, WakeIsTail, SemOperation
<1>4. CASE sem[s] # 1 /\ head_blocked(s) = NULL
  <2>1. sem' = [sem EXCEPT ![s] = sem[s] + 1] /\ s_procq' = s_procq
    BY <1>4 DEF V, aslVars
  <2>2. sem[s] + 1 = 1
    BY <1>4
  <2>3. s_procq[s] = << >>
    BY <1>4, ListParts, BlockedFacts
  <2>4. PICK p \in Proc : TRUE
    BY ProcFacts
  <2> QED
    BY <1>4, <2>1, <2>2, <2>3, <2>4, SemOperation
<1> QED
  BY <1>1, <1>2, <1>3, <1>4

-----------------------------------------------------------------------------
(* The steps of the nucleus.                                                *)

\* What P and V need of the invariant.
LEMMA SemParts ==
  ASSUME IInv
  PROVE  /\ ListType /\ ListInv /\ sem \in [Sem -> {0, 1}]
         /\ active_process \in Proc \cup {NULL}
  BY Parts DEF RestType

\* A handler that leaves the semaphores alone.
LEMMA NoSemStep ==
  ASSUME UNCHANGED << sem, aslVars >>
  PROVE  SemStep
  BY DEF aslVars, SemStep

\* The end of an activation of kill_progeny.
LEMMA KillIsStep ==
  ASSUME IInv, kill_process, sem' = sem
  PROVE  SemStep
<1> DEFINE p == Head(kstack)
<1>1. p \in Proc /\ ~(p_parent[p] # NULL /\ out_child_fails(p))
  BY VictimIsLinked DEF kill_process
<1>2. UnlinkKilled(p)
  BY <1>1 DEF kill_process
<1> HIDE DEF p
<1>3. CASE is_blocked(p)
  <2>1. out_blocked(p)
    BY <1>2, <1>3 DEF UnlinkKilled
  <2>2. p_sem_add[p] \in Sem /\ p \in Range(s_procq[p_sem_add[p]])
    BY <1>1, <1>3, SemParts DEF is_blocked, list_contains, ListType
  <2>3. s_procq' = [s_procq EXCEPT ![p_sem_add[p]] = list_sdel(p, @)]
    BY <2>1 DEF out_blocked
  <2> QED
    BY <1>1, <2>2, <2>3, SemLeave
<1>4. CASE ~is_blocked(p)
  BY <1>2, <1>4, NoSemStep DEF UnlinkKilled
<1> QED
  BY <1>3, <1>4

\* pass_up_or_die leaves the semaphores alone.
LEMMA PassUpIsStep ==
  ASSUME pass_up_or_die
  PROVE  SemStep
  BY NoSemStep DEF pass_up_or_die, StartKill, semVars

\* Each system call performs at most one operation on one semaphore.
LEMMA SystemCallIsStep ==
  ASSUME IInv, mode = "run", syscall_handler
  PROVE  SemStep
<1>1. active_process \in Proc
  BY Running
<1>2. ASSUME NEW prio \in Prio, NEW st \in Statuses, NEW sup \in Supports \cup {NULL},
             syscall_create_process(prio, st, sup)
      PROVE  SemStep
  BY <1>2 DEF syscall_create_process, OnlyControl, semVars, aslVars, SemStep
<1>3. ASSUME NEW pid \in Pid, syscall_terminate_process(pid)
      PROVE  SemStep
  BY <1>3, PassUpIsStep, NoSemStep DEF syscall_terminate_process, StartKill, semVars
<1>4. ASSUME NEW s \in UserSems, syscall_passeren(s)
      PROVE  SemStep
  BY <1>1, <1>4, SemFacts, SemParts, PIsStep DEF syscall_passeren
<1>5. ASSUME NEW s \in UserSems, syscall_verhogen(s)
      PROVE  SemStep
  BY <1>5, SemFacts, SemParts, VIsStep DEF syscall_verhogen
<1>6. ASSUME NEW d \in IoDevs, syscall_do_io(d)
      PROVE  SemStep
  <2>1. CASE P(d.semaphore, active_process)
    BY <1>1, <2>1, IoDevFacts, SemFacts, SemParts, PIsStep
  <2> QED
    BY <1>6, <2>1, PassUpIsStep, NoSemStep DEF syscall_do_io, OnlyControl, semVars
<1>7. CASE syscall_do_io_bad_address \/ syscall_get_cpu_time
           \/ syscall_get_support_data \/ syscall_get_process_id \/ syscall_yield
  BY <1>7, NoSemStep DEF syscall_do_io_bad_address, syscall_get_cpu_time,
     syscall_get_support_data, syscall_get_process_id, syscall_yield, OnlyControl, semVars
<1>8. CASE syscall_wait_for_clock
  BY <1>1, <1>8, SemFacts, SemParts, PIsStep DEF syscall_wait_for_clock
<1> QED
  BY <1>2, <1>3, <1>4, <1>5, <1>6, <1>7, <1>8 DEF syscall_handler

\* The interrupt handlers.
LEMMA InterruptIsStep ==
  ASSUME IInv, interrupt_handler
  PROVE  SemStep
<1>1. CASE interrupt_local_timer \/ interrupt_timer
  BY <1>1, NoSemStep DEF interrupt_local_timer, interrupt_timer, semVars
<1>2. CASE Pending \cap IL_DISK..IL_PRINTER # {} /\ interrupt_generic
  <2> DEFINE il == Min(Pending \cap IL_DISK..IL_PRINTER)
             u == get_semaphore(il, find_device_number(CDEV_BITMAP(il)), FALSE)
  <2>1. u \in Units
    BY <1>2, GenericUnit
  <2>2. V(u)
    BY <1>2 DEF interrupt_generic
  <2> HIDE DEF u
  <2> QED
    BY <2>1, <2>2, SemFacts, SemParts, VIsStep
<1>3. CASE interrupt_terminal
  <2> DEFINE u == TerminalUnit(find_device_number(CDEV_BITMAP(IL_TERMINAL)))
  <2>1. u # NULL => u \in Units
    BY DEF TerminalUnit
  <2>2. UNCHANGED semVars \/ (u # NULL /\ V(u))
    BY <1>3 DEF interrupt_terminal
  <2> HIDE DEF u
  <2> QED
    BY <2>1, <2>2, SemFacts, SemParts, VIsStep, NoSemStep DEF semVars
<1> QED
  BY <1>1, <1>2, <1>3 DEF interrupt_handler

\* One evaluation of the loop of interrupt_timer.
LEMMA TimerLoopIsStep ==
  ASSUME IInv, TimerLoop
  PROVE  SemStep
<1>1. V(TIMER_SEM) \/ UNCHANGED semVars
  BY DEF TimerLoop
<1> QED
  BY <1>1, SemFacts, SemParts, VIsStep, NoSemStep DEF semVars

\* Every step of the nucleus is a step of BinarySemaphore or a stutter.
LEMMA NextIsStep ==
  ASSUME IInv, [Next]_vars
  PROVE  SemStep
<1>1. CASE Kernel
  <2>1. CASE kill_process /\ sem' = sem
    BY <2>1, KillIsStep
  <2>2. CASE (schedule \/ KillChild) /\ sem' = sem
    BY <2>2, NoSemStep DEF schedule, KillChild
  <2> QED
    BY <1>1, <2>1, <2>2 DEF Kernel
<1>2. CASE TimerLoop
  BY <1>2, TimerLoopIsStep
<1>3. CASE Interrupt
  BY <1>3, InterruptIsStep DEF Interrupt
<1>4. CASE SystemCall \/ Trap
  BY <1>4, SystemCallIsStep, PassUpIsStep DEF SystemCall, Trap
<1>5. CASE Hardware
  BY <1>5, NoSemStep DEF Hardware
<1>6. CASE UNCHANGED vars
  BY <1>6, NoSemStep DEF vars
<1> QED
  BY <1>1, <1>2, <1>3, <1>4, <1>5, <1>6 DEF Next, Stopped

\* The nucleus implements binary semaphores with first-come-first-served
\* queues, for every number of processes, semaphores and devices: P and V of
\* semaphores.c, whoever calls them, and the kill of a process that waits.
THEOREM ImplementsSemaphores == Spec => ImplementsBinarySemaphore
<1>1. Init => BinarySem!InitSems
  BY DEF Init, init_asl, BinarySem!InitSems
<1>2. IInv /\ [Next]_vars => [BinarySem!NextSem]_(BinarySem!sVars)
  BY NextIsStep DEF SemStep, BinarySem!sVars
<1> QED
  BY <1>1, <1>2, Invariance, PTL
     DEF Spec, ImplementsBinarySemaphore, BinarySem!SpecSem

-----------------------------------------------------------------------------
(* Steps of the process tree.                                               *)

treeVars == << pcb_free, p_pid, p_parent, p_child, kstack, process_count >>

\* The steps that change the tree or the activations of kill_progeny.
Creates ==
  /\ mode = "run" /\ alloc_pcb # NULL
  /\ \E prio \in Prio, st \in Statuses, sup \in Supports \cup {NULL} :
       syscall_create_process(prio, st, sup)

StartsKill ==
  /\ mode = "run"
  /\ \E p \in Proc : kstack' = << p >>
  /\ UNCHANGED << pcb_free, p_pid, p_parent, p_child, process_count >>

LEMMA PassUpTree ==
  ASSUME IInv, mode = "run", pass_up_or_die
  PROVE  UNCHANGED treeVars \/ StartsKill
<1>1. active_process \in Proc
  BY Running
<1> QED BY <1>1 DEF pass_up_or_die, StartKill, StartsKill, treeVars, otherVars

LEMMA TreeStep ==
  ASSUME IInv, [Next]_vars
  PROVE  UNCHANGED treeVars \/ Creates \/ StartsKill \/ KillChild \/ kill_process
<1>1. CASE UNCHANGED vars \/ Stopped
  BY <1>1 DEF Stopped, vars, treeVars, schedVars
<1>2. CASE schedule \/ TimerLoop \/ Hardware
  BY <1>2 DEF schedule, TimerLoop, Hardware, treeVars, otherVars, schedVars
<1>3. CASE Interrupt
  BY <1>3 DEF Interrupt, interrupt_handler, interrupt_local_timer, interrupt_timer,
              interrupt_generic, interrupt_terminal, treeVars, otherVars
<1>4. CASE Trap
  BY <1>4, PassUpTree DEF Trap
<1>5. CASE SystemCall
  <2>1. mode = "run" /\ syscall_handler
    BY <1>5 DEF SystemCall
  <2>2. ASSUME NEW prio \in Prio, NEW st \in Statuses, NEW sup \in Supports \cup {NULL},
               syscall_create_process(prio, st, sup)
        PROVE  UNCHANGED treeVars \/ Creates
    <3>1. CASE alloc_pcb = NULL
      BY <2>2, <3>1 DEF syscall_create_process, OnlyControl, otherVars, treeVars
    <3>2. CASE alloc_pcb # NULL
      BY <2>1, <2>2, <3>2 DEF Creates
    <3> QED BY <3>1, <3>2
  <2>3. ASSUME NEW pid \in Pid, syscall_terminate_process(pid)
        PROVE  UNCHANGED treeVars \/ StartsKill
    <3>1. CASE pid = 0
      <4>1. active_process \in Proc
        BY <2>1, Running
      <4> QED BY <2>1, <2>3, <3>1, <4>1 DEF syscall_terminate_process, StartKill, StartsKill
    <3>2. CASE pid # 0 /\ find_process(pid) # NULL
      <4>1. find_process(pid) \in Proc
        BY <3>2, FoundIsLive
      <4> QED BY <2>1, <2>3, <3>2, <4>1 DEF syscall_terminate_process, StartKill, StartsKill
    <3>3. CASE pid # 0 /\ find_process(pid) = NULL
      BY <2>1, <2>3, <3>3, PassUpTree DEF syscall_terminate_process
    <3> QED BY <3>1, <3>2, <3>3
  <2>4. ASSUME NEW s \in UserSems, syscall_passeren(s) \/ syscall_verhogen(s)
        PROVE  UNCHANGED treeVars
    BY <2>4 DEF syscall_passeren, syscall_verhogen, otherVars, treeVars
  <2>5. ASSUME NEW d \in IoDevs, syscall_do_io(d)
        PROVE  UNCHANGED treeVars \/ StartsKill
    <3>1. CASE pass_up_or_die
      BY <2>1, <3>1, PassUpTree
    <3>2. CASE ~pass_up_or_die
      BY <2>5, <3>2 DEF syscall_do_io, OnlyControl, otherVars, treeVars
    <3> QED BY <3>1, <3>2
  <2>6. ASSUME \/ syscall_do_io_bad_address \/ syscall_get_cpu_time \/ syscall_wait_for_clock
               \/ syscall_get_support_data \/ syscall_get_process_id \/ syscall_yield
        PROVE  UNCHANGED treeVars
    BY <2>6 DEF syscall_do_io_bad_address, syscall_get_cpu_time, syscall_wait_for_clock,
                syscall_get_support_data, syscall_get_process_id, syscall_yield, OnlyControl,
                otherVars, treeVars
  <2> QED BY <2>1, <2>2, <2>3, <2>4, <2>5, <2>6 DEF syscall_handler
<1> QED BY <1>1, <1>2, <1>3, <1>4, <1>5 DEF Next, Kernel

-----------------------------------------------------------------------------
(* Pids.                                                                    *)

\* A live process has a pid made from its own slot.
PidInv ==
  \A p \in Proc : ~IsFree(p) =>
    \E rc \in 0..(RECYCLE_MOD - 1) : p_pid[p] = make_pid(p, rc)

\* mask_pid_id undoes make_pid.
LEMMA PidSlot ==
  ASSUME NEW id \in Proc, NEW rc \in 0..(RECYCLE_MOD - 1)
  PROVE  mask_pid_id(make_pid(id, rc)) = id
<1>1. /\ PID_SLOTS \in Nat \ {0} /\ id \in 0..(PID_SLOTS - 1) /\ rc \in Nat
      /\ rc * PID_SLOTS \in Nat
  BY PidAssumption, MaxProcAssumption DEF Proc
<1>2. make_pid(id, rc) - 1 = id + rc * PID_SLOTS
  BY <1>1, MakePid
<1>3. (id + rc * PID_SLOTS) % PID_SLOTS = id
  BY <1>1
<1> QED BY <1>2, <1>3 DEF mask_pid_id

LEMMA PidInit ==
  ASSUME Init
  PROVE  PidInv
<1>1. Range(pcb_free) = Proc \ {FirstPcb}
  BY InitialFreeList DEF Init
<1>2. FirstPcb \in Proc /\ 0 \in 0..(RECYCLE_MOD - 1)
  BY ProcFacts, PidAssumption DEF FirstPcb
<1>3. p_pid[FirstPcb] = make_pid(FirstPcb, 0)
  BY <1>2 DEF Init
<1> QED BY <1>1, <1>2, <1>3 DEF PidInv, IsFree, list_contains

LEMMA PidStep ==
  ASSUME IInv, PidInv, [Next]_vars
  PROVE  PidInv'
<1>1. CASE UNCHANGED treeVars \/ StartsKill \/ KillChild
  BY <1>1 DEF treeVars, StartsKill, KillChild, PidInv, IsFree
<1>2. CASE Creates
  <2>1. ListType /\ ListInv /\ RestType /\ TreeType
    BY Parts
  <2>2. PICK prio \in Prio, st \in Statuses, sup \in Supports \cup {NULL} :
          syscall_create_process(prio, st, sup)
    BY <1>2 DEF Creates
  <2> DEFINE c == alloc_pcb
  <2>3. /\ c # NULL /\ spawn_process(c, prio)
        /\ UNCHANGED << semd_h, semd_free, s_procq, softblock_count >>
    BY <1>2, <2>2 DEF Creates, syscall_create_process
  <2>4. c \in Proc /\ \A q \in Proc : IsFree(q)' <=> IsFree(q) /\ q # c
    BY <2>1, <2>3, Spawned
  <2>5. p_pid' = [p_pid EXCEPT ![c] = make_pid(c, recycle_count)]
    BY <2>3 DEF spawn_process
  <2> HIDE DEF c
  <2>6. recycle_count \in 0..(RECYCLE_MOD - 1) /\ p_pid \in [Proc -> Pid]
    BY <2>1 DEF RestType, TreeType
  <2>7. ASSUME NEW q \in Proc, ~IsFree(q)'
        PROVE  \E rc \in 0..(RECYCLE_MOD - 1) : p_pid'[q] = make_pid(q, rc)
    <3>1. CASE q = c
      BY <2>4, <2>5, <2>6, <3>1
    <3>2. CASE q # c
      BY <2>4, <2>5, <2>6, <2>7, <3>2 DEF PidInv
    <3> QED BY <3>1, <3>2
  <2> QED BY <2>7 DEF PidInv
<1>3. CASE kill_process
  <2>1. PICK p : p = Head(kstack)
    OBVIOUS
  <2>2. mode \in {"kill", "die"}
    BY <1>3 DEF kill_process
  <2>3. p \in Proc /\ ~IsFree(p) /\ ~(p_parent[p] # NULL /\ out_child_fails(p))
    BY <2>1, <2>2, VictimIsLinked
  <2>4. UnlinkKilled(p) /\ free_pcb(p) /\ p_prio' = p_prio
    BY <1>3, <2>1, <2>3 DEF kill_process
  <2>5. /\ p_pid' = [p_pid EXCEPT ![p] = NULL_PID]
        /\ \A q \in Proc : IsFree(q)' <=> IsFree(q) \/ q = p
    BY <2>3, <2>4, Parts, Killed
  <2>6. p_pid \in [Proc -> Pid]
    BY Parts DEF TreeType
  <2> QED BY <2>5, <2>6 DEF PidInv
<1> QED BY <1>1, <1>2, <1>3, TreeStep

\* find_process (scheduler.c) finds every process under its pid and under no other,
\* however often slots and recycle counts have been used (make_pid, mask_pid_id).
THEOREM PidsExact == Spec => []PidsResolve
<1>1. IInv /\ PidInv => PidsResolve
  <2> SUFFICES ASSUME IInv, PidInv PROVE PidsResolve
    OBVIOUS
  <2>1. ASSUME NEW p \in Proc, ~IsFree(p) PROVE find_process(p_pid[p]) = p
    <3>1. PICK rc \in 0..(RECYCLE_MOD - 1) : p_pid[p] = make_pid(p, rc)
      BY <2>1 DEF PidInv
    <3>2. mask_pid_id(p_pid[p]) = p
      BY <3>1, PidSlot
    <3>3. p < MAX_PROC
      BY ProcFacts DEF Proc
    <3> QED BY <3>2, <3>3 DEF find_process
  <2>2. ASSUME NEW pid \in Pid, find_process(pid) # NULL
        PROVE  ~IsFree(find_process(pid)) /\ p_pid[find_process(pid)] = pid
    <3>1. mask_pid_id(pid) < MAX_PROC /\ p_pid[mask_pid_id(pid)] = pid
          /\ find_process(pid) = mask_pid_id(pid)
      BY <2>2 DEF find_process
    <3>2. pid # 0
      <4>1. PID_SLOTS \in Nat \ {0} /\ MAX_PROC <= PID_SLOTS - 1 /\ MAX_PROC \in Nat
        BY PidAssumption, ProcFacts
      <4>2. (0 - 1) % PID_SLOTS = PID_SLOTS - 1
        BY <4>1
      <4> QED BY <3>1, <4>1, <4>2 DEF mask_pid_id
    <3> QED BY <2>2, <3>1, <3>2, FoundIsLive
  <2> QED BY <2>1, <2>2 DEF PidsResolve
<1> QED BY <1>1, PidInit, PidStep, Invariance, PTL DEF Spec

-----------------------------------------------------------------------------
(* The family of the first process.                                         *)

\* OneFamily, with the consequence of the death of the first process for the
\* others instead of for the counter.
FamilyInv ==
  /\ \A p \in Proc \ {FirstPcb} : ~IsFree(p) =>
       \E f \in Proc : f = Above(kstack, p_parent, p) /\ ~IsFree(f)
  /\ IsFree(FirstPcb) => \A p \in Proc : IsFree(p)

\* Without activations, and with a single one, Above is the parent.
LEMMA AboveIsParent ==
  /\ \A par, p : Above(<< >>, par, p) = par[p]
  /\ \A par, p, r : Above(<< r >>, par, p) = par[p]
<1>1. Len(<< >>) = 0 /\ \A r : Len(<< r >>) = 1
  OBVIOUS
<1> QED BY <1>1 DEF Above

LEMMA FamilyInit ==
  ASSUME Init
  PROVE  FamilyInv
<1>1. Range(pcb_free) = Proc \ {FirstPcb}
  BY InitialFreeList DEF Init
<1> QED BY <1>1 DEF FamilyInv, IsFree, list_contains

\* When the first process has no children left, nobody else is alive.
LEMMA FirstIsLast ==
  ASSUME IInv, FamilyInv, \A q \in Proc \ {FirstPcb} : Above(kstack, p_parent, q) # FirstPcb
  PROVE  \A q \in Proc \ {FirstPcb} : IsFree(q)
<1> DEFINE S == {q \in Proc \ {FirstPcb} : ~IsFree(q)}
<1>1. Acyclic(kstack, p_parent)
  BY Parts, TreeParts
<1>2. \A q \in S : Above(kstack, p_parent, q) \in S
  BY DEF FamilyInv
<1>3. S = {}
  BY <1>1, <1>2 DEF Acyclic
<1> QED BY <1>3

LEMMA FamilyStep ==
  ASSUME IInv, FamilyInv, [Next]_vars
  PROVE  FamilyInv'
<1>1. CASE UNCHANGED treeVars
  BY <1>1 DEF treeVars, FamilyInv, IsFree
<1>2. CASE StartsKill
  <2>1. /\ kstack = << >> /\ UNCHANGED << pcb_free, p_parent >> /\ \E p \in Proc : kstack' = << p >>
    BY <1>2, Running DEF StartsKill
  <2>2. \A q \in Proc : Above(kstack', p_parent', q) = Above(kstack, p_parent, q)
    BY <2>1, AboveIsParent
  <2> QED BY <2>1, <2>2 DEF FamilyInv, IsFree
<1>3. CASE Creates
  <2>1. ListType /\ ListInv /\ TreeType /\ active_process \in Proc /\ ~IsFree(active_process)
        /\ kstack = << >>
    BY <1>3, Parts, Running DEF Creates
  <2>2. PICK prio \in Prio, st \in Statuses, sup \in Supports \cup {NULL} :
          syscall_create_process(prio, st, sup)
    BY <1>3 DEF Creates
  <2> DEFINE c == alloc_pcb
  <2>3. /\ c # NULL /\ spawn_process(c, prio) /\ insert_child(active_process, c)
        /\ UNCHANGED << semd_h, semd_free, s_procq, softblock_count, kstack >>
    BY <1>3, <2>2 DEF Creates, syscall_create_process
  <2>4. c \in Proc /\ IsFree(c) /\ \A q \in Proc : IsFree(q)' <=> IsFree(q) /\ q # c
    BY <2>1, <2>3, Spawned
  <2>5. p_parent' = [p_parent EXCEPT ![c] = active_process] /\ kstack' = << >>
    BY <2>1, <2>3 DEF insert_child
  <2> HIDE DEF c
  <2>6. /\ Above(kstack', p_parent', c) = active_process
        /\ \A q \in Proc \ {c} : Above(kstack', p_parent', q) = Above(kstack, p_parent, q)
    <3>1. \A q \in Proc : p_parent'[q] = IF q = c THEN active_process ELSE p_parent[q]
      BY <2>1, <2>4, <2>5 DEF TreeType
    <3>2. \A q \in Proc : /\ Above(kstack', p_parent', q) = p_parent'[q]
                          /\ Above(kstack, p_parent, q) = p_parent[q]
      BY <2>1, <2>5, AboveIsParent
    <3> QED BY <2>4, <3>1, <3>2
  <2>7. ASSUME NEW q \in Proc \ {FirstPcb}, ~IsFree(q)'
        PROVE  \E f \in Proc : f = Above(kstack', p_parent', q) /\ ~IsFree(f)'
    <3>1. CASE q = c
      BY <2>1, <2>4, <2>6, <3>1
    <3>2. CASE q # c
      BY <2>4, <2>6, <2>7, <3>2 DEF FamilyInv
    <3> QED BY <3>1, <3>2
  <2>8. ~IsFree(FirstPcb)'
    <3>1. FirstPcb \in Proc /\ ~IsFree(FirstPcb)
      BY <2>1, ProcFacts DEF FamilyInv, FirstPcb
    <3> QED BY <2>4, <3>1
  <2> QED BY <2>7, <2>8 DEF FamilyInv
<1>4. CASE KillChild
  <2>1. TreeType /\ ProcessTree /\ KillLinks /\ kstack # << >>
    BY <1>4, Parts DEF KillChild, KillInv
  <2>2. PICK p, c : p = Head(kstack) /\ c = Head(p_child[p])
    OBVIOUS
  <2>3. p_child[p] # << >> /\ out_child(c) /\ kstack' = list_add(c, kstack)
        /\ UNCHANGED << pcb_free, p_pid >>
    BY <1>4, <2>2 DEF KillChild, list_empty
  <2>4. \A q \in Proc : Above(kstack', p_parent', q) = Above(kstack, p_parent, q)
    BY <2>1, <2>2, <2>3, TreeKillChild
  <2> QED BY <2>3, <2>4 DEF FamilyInv, IsFree
<1>5. CASE kill_process
  <2>1. /\ ListType /\ ListInv /\ TreeType /\ ProcessTree /\ KillLinks /\ kstack # << >>
        /\ mode \in {"kill", "die"}
    BY <1>5, Parts DEF kill_process, KillInv
  <2>2. PICK p : p = Head(kstack)
    OBVIOUS
  <2>3. p \in Proc /\ ~IsFree(p) /\ ~(p_parent[p] # NULL /\ out_child_fails(p))
    BY <2>1, <2>2, VictimIsLinked
  <2>4. /\ p_child[p] = << >>
        /\ IF p_parent[p] # NULL THEN out_child(p) ELSE UNCHANGED << p_parent, p_child >>
        /\ UnlinkKilled(p) /\ free_pcb(p) /\ p_prio' = p_prio
        /\ kstack' = Tail(kstack)
    BY <1>5, <2>2, <2>3 DEF kill_process, list_empty
  <2>5. /\ ListType' /\ p_pid' = [p_pid EXCEPT ![p] = NULL_PID]
        /\ \A q \in Proc : IsFree(q)' <=> IsFree(q) \/ q = p
    BY <2>1, <2>3, <2>4, Killed
  <2>6. pcb_free' \in Seq(Proc)
    BY <2>5 DEF ListType
  <2>7. \A q \in Proc \ {p} : /\ Above(kstack', p_parent', q) = Above(kstack, p_parent, q)
                              /\ Above(kstack, p_parent, q) # p
    BY <2>1, <2>2, <2>4, <2>5, <2>6, TreeKilled
  <2>8. ASSUME NEW q \in Proc \ {FirstPcb}, ~IsFree(q)'
        PROVE  \E f \in Proc : f = Above(kstack', p_parent', q) /\ ~IsFree(f)'
    BY <2>5, <2>7, <2>8 DEF FamilyInv
  <2>9. ASSUME IsFree(FirstPcb)'
        PROVE  \A q \in Proc : IsFree(q)'
    <3>1. FirstPcb \in Proc
      BY ProcFacts DEF FirstPcb
    <3>2. CASE p = FirstPcb
      BY <2>5, <2>7, <3>2, FirstIsLast
    <3>3. CASE p # FirstPcb
      BY <2>3, <2>5, <2>9, <3>1, <3>3 DEF FamilyInv
    <3> QED BY <3>2, <3>3
  <2> QED BY <2>8, <2>9 DEF FamilyInv
<1> QED BY <1>1, <1>2, <1>3, <1>4, <1>5, TreeStep

\* A list that holds every pcb once is as long as the table.
LEMMA FullList ==
  ASSUME NEW q \in Seq(Proc), IsInjective(q), \A p \in Proc : p \in Range(q)
  PROVE  Len(q) = MAX_PROC
<1>1. Len(q) \in Nat /\ q \in [1..Len(q) -> Proc]
  OBVIOUS
<1>2. \A p \in Proc : \E i \in 1..Len(q) : q[i] = p
  BY RangeByIndex
<1>3. q \in Surjection(1..Len(q), Proc)
  BY <1>1, <1>2 DEF Surjection
<1>4. IsFiniteSet(1..Len(q)) /\ Cardinality(1..Len(q)) = Len(q)
  BY <1>1, FS_Interval
<1>5. MAX_PROC <= Len(q)
  BY <1>3, <1>4, ProcFacts, FS_Surjection
<1>6. Len(q) \in 0..MAX_PROC /\ MAX_PROC \in Nat
  BY ListBound, ProcFacts, SMTT(30)
<1> QED BY <1>5, <1>6, SMTT(30)

\* kill_progeny (scheduler.c) forgets no descendant: every process but the first has
\* a live parent, and when the first one is dead the counter is 0, so that
\* wait_or_die halts.
THEOREM FamilyKept == Spec => []OneFamily
<1>1. IInv /\ FamilyInv => OneFamily
  <2> SUFFICES ASSUME IInv, FamilyInv PROVE OneFamily
    OBVIOUS
  <2>1. ASSUME NEW p \in Proc \ {FirstPcb}, ~IsFree(p)
        PROVE  KillParent(p) # NULL /\ ~IsFree(KillParent(p))
    BY <2>1, KillParentIsAbove, ProcFacts DEF FamilyInv
  <2>2. ASSUME IsFree(FirstPcb) PROVE process_count = 0
    <3>1. pcb_free \in Seq(Proc) /\ IsInjective(pcb_free) /\ CountInv
      BY Parts DEF ListType, ListInv, ListsInjective
    <3>2. \A p \in Proc : p \in Range(pcb_free)
      BY <2>2 DEF FamilyInv, IsFree, list_contains
    <3>3. Len(pcb_free) = MAX_PROC
      BY <3>1, <3>2, FullList
    <3> QED BY <3>1, <3>3, ProcFacts DEF CountInv
  <2> QED BY <2>1, <2>2 DEF OneFamily
<1> QED BY <1>1, FamilyInit, FamilyStep, Invariance, PTL DEF Spec

-----------------------------------------------------------------------------
(* The panics that would be errors of the kernel.                           *)

\* A process in no list finds a descriptor: there are as many as pcbs (asl.c).
LEMMA RoomToBlock ==
  ASSUME ListType, ListInv, NEW p \in Proc, list_null(p), NEW s \in Sem
  PROVE  ~insert_blocked_fails(s, p)
<1>1. AslType /\ AslInv
  BY ListParts
<1>2. p_sem_add[p] = NULL
  BY <1>1, BlockedFacts DEF list_null
<1> DEFINE h == [r \in semd_h |-> Head(s_procq[r])]
<1>3. ASSUME NEW r \in semd_h
      PROVE  Head(s_procq[r]) \in Proc \ {p} /\ p_sem_add[Head(s_procq[r])] = r
  <2>1. r \in Sem /\ head_blocked(r) = Head(s_procq[r]) /\ s_procq[r] # << >>
    BY <1>1 DEF head_blocked, find_semd, AslType, AslInv, SemaphoreQueues, list_empty
  <2>2. Head(s_procq[r]) \in Proc /\ p_sem_add[Head(s_procq[r])] = r
    BY <1>1, <2>1, BlockedFacts
  <2> QED BY <1>2, <2>1, <2>2, SemFacts
<1>4. h \in Injection(semd_h, Proc \ {p})
  <2>1. h \in [semd_h -> Proc \ {p}] /\ DOMAIN h = semd_h
    BY <1>3
  <2>2. \A r, t \in semd_h : h[r] = h[t] => r = t
    BY <1>3
  <2> QED BY <2>1, <2>2 DEF Injection, IsInjective
<1>5. IsFiniteSet(Proc \ {p}) /\ Cardinality(Proc \ {p}) = MAX_PROC - 1
  BY ProcFacts, FS_RemoveElement
<1>6. Cardinality(semd_h) <= MAX_PROC - 1 /\ Cardinality(semd_h) \in Nat
  <2>1. Cardinality(semd_h) <= Cardinality(Proc \ {p})
    BY <1>4, <1>5, FS_Injection
  <2>2. Cardinality(semd_h) \in Nat
    BY FS_CardinalityType DEF ListInv
  <2> QED BY <1>5, <2>1, <2>2
<1>7. semd_free # 0
  BY <1>6, ProcFacts DEF ListType, ListInv, SemaphoreQueues
<1> QED BY <1>2, <1>7 DEF insert_blocked_fails, alloc_semd_fails

\* P and V never fail to block the running process.
LEMMA PReturns ==
  ASSUME IInv, mode = "run", NEW s \in Sem, P(s, active_process)
  PROVE  mode' = "sched" /\ ~insert_blocked_fails(s, active_process)
<1>1. ~insert_blocked_fails(s, active_process)
  BY Parts, Running, RoomToBlock
<1> QED BY <1>1 DEF P, Return

LEMMA VNeverFails ==
  ASSUME IInv, mode \in {"run", "wait"}, NEW s \in Sem
  PROVE  ~V_fails(s)
<1>1. V_blocks(s) => mode = "run"
  BY Parts DEF V_blocks, ControlInv
<1>2. mode = "run" => ~insert_blocked_fails(s, active_process)
  BY Parts, Running, RoomToBlock
<1> QED BY <1>1, <1>2 DEF V_fails

\* wait_or_die never finds living processes that are neither ready nor blocked.
LEMMA NoDeadlock ==
  ASSUME IInv, schedule
  PROVE  mode' \in {"run", "wait", "halt"}
<1>1. /\ ListType /\ ListInv /\ RestType /\ ControlInv /\ CountInv /\ mode = "sched"
      /\ p_prio \in [Proc -> Prio]
  BY Parts DEF schedule, ListType
<1> DEFINE pcb == IF ctrl = "BLOCK" THEN NULL ELSE active_process
           rq == IF pcb # NULL /\ ctrl = "RESCHEDULE"
                 THEN enqueue_process(ready_queue, pcb) ELSE ready_queue
<1>2. SUFFICES ASSUME ~(pcb # NULL /\ ctrl = "PRESERVE"), rq[1] = << >>, rq[0] = << >>,
                      yield_process = NULL, softblock_count = 0, process_count # 0
               PROVE  FALSE
  BY DEF schedule, Dispatch, scheduler_takeover, wait_or_die, scheduler_wait, list_empty
<1>3. pcb = NULL
  <2> SUFFICES ASSUME pcb # NULL PROVE FALSE
    OBVIOUS
  <2>1. active_process \in Proc /\ ctrl = "RESCHEDULE" /\ pcb = active_process
    BY <1>1, <1>2 DEF RestType, Controls
  <2>2. ~IsFree(active_process) /\ ~IsBlocked(active_process)
    BY <1>1, <2>1, ProcFacts DEF ControlInv, list_null
  <2>3. rq = enqueue_process(ready_queue, active_process)
    BY <2>1
  <2> HIDE DEF rq
  <2>4. ~(rq[0] = << >> /\ rq[1] = << >>)
    BY <1>1, <2>1, <2>2, <2>3, ReadyNow, ReadyEnqueue
  <2> QED BY <1>2, <2>4
<1>4. rq = ready_queue /\ (ctrl = "BLOCK" \/ active_process = NULL)
  BY <1>3
<1>5. \A q \in Proc : ~list_null(q)
  BY <1>1, <1>2, <1>4, ProcFacts DEF ControlInv
<1>6. \A q \in Proc : ~IsReady(q)
  <2>1. \A b \in Prio : ready_queue[b] = << >>
    BY <1>2, <1>4 DEF Prio
  <2> QED BY <2>1, NilList DEF IsReady, list_contains
<1>7. \A q \in Proc : ~IsBlocked(q)
  <2> DEFINE S == {q \in Proc : p_sem_add[q] # NULL}
  <2>1. S \in SUBSET Proc
    OBVIOUS
  <2>2. IsFiniteSet(S)
    BY <2>1, ProcFacts, FS_Subset
  <2>3. Cardinality(S) = 0
    BY <1>1, <1>2 DEF ListInv
  <2>4. S = {}
    BY <2>2, <2>3, FS_EmptySet
  <2> QED BY <1>1, <2>4, ListParts, BlockedFacts
<1>8. \A q \in Proc : q \in Range(pcb_free)
  BY <1>5, <1>6, <1>7 DEF list_null, IsFree, list_contains
<1>9. Len(pcb_free) = MAX_PROC
  <2>1. pcb_free \in Seq(Proc) /\ IsInjective(pcb_free)
    BY <1>1 DEF ListType, ListInv, ListsInjective
  <2> QED BY <1>8, <2>1, FullList
<1> QED BY <1>1, <1>2, <1>9, ProcFacts DEF CountInv

-----------------------------------------------------------------------------
(* Steps of the devices and of their semaphores.                            *)

\* Nothing happens to the units, and a panic has its reason.
DevicesQuiet ==
  /\ dev' = dev /\ orphan' = orphan /\ idle' = idle
  /\ \A u \in Units : sem'[u] = sem[u] /\ s_procq'[u] = s_procq[u]

Explained ==
  \/ mode' = mode
  \/ mode' \in {"run", "wait", "halt", "Semaphore not found"} \cup KernelModes
  \/ mode' = "Device semaphore > 0" /\ \E u \in Units : sem[u] # 0
  \/ mode' = "Unexpected interrupt" /\ \E u \in Units : dev[u] = "err"

\* DOIO has blocked its caller on u, and started an operation of u or none.
Started(u) ==
  /\ mode' = "sched" /\ orphan' = orphan
  /\ s_procq[u] = << >>
  /\ sem'[u] = 0 /\ s_procq'[u] = << active_process >>
  /\ dev'[u] = "ready" <=> u \in idle'
  /\ \A v \in Units \ {u} :
       /\ sem'[v] = sem[v] /\ s_procq'[v] = s_procq[v] /\ dev'[v] = dev[v]
       /\ v \in idle' <=> v \in idle

\* The interrupt of u is handled.
Served(u) ==
  /\ mode \in {"run", "wait"} /\ dev[u] \in {"ok", "err"}
  /\ V(u) /\ UNCHANGED << otherVars, p_status, it_timer, plt, status >>
  /\ \/ /\ mode' = "sched" /\ Acknowledge(u)
        /\ V_result(u) \notin {NULL, active_process} => ctrl' = "PRESERVE"
     \/ /\ mode' = "No active process" /\ dev' = dev
        /\ V_result(u) \in {NULL, active_process}

LEMMA PassUpQuiet ==
  ASSUME pass_up_or_die
  PROVE  DevicesQuiet /\ Explained
BY DEF pass_up_or_die, StartKill, DevicesQuiet, Explained, otherVars, semVars, aslVars, hwVars,
       KernelModes

LEMMA OthersQuiet ==
  ASSUME NEW s \in UserSems \cup {TIMER_SEM}, OthersSame(s), dev' = dev,
         orphan' = orphan, idle' = idle
  PROVE  DevicesQuiet
<1>1. \A u \in Units : u \in Sem \ {s}
  BY SemFacts
<1> QED BY <1>1 DEF DevicesQuiet, OthersSame

LEMMA DoIoStarts ==
  ASSUME IInv, mode = "run", NEW d \in IoDevs, syscall_do_io(d)
  PROVE  (DevicesQuiet /\ Explained) \/ Started(d.semaphore)
<1> DEFINE u == d.semaphore
<1>0. u \in Units /\ d.commands \subseteq {u}
  BY IoDevFacts
<1>1. /\ ListType /\ ListInv /\ sem \in [Sem -> {0, 1}] /\ active_process \in Proc
      /\ list_null(active_process) /\ u \in Sem /\ sem[u] \in {0, 1}
      /\ dev \in [Units -> {"ready", "busy", "ok", "err"}]
  BY <1>0, Parts, Running, SemFacts DEF RestType
<1>2. CASE head_blocked(u) # NULL
  BY <1>2, PassUpQuiet DEF syscall_do_io
<1>3. CASE head_blocked(u) = NULL /\ sem[u] = 1
  <2>1. ~(sem[u] <= 0)
    BY <1>3
  <2>2. mode' = "Device semaphore > 0" /\ OnlyControl
    BY <1>3, <2>1 DEF syscall_do_io, scheduler_panic
  <2>3. sem[u] # 0
    BY <1>3
  <2> QED BY <1>0, <2>2, <2>3 DEF DevicesQuiet, Explained, OnlyControl, otherVars, semVars, aslVars,
                                  hwVars
<1>4. CASE head_blocked(u) = NULL /\ sem[u] = 0
  <2>1. ~(sem[u] > 0)
    BY <1>4
  <2>2. /\ P(u, active_process) /\ StartOperation(d)
        /\ idle' = (idle \ {u}) \cup (IF dev'[u] = "ready" THEN {u} ELSE {})
        /\ orphan' = orphan
    BY <1>4, <2>1 DEF syscall_do_io
  <2>3. mode' = "sched" /\ BlockOn(u, active_process)
    BY <1>1, <1>4, <2>2, PReturns DEF P
  <2>4. s_procq' = [s_procq EXCEPT ![u] = Append(@, active_process)] /\ sem' = sem
    BY <2>3, BlockIsAppend
  <2>5. s_procq[u] = << >> /\ s_procq \in [Sem -> Seq(Proc)]
    BY <1>1, <1>4, ListParts, BlockedFacts DEF ListType
  <2>6. s_procq'[u] = << active_process >>
    BY <1>1, <2>4, <2>5
  <2>7. \A v \in Units \ {u} : s_procq'[v] = s_procq[v]
    BY <2>4, <2>5, SemFacts
  <2>8. \A v \in Units \ {u} : dev'[v] = dev[v] /\ (v \in idle' <=> v \in idle)
    BY <1>0, <1>1, <2>2 DEF StartOperation
  <2>9. dev'[u] = "ready" <=> u \in idle'
    BY <2>2
  <2> QED BY <1>4, <2>2, <2>3, <2>4, <2>5, <2>6, <2>7, <2>8, <2>9 DEF Started
<1> QED BY <1>1, <1>2, <1>3, <1>4

LEMMA SystemCallDevices ==
  ASSUME IInv, SystemCall
  PROVE  (DevicesQuiet /\ Explained) \/ \E u \in Units : Started(u)
<1>1. mode = "run" /\ syscall_handler
  BY DEF SystemCall
<1>2. /\ ListType /\ ListInv /\ sem \in [Sem -> {0, 1}] /\ active_process \in Proc
      /\ list_null(active_process)
  BY <1>1, Parts, Running DEF RestType
<1>3. ASSUME NEW prio \in Prio, NEW st \in Statuses, NEW sup \in Supports \cup {NULL},
             syscall_create_process(prio, st, sup)
      PROVE  DevicesQuiet /\ Explained
  BY <1>3 DEF syscall_create_process, Return, OnlyControl, DevicesQuiet, Explained, otherVars,
              semVars, aslVars, hwVars, KernelModes
<1>4. ASSUME NEW pid \in Pid, syscall_terminate_process(pid)
      PROVE  DevicesQuiet /\ Explained
  BY <1>4, PassUpQuiet DEF syscall_terminate_process, StartKill, DevicesQuiet, Explained,
                           semVars, aslVars, hwVars, KernelModes
<1>5. ASSUME NEW s \in UserSems \cup {TIMER_SEM}, P(s, active_process),
             UNCHANGED << otherVars, p_status, hwVars >>
      PROVE  DevicesQuiet /\ Explained
  <2>1. s \in Sem /\ pcb_free' = pcb_free /\ p_prio' = p_prio /\ dev' = dev
        /\ orphan' = orphan /\ idle' = idle
    BY <1>5, SemFacts DEF otherVars, hwVars
  <2>2. OthersSame(s)
    BY <1>2, <1>5, <2>1, PEffect
  <2>3. mode' = "sched"
    BY <1>1, <1>5, <2>1, PReturns
  <2> QED BY <2>1, <2>2, <2>3, OthersQuiet DEF Explained, KernelModes
<1>6. ASSUME NEW s \in UserSems, syscall_verhogen(s)
      PROVE  DevicesQuiet /\ Explained
  <2>1. s \in Sem /\ pcb_free' = pcb_free /\ p_prio' = p_prio /\ dev' = dev
        /\ orphan' = orphan /\ idle' = idle
    BY <1>6, SemFacts DEF syscall_verhogen, otherVars, hwVars
  <2>2. V(s) /\ OthersSame(s)
    BY <1>2, <1>6, <2>1, VEffect DEF syscall_verhogen
  <2>3. mode' = "sched"
    BY <1>1, <1>6, <2>1, VNeverFails DEF syscall_verhogen, Return
  <2> QED BY <2>1, <2>2, <2>3, OthersQuiet DEF Explained, KernelModes
<1>7. ASSUME \/ syscall_do_io_bad_address \/ syscall_get_cpu_time
             \/ syscall_get_support_data \/ syscall_get_process_id \/ syscall_yield
      PROVE  DevicesQuiet /\ Explained
  BY <1>7 DEF syscall_do_io_bad_address, syscall_get_cpu_time, syscall_get_support_data,
              syscall_get_process_id, syscall_yield, OnlyControl, Return, scheduler_panic,
              DevicesQuiet, Explained, otherVars, semVars, aslVars, hwVars, KernelModes
<1>8. ASSUME NEW d \in IoDevs, syscall_do_io(d)
      PROVE  (DevicesQuiet /\ Explained) \/ \E u \in Units : Started(u)
  BY <1>1, <1>8, DoIoStarts, IoDevFacts
<1> QED BY <1>1, <1>3, <1>4, <1>5, <1>6, <1>7, <1>8
        DEF syscall_handler, syscall_passeren, syscall_wait_for_clock

\* A terminal is served unless the half of it that raised the interrupt failed.
LEMMA TerminalError ==
  ASSUME Pending = {IL_TERMINAL},
         TerminalUnit(find_device_number(CDEV_BITMAP(IL_TERMINAL))) = NULL
  PROVE  \E v \in Units : dev[v] = "err"
<1>1. IL_DISK = 3 /\ IL_TERMINAL = 7 /\ DEVPERINT = 8 /\ IL_TIMER = 2 /\ IL_CPUTIMER = 1
  BY DEF IL_DISK, IL_TERMINAL, DEVPERINT, IL_TIMER, IL_CPUTIMER
<1>2. \E v \in Finished : LineOf(v) = 7
  <2>1. 7 \in Pending
    BY <1>1
  <2> QED BY <1>1, <2>1 DEF Pending
<1>3. ASSUME NEW v \in Finished, LineOf(v) = 7
      PROVE  v \in 32..47 /\ DevNumber(v) = (v - 32) \div 2 /\ DevNumber(v) \in 0..7
  <2>1. v \in 0..47
    BY UnitsAssumption DEF Finished, TIMER_SEM
  <2>2. v < 32 => LineOf(v) = 3 + v \div 8
    BY <1>1 DEF LineOf
  <2>3. v \in 32..47
    BY <1>3, <2>1, <2>2
  <2>4. DevNumber(v) = (v - 32) \div 2
    BY <1>1, <1>3 DEF DevNumber
  <2> QED BY <2>3, <2>4
<1> DEFINE B == CDEV_BITMAP(7)
<1>4. B \in SUBSET (0..7) /\ B # {}
  BY <1>2, <1>3 DEF CDEV_BITMAP
<1>5. Max(B) \in B
  BY <1>4, MaxMinIn
<1>6. PICK v \in Finished : LineOf(v) = 7 /\ Max(B) = DevNumber(v)
  BY <1>5 DEF CDEV_BITMAP
<1>7. v \in 32..47 /\ Max(B) = (v - 32) \div 2 /\ Max(B) \in 0..7
  BY <1>3, <1>6
<1>8. TerminalUnit(Max(B)) = NULL
  BY <1>1 DEF find_device_number
<1> HIDE DEF B
<1> DEFINE t == Max(B)
<1>9. get_semaphore(7, t, TRUE) = 32 + (2 * t + 1) /\ get_semaphore(7, t, FALSE) = 32 + (2 * t + 0)
  BY <1>1 DEF get_semaphore
<1>10. v = get_semaphore(7, t, TRUE) \/ v = get_semaphore(7, t, FALSE)
  <2> HIDE DEF t
  <2>1. v \in 32..47 /\ t = (v - 32) \div 2 /\ t \in 0..7
    BY <1>7 DEF t
  <2>2. v = 32 + (2 * t + 1) \/ v = 32 + (2 * t + 0)
    BY <2>1
  <2> QED BY <1>9, <2>2
<1>11. v \in Units /\ v # NULL /\ dev[v] \in {"ok", "err"}
  BY SemFacts DEF Finished
<1>12. dev[v] # "ok"
  <2> SUFFICES ASSUME dev[v] = "ok" PROVE FALSE
    OBVIOUS
  <2>1. v \in {w \in Units : dev[w] = "ok"}
    BY <1>11
  <2>2. \/ TerminalUnit(t) = v
        \/ TerminalUnit(t) = get_semaphore(7, t, TRUE)
           /\ get_semaphore(7, t, TRUE) \in {w \in Units : dev[w] = "ok"}
    BY <1>1, <1>10, <2>1 DEF TerminalUnit
  <2>3. \A w \in Units : w # NULL
    BY SemFacts
  <2> QED BY <1>8, <1>11, <2>2, <2>3
<1> QED BY <1>11, <1>12

\* An interrupt: a timer's, or V and the acknowledgement of a unit.
LEMMA InterruptDevices ==
  ASSUME IInv, Interrupt
  PROVE  (DevicesQuiet /\ Explained) \/ \E u \in Units : Served(u)
<1>1. mode \in {"run", "wait"} /\ interrupt_handler /\ DeviceInv /\ mode # "No active process"
  BY Parts DEF Interrupt
<1>2. CASE interrupt_local_timer \/ interrupt_timer
  BY <1>2 DEF interrupt_local_timer, interrupt_timer, Return, DevicesQuiet, Explained,
              otherVars, semVars, aslVars, KernelModes
<1>3. CASE Pending \cap IL_DISK..IL_PRINTER # {} /\ interrupt_generic
  <2> DEFINE il == Min(Pending \cap IL_DISK..IL_PRINTER)
             u == get_semaphore(il, find_device_number(CDEV_BITMAP(il)), FALSE)
  <2>1. u \in Units /\ dev[u] \in {"ok", "err"}
    BY <1>3, GenericUnit
  <2>2. /\ V(u)
        /\ IF V_fails(u) THEN scheduler_panic("VERHOGEN failed") /\ UNCHANGED dev
           ELSE IF V_result(u) = active_process /\ V_result(u) = NULL
           THEN scheduler_panic("No active process") /\ UNCHANGED dev
           ELSE IF V_result(u) = NULL
           THEN scheduler_panic("NULL dereference") /\ UNCHANGED dev
           ELSE /\ Return(IF V_result(u) = active_process THEN "RESCHEDULE" ELSE "PRESERVE")
                /\ Acknowledge(u)
        /\ UNCHANGED << otherVars, p_status, it_timer, plt, status >>
    BY <1>3 DEF interrupt_generic
  <2> HIDE DEF u
  <2>3. sem[u] = 0 /\ ~V_blocks(u)
    BY <1>1, <2>1, UnitIsZero
  <2>4. ~V_fails(u) /\ (V_result(u) = NULL => active_process = NULL)
    BY <2>3 DEF V_fails, V_result
  <2> QED BY <1>1, <2>1, <2>2, <2>4 DEF Served, scheduler_panic, Return
<1>4. CASE Pending = {IL_TERMINAL} /\ interrupt_terminal
  <2> DEFINE u == TerminalUnit(find_device_number(CDEV_BITMAP(IL_TERMINAL)))
  <2>1. u # NULL => u \in Units /\ dev[u] \in {"ok", "err"}
    BY DEF TerminalUnit
  <2>2. CASE u = NULL
    <3>1. mode' = "Unexpected interrupt" /\ UNCHANGED << semVars, dev, otherVars >>
      BY <1>4, <2>2 DEF interrupt_terminal, scheduler_panic
    <3>2. \E v \in Units : dev[v] = "err"
      BY <1>4, <2>2, TerminalError
    <3> QED BY <3>1, <3>2 DEF DevicesQuiet, Explained, semVars, aslVars, otherVars
  <2>3. CASE u # NULL
    <3>1. /\ V(u)
          /\ IF V_fails(u)
             THEN scheduler_panic("VERHOGEN failed") /\ UNCHANGED dev
             ELSE IF V_result(u) \in {NULL, active_process}
                     /\ active_process = NULL
             THEN scheduler_panic("No active process") /\ UNCHANGED dev
             ELSE /\ Return(IF V_result(u) \in {NULL, active_process}
                            THEN "RESCHEDULE" ELSE "PRESERVE")
                  /\ Acknowledge(u)
          /\ UNCHANGED << otherVars, p_status, it_timer, plt, status >>
      BY <1>4, <2>3 DEF interrupt_terminal
    <3> HIDE DEF u
    <3>2. sem[u] = 0 /\ ~V_blocks(u)
      BY <1>1, <2>1, <2>3, UnitIsZero
    <3>3. ~V_fails(u)
      BY <3>2 DEF V_fails
    <3> QED BY <1>1, <2>1, <2>3, <3>1, <3>3 DEF Served, scheduler_panic, Return
  <2> QED BY <2>2, <2>3
<1> QED BY <1>1, <1>2, <1>3, <1>4 DEF interrupt_handler

\* The end of an activation of kill_progeny: a unit whose queue it touches
\* becomes an orphan, unless it is idle.
KillLeaves ==
  /\ dev' = dev /\ sem' = sem /\ orphan \subseteq orphan'
  /\ mode' = mode \/ mode' = "sched"
  /\ \A u \in Units \ orphan' :
       \/ s_procq'[u] = s_procq[u] /\ (u \in idle' <=> u \in idle)
       \/ dev[u] = "ready" /\ (Len(s_procq[u]) <= 1 => s_procq'[u] = << >>)

\* A queue of at most one process is empty without its head.
LEMMA TailOfOne ==
  ASSUME NEW q \in Seq(Proc), q # << >>, Len(q) <= 1
  PROVE  Tail(q) = << >>
<1>1. Tail(q) \in Seq(Proc) /\ Len(Tail(q)) = Len(q) - 1 /\ Len(q) \in Nat \ {0}
  BY TakeHead
<1>2. Len(Tail(q)) = 0
  BY <1>1
<1> QED BY <1>1, <1>2, EmptyList

\* Taking the only process off a queue.
LEMMA SdelOnly ==
  ASSUME NEW q \in Seq(Proc), IsInjective(q), NEW p \in Range(q), Len(q) <= 1
  PROVE  list_sdel(p, q) = << >>
<1>1. PICK i \in 1..Len(q) : q[i] = p
  BY RangeByIndex
<1>2. Len(q) = 1 /\ i = 1
  <2>1. Len(q) \in Nat
    OBVIOUS
  <2> DEFINE n == Len(q)
  <2>2. i \in 1..n /\ n \in Nat /\ n <= 1
    BY <1>1, <2>1
  <2> HIDE DEF n
  <2>3. n = 1 /\ i = 1
    BY <2>2
  <2> QED BY <2>3 DEF n
<1>3. q # << >> /\ Head(q) = p
  BY <1>1, <1>2
<1>4. list_sdel(Head(q), q) = Tail(q)
  BY <1>3, SdelHead
<1>5. Tail(q) = << >>
  BY <1>3, TailOfOne
<1> QED BY <1>3, <1>4, <1>5

LEMMA KillOrphans ==
  ASSUME IInv, kill_process, sem' = sem
  PROVE  KillLeaves
<1> DEFINE p == Head(kstack)
<1>1. p \in Proc /\ ~(p_parent[p] # NULL /\ out_child_fails(p))
  BY VictimIsLinked DEF kill_process
<1>2. UnlinkKilled(p) /\ (mode' = mode \/ mode' = "sched") /\ dev' = dev
  BY <1>1 DEF kill_process, KillReturns, Return, hwVars
<1> HIDE DEF p
<1>3. CASE is_blocked(p)
  <2> DEFINE s == p_sem_add[p]
  <2>1. /\ out_blocked(p)
        /\ orphan' = orphan \cup {u \in Units : u = s /\ dev[u] # "ready"}
        /\ idle' = idle \ {s}
    BY <1>2, <1>3 DEF UnlinkKilled
  <2>2. s_procq \in [Sem -> Seq(Proc)] /\ \A k \in Sem : IsInjective(s_procq[k])
    BY Parts DEF ListType, ListInv, ListsInjective
  <2>3. s_procq' = [s_procq EXCEPT ![s] = list_sdel(p, @)]
    BY <2>1 DEF out_blocked
  <2>4. p \in Range(s_procq[s])
    BY <1>3 DEF is_blocked, list_contains
  <2>5. ASSUME NEW u \in Units \ orphan'
        PROVE  \/ s_procq'[u] = s_procq[u] /\ (u \in idle' <=> u \in idle)
               \/ dev[u] = "ready" /\ (Len(s_procq[u]) <= 1 => s_procq'[u] = << >>)
    <3>1. CASE u # s
      BY <2>1, <2>2, <2>3, <3>1, SemFacts
    <3>2. CASE u = s
      <4>1. u \in Sem /\ dev[u] = "ready" /\ s_procq'[u] = list_sdel(p, s_procq[u])
        BY <2>1, <2>2, <2>3, <3>2, SemFacts
      <4>2. Len(s_procq[u]) <= 1 => list_sdel(p, s_procq[u]) = << >>
        BY <2>2, <2>4, <3>2, <4>1, SdelOnly
      <4> QED BY <4>1, <4>2
    <3> QED BY <3>1, <3>2
  <2> QED BY <1>2, <2>1, <2>5 DEF KillLeaves
<1>4. CASE ~is_blocked(p)
  BY <1>2, <1>4 DEF UnlinkKilled, KillLeaves, aslVars
<1> QED BY <1>3, <1>4

\* Every step, as the devices and their semaphores see it.
LEMMA DeviceStep ==
  ASSUME IInv, [Next]_vars
  PROVE  \/ DevicesQuiet /\ Explained
         \/ /\ mode \in {"run", "sched", "wait"}
            /\ UNCHANGED << mode, orphan, idle, sem, s_procq >>
            /\ \E u \in Units : DeviceFinishes(u)
         \/ \E u \in Units : Started(u)
         \/ \E u \in Units : Served(u)
         \/ KillLeaves
<1>1. CASE Kernel
  <2>1. CASE schedule /\ sem' = sem
    <3>1. mode' \in {"run", "wait", "halt"}
      BY <2>1, NoDeadlock
    <3>2. DevicesQuiet
      BY <2>1 DEF schedule, Dispatch, scheduler_takeover, wait_or_die, scheduler_wait,
                  DevicesQuiet, aslVars, hwVars
    <3> QED BY <3>1, <3>2 DEF Explained
  <2>2. CASE KillChild /\ sem' = sem
    BY <2>2 DEF KillChild, DevicesQuiet, Explained, aslVars, hwVars
  <2>3. CASE kill_process /\ sem' = sem
    BY <2>3, KillOrphans
  <2> QED BY <1>1, <2>1, <2>2, <2>3 DEF Kernel
<1>2. CASE TimerLoop
  <2>1. /\ ListType /\ ListInv /\ sem \in [Sem -> {0, 1}] /\ active_process \in Proc \cup {NULL}
        /\ active_process # NULL => list_null(active_process)
    BY <1>2, Parts DEF TimerLoop, ControlInv, RestType
  <2>2. TIMER_SEM \in Sem /\ pcb_free' = pcb_free /\ p_prio' = p_prio /\ dev' = dev
        /\ orphan' = orphan /\ idle' = idle
    BY <1>2, SemFacts DEF TimerLoop, otherVars, hwVars
  <2>3. CASE V(TIMER_SEM) /\ mode' = mode
    <3>1. OthersSame(TIMER_SEM)
      BY <2>1, <2>2, <2>3, VEffect
    <3> QED BY <2>2, <2>3, <3>1, OthersQuiet DEF Explained
  <2>4. CASE mode' = "sched" /\ UNCHANGED semVars
    BY <2>2, <2>4 DEF DevicesQuiet, Explained, semVars, aslVars, KernelModes
  <2> QED BY <1>2, <2>3, <2>4 DEF TimerLoop, Return
<1>3. CASE Interrupt
  BY <1>3, InterruptDevices
<1>4. CASE SystemCall
  BY <1>4, SystemCallDevices
<1>5. CASE Trap
  BY <1>5, PassUpQuiet DEF Trap
<1>6. CASE Hardware
  BY <1>6 DEF Hardware, TimerRuns, TimerExpires, LocalTimerExpires, DevicesQuiet, Explained,
              schedVars, aslVars
<1>7. CASE UNCHANGED vars
  BY <1>7 DEF vars, schedVars, aslVars, hwVars, DevicesQuiet, Explained
<1> QED BY <1>1, <1>2, <1>3, <1>4, <1>5, <1>6, <1>7 DEF Next, Stopped

\* The interrupt of a unit that keeps to the protocol wakes its one waiter and
\* goes back to the running process.
LEMMA ServedWakes ==
  ASSUME IInv, DeviceProtocol, NEW u \in Units \ orphan, Served(u)
  PROVE  /\ mode' = "sched" /\ ctrl' = "PRESERVE" /\ Acknowledge(u)
         /\ sem'[u] = 0 /\ s_procq'[u] = << >>
         /\ s_procq[u] # << >> /\ head_blocked(u) = Head(s_procq[u]) /\ WakeHead(u)
<1>1. /\ ListType /\ ListInv /\ RestType /\ DeviceInv /\ ControlInv
      /\ mode \in {"run", "wait"} /\ mode # "No active process"
  BY Parts DEF Served
<1>2. AslType /\ AslInv /\ u \in Sem
  BY <1>1, ListParts, SemFacts
<1>3. sem[u] = 0 /\ Len(s_procq[u]) <= 1 /\ s_procq[u] # << >>
  BY DEF DeviceProtocol, Served, list_empty
<1>4. /\ head_blocked(u) # NULL /\ head_blocked(u) \in Proc
      /\ p_sem_add[head_blocked(u)] = u
  BY <1>2, <1>3, BlockedFacts
<1>5. head_blocked(u) = Head(s_procq[u])
  BY <1>4 DEF head_blocked
<1>6. V_result(u) = head_blocked(u)
  BY <1>3, <1>4, ZeroIsNotOne, Zenon DEF V_result
<1>7. WakeHead(u)
  <2>1. V(u)
    BY DEF Served
  <2>2. sem[u] # 1
    BY <1>3
  <2> QED BY <1>4, <2>1, <2>2 DEF V
<1>8. head_blocked(u) # active_process
  <2>1. active_process # NULL => list_null(active_process) /\ active_process \in Proc
    BY <1>1 DEF ControlInv, RestType
  <2>2. IsBlocked(head_blocked(u))
    BY <1>2, <1>4, BlockedFacts, SemFacts
  <2> QED BY <1>4, <2>1, <2>2 DEF list_null
<1>9. V_result(u) \notin {NULL, active_process}
  BY <1>4, <1>6, <1>8
<1>10. mode' = "sched" /\ ctrl' = "PRESERVE" /\ Acknowledge(u)
  BY <1>9 DEF Served
<1>11. s_procq' = [s_procq EXCEPT ![u] = Tail(@)] /\ sem' = sem
  BY <1>1, <1>2, <1>4, <1>7, WakeIsTail
<1>12. s_procq'[u] = << >>
  <2>1. s_procq \in [Sem -> Seq(Proc)] /\ s_procq[u] \in Seq(Proc)
    BY <1>1, <1>2 DEF ListType
  <2>2. Tail(s_procq[u]) = << >>
    BY <1>3, <2>1, TailOfOne
  <2> QED BY <1>2, <1>11, <2>1, <2>2
<1> QED BY <1>3, <1>5, <1>7, <1>10, <1>11, <1>12

-----------------------------------------------------------------------------
(* The protocol of device I/O, and with it the reasons of the panics.       *)

DeviceSafe == DeviceProtocol /\ PanicsExplained

\* What DeviceProtocol says of one unit.
UnitSafe(u) ==
  /\ sem[u] = 0
  /\ Len(s_procq[u]) <= 1
  /\ dev[u] # "ready" <=> s_procq[u] # << >> /\ u \notin idle

LEMMA ProtocolByUnit ==
  /\ DeviceProtocol <=> \A u \in Units \ orphan : UnitSafe(u)
  /\ DeviceProtocol' <=> \A u \in Units \ orphan' : UnitSafe(u)'
  BY DEF DeviceProtocol, UnitSafe, list_empty

\* A unit that a step leaves alone.
LEMMA UnitLeft ==
  ASSUME NEW u \in Units, UnitSafe(u),
         sem'[u] = sem[u], s_procq'[u] = s_procq[u], dev'[u] = dev[u],
         u \in idle' <=> u \in idle
  PROVE  UnitSafe(u)'
  BY DEF UnitSafe

LEMMA DeviceSafeInit ==
  ASSUME Init
  PROVE  DeviceSafe
<1>1. \A u \in Units : sem[u] = 0 /\ s_procq[u] = << >> /\ dev[u] = "ready"
  BY SemFacts DEF Init, init_asl, InitDevices
<1>2. mode = "sched"
  BY DEF Init
<1>3. DeviceProtocol
  BY <1>1, NilList DEF DeviceProtocol, list_empty
<1> QED BY <1>2, <1>3 DEF DeviceSafe, PanicsExplained

LEMMA DeviceSafeStep ==
  ASSUME IInv, DeviceSafe, [Next]_vars
  PROVE  DeviceSafe'
<1>1. /\ DeviceProtocol /\ PanicsExplained /\ \A u \in Units \ orphan : UnitSafe(u)
      /\ orphan \subseteq Units /\ dev \in [Units -> {"ready", "busy", "ok", "err"}]
      /\ active_process \in Proc \cup {NULL}
  BY Parts, ProtocolByUnit DEF DeviceSafe, RestType
<1>2. CASE DevicesQuiet /\ Explained
  <2>1. \A u \in Units \ orphan' : UnitSafe(u)'
    BY <1>1, <1>2, UnitLeft DEF DevicesQuiet
  <2>2. PanicsExplained'
    <3>1. ASSUME NEW u \in Units, sem[u] # 0 PROVE orphan # {}
      BY <1>1, <3>1 DEF UnitSafe
    <3> QED BY <1>1, <1>2, <3>1 DEF DevicesQuiet, Explained, PanicsExplained, KernelModes
  <2> QED BY <2>1, <2>2, ProtocolByUnit DEF DeviceSafe
<1>3. ASSUME mode \in {"run", "sched", "wait"}, UNCHANGED << mode, orphan, idle, sem, s_procq >>,
             NEW u \in Units, DeviceFinishes(u)
      PROVE  DeviceSafe'
  <2>1. PICK o \in Outcomes : dev' = [dev EXCEPT ![u] = o]
    BY <1>3 DEF DeviceFinishes
  <2>2. dev[u] = "busy" /\ o # "ready" /\ dev'[u] = o
    BY <1>1, <1>3, <2>1, OutcomesAssumption DEF DeviceFinishes
  <2>3. u \in orphan \/ UnitSafe(u)'
    BY <1>1, <1>3, <2>2 DEF UnitSafe
  <2>4. \A v \in Units \ {u} : dev'[v] = dev[v]
    BY <1>1, <2>1
  <2>5. \A v \in Units \ orphan' : UnitSafe(v)'
    BY <1>1, <1>3, <2>3, <2>4, UnitLeft
  <2>6. PanicsExplained'
    BY <1>3 DEF PanicsExplained
  <2> QED BY <2>5, <2>6, ProtocolByUnit DEF DeviceSafe
<1>4. ASSUME NEW u \in Units, Started(u)
      PROVE  DeviceSafe'
  <2>1. /\ dev'[u] = "ready" <=> u \in idle'
        /\ sem'[u] = 0 /\ s_procq'[u] = << active_process >>
    BY <1>4 DEF Started
  <2>2. Len(<< active_process >>) = 1 /\ << active_process >> # << >>
    OBVIOUS
  <2>3. UnitSafe(u)'
    BY <2>1, <2>2 DEF UnitSafe
  <2>4. \A v \in Units \ {u} :
          /\ dev'[v] = dev[v] /\ sem'[v] = sem[v] /\ s_procq'[v] = s_procq[v]
          /\ v \in idle' <=> v \in idle
    BY <1>4 DEF Started
  <2>5. \A v \in Units \ orphan' : UnitSafe(v)'
    BY <1>1, <1>4, <2>3, <2>4, UnitLeft DEF Started
  <2>6. PanicsExplained'
    BY <1>4 DEF Started, PanicsExplained
  <2> QED BY <2>5, <2>6, ProtocolByUnit DEF DeviceSafe
<1>5. ASSUME NEW u \in Units, Served(u)
      PROVE  DeviceSafe'
  <2>1. /\ ListType /\ ListInv /\ sem \in [Sem -> {0, 1}]
        /\ active_process # NULL => list_null(active_process)
    BY <1>5, Parts DEF Served, ControlInv, RestType
  <2>2. /\ pcb_free' = pcb_free /\ p_prio' = p_prio /\ V(u) /\ u \in Sem
        /\ orphan' = orphan /\ idle' = idle
        /\ dev' = [dev EXCEPT ![u] = "ready"] \/ dev' = dev
    BY <1>5, SemFacts DEF Served, otherVars, Acknowledge
  <2>3. OthersSame(u)
    BY <1>1, <2>1, <2>2, VEffect
  <2>4. \A v \in Units \ {u} : dev'[v] = dev[v] /\ sem'[v] = sem[v] /\ s_procq'[v] = s_procq[v]
    BY <1>1, <2>2, <2>3, SemFacts DEF OthersSame
  <2>5. CASE u \notin orphan
    <3>1. mode' = "sched" /\ Acknowledge(u) /\ sem'[u] = 0 /\ s_procq'[u] = << >>
      BY <1>1, <1>5, <2>5, ServedWakes
    <3>2. dev'[u] = "ready"
      BY <1>1, <3>1 DEF Acknowledge
    <3>3. UnitSafe(u)'
      BY <3>1, <3>2, NilList DEF UnitSafe
    <3>4. \A v \in Units \ orphan' : UnitSafe(v)'
      BY <1>1, <2>2, <2>4, <3>3, UnitLeft
    <3>5. PanicsExplained'
      BY <3>1 DEF PanicsExplained
    <3> QED BY <3>4, <3>5, ProtocolByUnit DEF DeviceSafe
  <2>6. CASE u \in orphan
    <3>1. \A v \in Units \ orphan' : UnitSafe(v)'
      BY <1>1, <2>2, <2>4, <2>6, UnitLeft
    <3>2. mode' \in {"sched", "No active process"} /\ orphan' # {}
      BY <1>5, <2>2, <2>6 DEF Served
    <3>3. PanicsExplained'
      BY <3>2 DEF PanicsExplained
    <3> QED BY <3>1, <3>3, ProtocolByUnit DEF DeviceSafe
  <2> QED BY <2>5, <2>6
<1>6. CASE KillLeaves
  <2>1. ASSUME NEW v \in Units \ orphan'
        PROVE  UnitSafe(v)'
    <3>1. UnitSafe(v) /\ dev'[v] = dev[v] /\ sem'[v] = sem[v]
      BY <1>1, <1>6 DEF KillLeaves
    <3>2. CASE s_procq'[v] = s_procq[v] /\ (v \in idle' <=> v \in idle)
      BY <3>1, <3>2, UnitLeft
    <3>3. CASE dev[v] = "ready" /\ (Len(s_procq[v]) <= 1 => s_procq'[v] = << >>)
      BY <3>1, <3>3, NilList DEF UnitSafe
    <3> QED BY <1>6, <3>2, <3>3 DEF KillLeaves
  <2>2. PanicsExplained'
    BY <1>1, <1>6 DEF KillLeaves, PanicsExplained
  <2> QED BY <2>1, <2>2, ProtocolByUnit DEF DeviceSafe
<1> QED BY <1>2, <1>3, <1>4, <1>5, <1>6, DeviceStep

LEMMA DeviceSafety == Spec => [](IInv /\ DeviceSafe)
  BY DeviceSafeInit, DeviceSafeStep, Invariance, PTL DEF Spec

\* DOIO and the interrupts of devices keep to their protocol, for every set of
\* installed units: unless the waiter of a unit was killed, a process waits on
\* its semaphore exactly while the operation that it started is in progress or
\* its interrupt is pending, alone, and the semaphore is 0 (syscall_do_io of
\* syscall.c, interrupt_generic and interrupt_terminal of exception.c).
THEOREM DeviceIoSafe == Spec => []DeviceProtocol
  BY DeviceSafety, PTL DEF DeviceSafe

\* No panic of the kernel stands for an error of the kernel: P and V find a
\* descriptor for the process they block, kill_progeny finds every pcb where
\* the tree says, wait_or_die finds no deadlock, return_status no null pointer;
\* the other panics need a waiter that was killed, a bad command address or a
\* terminal that failed (scheduler_panic and its callers).
THEOREM NoInternalPanic == Spec => []PanicsExplained
  BY DeviceSafety, PTL DEF DeviceSafe

-----------------------------------------------------------------------------
(* Action properties.                                                       *)

LEMMA WakesWaiter ==
  ASSUME IInv, DeviceSafe, [Next]_vars, NEW u \in Units \ orphan,
         dev[u] \in {"ok", "err"}, dev'[u] = "ready"
  PROVE  /\ list_contains(Head(s_procq[u]), ready_queue'[p_prio[Head(s_procq[u])]])
         /\ ctrl' = "PRESERVE" /\ active_process' = active_process
<1>1. /\ dev \in [Units -> {"ready", "busy", "ok", "err"}] /\ p_prio \in [Proc -> Prio]
      /\ ready_queue \in [Prio -> Seq(Proc)] /\ AslType /\ AslInv /\ u \in Sem
      /\ \A b \in Prio : IsInjective(ready_queue[b])
  BY Parts, ListParts, SemFacts DEF RestType
<1>2. Served(u)
  <2>1. ~(DevicesQuiet /\ Explained) /\ ~KillLeaves
    BY DEF DevicesQuiet, KillLeaves
  <2>2. ASSUME NEW v \in Units, DeviceFinishes(v) PROVE FALSE
    BY <1>1, <2>2 DEF DeviceFinishes
  <2>3. ASSUME NEW v \in Units, Started(v) PROVE FALSE
    <3>1. s_procq[u] # << >>
      BY DEF DeviceSafe, DeviceProtocol, list_empty
    <3> QED BY <2>3, <3>1 DEF Started
  <2>4. ASSUME NEW v \in Units, Served(v) PROVE v = u
    BY <1>1, <2>4 DEF Served, Acknowledge
  <2> QED BY <2>1, <2>2, <2>3, <2>4, DeviceStep
<1>3. /\ ctrl' = "PRESERVE" /\ s_procq[u] # << >> /\ head_blocked(u) = Head(s_procq[u])
      /\ WakeHead(u)
  BY <1>2, ServedWakes DEF DeviceSafe
<1>4. active_process' = active_process
  BY <1>2 DEF Served, otherVars
<1>5. PICK h : h = Head(s_procq[u])
  OBVIOUS
<1>6. h \in Proc
  BY <1>1, <1>3, <1>5, BlockedFacts
<1>7. PICK r : r = ready_queue'
  OBVIOUS
<1>8. r = enqueue_process(ready_queue, h)
  BY <1>3, <1>5, <1>7 DEF WakeHead
<1>9. AddsReady(ready_queue, h, r)
  BY <1>1, <1>6, <1>8, Enqueue
<1>10. h \in Range(r[p_prio[h]])
  BY <1>1, <1>6, <1>9 DEF AddsReady
<1> QED BY <1>3, <1>4, <1>5, <1>7, <1>10 DEF list_contains

\* The interrupt of a unit whose waiter lives makes the waiter ready, and it
\* goes back to the running process, whose registers it leaves alone, at least
\* when the waiter's priority is not higher (return_status and the two
\* interrupt handlers of exception.c).
THEOREM WakesTheWaiter == Spec => InterruptWakesWaiter
<1>1. ASSUME IInv, DeviceSafe, [Next]_vars, NEW u \in Units \ orphan, InterruptServed(u)
      PROVE  /\ list_contains(Head(s_procq[u]), ready_queue'[p_prio[Head(s_procq[u])]])
             /\ ctrl' = "PRESERVE" /\ active_process' = active_process
  BY <1>1, WakesWaiter DEF InterruptServed
<1>2. IInv /\ DeviceSafe /\ [Next]_vars =>
        [\A u \in Units \ orphan :
           LET waiter == Head(s_procq[u])
           IN  InterruptServed(u) =>
                 /\ list_contains(waiter, ready_queue'[p_prio[waiter]])
                 /\ \/ active_process = NULL
                    \/ p_prio[waiter] > p_prio[active_process]
                    \/ ctrl' = "PRESERVE" /\ active_process' = active_process]_vars
  BY <1>1
<1> QED BY <1>2, DeviceSafety, PTL DEF Spec, InterruptWakesWaiter

\* A process that is put in a ready queue is its last.
LEMMA TailIsLast ==
  ASSUME NEW q \in Seq(Proc), IsInjective(q), NEW p \in Proc
  PROVE  insert_proc_q(q, p)[Len(insert_proc_q(q, p))] = p
<1>1. PICK r \in Seq(Proc) : r = list_sdel(p, q)
  BY Sdel
<1>2. Append(r, p)[Len(Append(r, p))] = p
  OBVIOUS
<1> QED BY <1>1, <1>2 DEF insert_proc_q, list_add_tail

LEMMA GivesWay ==
  ASSUME IInv, [Next]_vars, mode = "sched", yield_process # NULL,
         \E p \in Proc : IsReady(p), mode' = "run"
  PROVE  /\ active_process' # yield_process
         /\ list_contains(yield_process, ready_queue'[p_prio[yield_process]])
         /\ ready_queue'[p_prio[yield_process]][Len(ready_queue'[p_prio[yield_process]])]
              = yield_process
<1>1. /\ ListType /\ ListInv /\ RestType /\ ControlInv /\ p_prio \in [Proc -> Prio]
  BY Parts DEF ListType
<1>2. /\ yield_process \in Proc /\ yield_process = active_process /\ ctrl = "BLOCK"
      /\ list_null(yield_process)
  BY <1>1 DEF RestType, ControlInv
<1>3. schedule
  BY DEF Next, Kernel, KillChild, kill_process, TimerLoop, Interrupt, SystemCall, Trap,
         Hardware, schedVars, Stopped, vars
<1>4. ReadyOK(ready_queue) /\ \A q \in Proc : InReady(ready_queue, q) <=> IsReady(q)
  BY <1>1, ReadyNow
<1>5. PICK b \in Prio : ready_queue[b] # << >>
  <2>1. PICK p \in Proc : IsReady(p)
    OBVIOUS
  <2>2. PICK b \in Prio : p \in Range(ready_queue[b])
    BY <2>1 DEF IsReady, list_contains
  <2> QED BY <2>2, NilList
<1>6. \E c \in Prio :
        /\ ready_queue[c] # << >>
        /\ Dispatch(head_proc_q(ready_queue[c]), [ready_queue EXCEPT ![c] = remove_proc_q(@)],
                    yield_process)
  <2>1. 0 \in Prio /\ 1 \in Prio /\ b \in {0, 1}
    BY DEF Prio
  <2>2. \/ /\ ready_queue[1] # << >>
           /\ Dispatch(head_proc_q(ready_queue[1]),
                       [ready_queue EXCEPT ![1] = remove_proc_q(@)], yield_process)
        \/ /\ ready_queue[1] = << >> /\ ready_queue[0] # << >>
           /\ Dispatch(head_proc_q(ready_queue[0]),
                       [ready_queue EXCEPT ![0] = remove_proc_q(@)], yield_process)
        \/ ready_queue[1] = << >> /\ ready_queue[0] = << >>
    BY <1>2, <1>3, Zenon DEF schedule, list_empty
  <2>3. ~(ready_queue[1] = << >> /\ ready_queue[0] = << >>)
    BY <1>5, <2>1
  <2> QED BY <2>1, <2>2, <2>3, Zenon
<1>7. PICK c \in Prio :
        /\ ready_queue[c] # << >>
        /\ Dispatch(head_proc_q(ready_queue[c]), [ready_queue EXCEPT ![c] = remove_proc_q(@)],
                    yield_process)
  BY <1>6
<1>8. PICK h : h = head_proc_q(ready_queue[c])
  OBVIOUS
<1>9. PICK r : r = [ready_queue EXCEPT ![c] = remove_proc_q(@)]
  OBVIOUS
<1>10. h \in Proc /\ InReady(ready_queue, h) /\ ReadyOK(r)
  BY <1>4, <1>7, <1>8, <1>9, ReadyTake
<1>11. active_process' = h /\ ready_queue' = enqueue_process(r, yield_process)
  BY <1>7, <1>8, <1>9 DEF Dispatch
<1>12. h # yield_process
  BY <1>2, <1>4, <1>10 DEF list_null
<1>13. PICK s : s = ready_queue'
  OBVIOUS
<1>14. AddsReady(r, yield_process, s)
  <2>1. r \in [Prio -> Seq(Proc)] /\ \A a \in Prio : IsInjective(r[a])
    BY <1>10 DEF ReadyOK
  <2>2. s = enqueue_process(r, yield_process)
    BY <1>11, <1>13
  <2> QED BY <1>1, <1>2, <2>1, <2>2, Enqueue
<1>15. yield_process \in Range(s[p_prio[yield_process]])
  BY <1>1, <1>2, <1>14 DEF AddsReady
<1>16. s[p_prio[yield_process]] = insert_proc_q(r[p_prio[yield_process]], yield_process)
  <2>1. p_prio[yield_process] \in Prio
    BY <1>1, <1>2
  <2> QED BY <1>11, <1>13, <2>1 DEF enqueue_process
<1>17. PICK q : q = r[p_prio[yield_process]]
  OBVIOUS
<1>18. PICK y : y = yield_process
  OBVIOUS
<1>19. q \in Seq(Proc) /\ IsInjective(q) /\ y \in Proc
  BY <1>1, <1>2, <1>10, <1>17, <1>18 DEF ReadyOK
<1>20. insert_proc_q(q, y)[Len(insert_proc_q(q, y))] = y
  BY <1>19, TailIsLast
<1> QED BY <1>11, <1>12, <1>13, <1>15, <1>16, <1>17, <1>18, <1>20 DEF list_contains

\* YIELD gives way once: when another process is ready, whatever its priority,
\* the next dispatch takes another one, and the process that yielded is put
\* behind all that are ready with its priority (schedule and yield_process of
\* scheduler.c).
THEOREM YieldIsFair == Spec => YieldGivesWay
<1>1. IInv /\ [Next]_vars =>
        [mode = "sched" /\ yield_process # NULL
           /\ (\E p \in Proc : IsReady(p)) /\ mode' = "run"
         => LET queue == ready_queue'[p_prio[yield_process]]
            IN  /\ active_process' # yield_process
                /\ list_contains(yield_process, queue)
                /\ queue[Len(queue)] = yield_process]_vars
  BY GivesWay
<1> QED BY <1>1, Invariance, PTL DEF Spec, YieldGivesWay

=============================================================================
