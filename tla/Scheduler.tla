----------------------------- MODULE Scheduler -----------------------------
(***************************************************************************)
(* The scheduler (os/src/scheduler.c): ready queues, pids, creation and     *)
(* destruction of processes, and the choice of the next one.                *)
(*                                                                         *)
(* The kernel runs with interrupts off, so each handler is one step that    *)
(* ends in schedule(ctrl); what is unbounded in it is cut in further steps: *)
(* the recursion of kill_progeny (mode "kill" or "die", its activations in  *)
(* kstack) and the loop of interrupt_timer (mode "tick").                   *)
(***************************************************************************)
EXTENDS Devices

CONSTANTS
  PID_SLOTS,     \* 1 << MAX_PROC_BITS
  RECYCLE_MOD    \* values of recycle_count that survive the shift in a word

ASSUME PidAssumption ==
  /\ PID_SLOTS \in Nat /\ MAX_PROC < PID_SLOTS
  /\ RECYCLE_MOD \in Nat \ {0}

VARIABLES
  ready_queue,       \* ready_queue[1] is ready_queue_hi, [0] ready_queue_lo
  process_count,
  softblock_count,
  recycle_count,
  active_process,
  yield_process,
  mode,              \* what the processor is doing, or the reason of a panic
  ctrl,              \* the scheduler_control_t a handler returned
  kstack,            \* activations of kill_progeny, innermost first
  orphan,            \* history: units whose waiter was killed before the
                     \* interrupt of the operation was handled
  idle               \* history: units on which a process waits whose DOIO
                     \* started no operation

schedVars == << ready_queue, process_count, softblock_count, recycle_count,
                active_process, yield_process, mode, ctrl, kstack, orphan, idle >>

Prio == {0, 1}
Controls == {"BLOCK", "PRESERVE", "RESCHEDULE"}
KernelModes == {"sched", "kill", "die", "tick"}
\* scheduler_panic with its message, and the one wild access that the
\* code's control flow contains.
Panics == {"PASSEREN failed", "VERHOGEN failed", "Kill progeny failed",
           "Deadlock detected", "Device semaphore > 0", "Semaphore not found",
           "No active process", "Unexpected interrupt", "NULL dereference"}
Modes == {"run", "wait", "halt"} \cup KernelModes \cup Panics

\* A handler returns this control to exception_handler, which calls schedule.
Return(c) == mode' = "sched" /\ ctrl' = c

scheduler_panic(reason) == mode' = reason /\ UNCHANGED ctrl

-----------------------------------------------------------------------------
(* Queues and pids.                                                         *)

enqueue_process(rq, p) ==
  [b \in Prio |-> IF b = p_prio[p] THEN insert_proc_q(rq[b], p)
                                   ELSE list_sdel(p, rq[b])]

dequeue_process(rq, p) == [rq EXCEPT ![p_prio[p]] = list_sdel(p, @)]

\* Pids are words: the slot in the low bits, the recycle count above, plus one.
Pid == 0..(PID_SLOTS * RECYCLE_MOD - 1)

make_pid(id, rc) ==
  ((id + rc * PID_SLOTS) + 1) % (PID_SLOTS * RECYCLE_MOD)

\* Mutant: forgets that pids start at one.
mask_pid_id_off_by_one(pid) == pid % PID_SLOTS

mask_pid_id(pid) == (pid - 1) % PID_SLOTS

find_process(pid) ==
  LET i == mask_pid_id(pid)
  IN  IF i < MAX_PROC /\ p_pid[i] = pid THEN i ELSE NULL

-----------------------------------------------------------------------------
(* Creation and destruction.                                                *)

\* The pcb c = alloc_pcb # NULL gets a pid and joins its ready queue.
spawn_process(c, prio) ==
  /\ pcb_free' = remove_proc_q(pcb_free)
  /\ process_count' = process_count + 1
  /\ p_pid' = [p_pid EXCEPT ![c] = make_pid(c, recycle_count)]
  /\ recycle_count' = (recycle_count + 1) % RECYCLE_MOD
  /\ p_prio' = [p_prio EXCEPT ![c] = prio]
  /\ p_sem_add' = [p_sem_add EXCEPT ![c] = NULL]
  /\ ready_queue' = [ready_queue EXCEPT ![prio] = insert_proc_q(@, c)]

\* The end of the outermost kill_progeny.  TERMPROCESS panics when it failed
\* and blocks when the caller is among the dead; pass_up_or_die ignores the
\* result and blocks.
KillReturns(failed, caller_pid) ==
  IF mode = "die" THEN Return("BLOCK")
  ELSE IF failed THEN scheduler_panic("Kill progeny failed")
  ELSE Return(IF caller_pid = NULL_PID THEN "BLOCK" ELSE ctrl)

\* Mutant: the child is unlinked and not killed.
KillChild_only_unlinks ==
  /\ mode \in {"kill", "die"}
  /\ ~list_empty(p_child[Head(kstack)])
  /\ out_child(Head(p_child[Head(kstack)]))
  /\ UNCHANGED << pcb_free, p_pid, p_prio, p_support, p_status, aslVars, hwVars,
                  schedVars >>

\* One round of the loop of kill_progeny: its first child is unlinked from
\* the tree and becomes the root of a nested call.
KillChild ==
  /\ mode \in {"kill", "die"}
  /\ LET p == Head(kstack)
         c == Head(p_child[p])
     IN  /\ ~list_empty(p_child[p])
         /\ out_child(c)
         /\ kstack' = list_add(c, kstack)
  /\ UNCHANGED << pcb_free, p_pid, p_prio, p_support, p_status, aslVars, hwVars,
                  ready_queue, process_count, softblock_count, recycle_count,
                  active_process, yield_process, mode, ctrl, orphan, idle >>

\* Mutant: a blocked process is killed without decreasing softblock_count.
UnlinkKilled_keeps_count(p) ==
  IF is_blocked(p)
  THEN /\ out_blocked(p)
       /\ orphan' = orphan \cup {u \in Units : u = p_sem_add[p] /\ dev[u] # "ready"}
       /\ idle' = idle \ {p_sem_add[p]}
       /\ UNCHANGED << ready_queue, softblock_count >>
  ELSE /\ ready_queue' = dequeue_process(ready_queue, p)
       /\ UNCHANGED << aslVars, softblock_count, orphan, idle >>

\* The queue part of kill_process.
UnlinkKilled(p) ==
  IF is_blocked(p)
  THEN /\ out_blocked(p)
       /\ softblock_count' = softblock_count - 1
       /\ orphan' = orphan \cup {u \in Units : u = p_sem_add[p] /\ dev[u] # "ready"}
       /\ idle' = idle \ {p_sem_add[p]}
       /\ UNCHANGED ready_queue
  ELSE /\ ready_queue' = dequeue_process(ready_queue, p)
       /\ UNCHANGED << aslVars, softblock_count, orphan, idle >>

\* kill_process on a pcb with no children left, and the return of the
\* kill_progeny activation that called it.
kill_process ==
  /\ mode \in {"kill", "die"}
  /\ LET p == Head(kstack)
     IN  /\ list_empty(p_child[p])
         /\ IF p_parent[p] # NULL /\ out_child_fails(p)
            THEN /\ kstack' = << >>
                 /\ KillReturns(TRUE, p_pid[active_process])
                 /\ UNCHANGED << p_parent, p_child, process_count, pcb_free,
                                 p_pid, aslVars, softblock_count, orphan,
                                 idle, ready_queue >>
            ELSE /\ IF p_parent[p] # NULL
                    THEN out_child(p) ELSE UNCHANGED << p_parent, p_child >>
                 /\ process_count' = process_count - 1
                 /\ UnlinkKilled(p)
                 /\ free_pcb(p)
                 /\ kstack' = Tail(kstack)
                 /\ IF Len(kstack) = 1
                    THEN KillReturns(FALSE, p_pid'[active_process])
                    ELSE UNCHANGED << mode, ctrl >>
  /\ UNCHANGED << p_prio, p_support, p_status, hwVars, recycle_count,
                  active_process, yield_process >>

-----------------------------------------------------------------------------
(* Choice of the next process.                                              *)

\* Loads p: a high priority process gets status_local_timer_on first.
scheduler_takeover(p) ==
  LET st == p_status[p] \cup (IF p_prio[p] = 1 THEN {TE, IL_TIMER} ELSE {})
  IN  /\ p_status' = [p_status EXCEPT ![p] = st]
      /\ status' = st
      /\ plt' = "running"
      /\ mode' = "run"
      /\ UNCHANGED << dev, it_timer >>

\* Mutant: the process that yielded is not enqueued again.
Dispatch_forgets_yielded(p, rq, yielded) ==
  /\ active_process' = p
  /\ ready_queue' = rq
  /\ yield_process' = NULL
  /\ scheduler_takeover(p)

\* p is taken from the ready queues (rq is what is left of them) and a
\* process that yielded joins its ready queue again.
Dispatch(p, rq, yielded) ==
  /\ active_process' = p
  /\ ready_queue' = IF yielded # NULL THEN enqueue_process(rq, yielded) ELSE rq
  /\ yield_process' = NULL
  /\ scheduler_takeover(p)

\* Mutant: active_process still names the process that blocked.
scheduler_wait_keeps_active ==
  /\ it_timer' = "loaded"
  /\ status' = status \cup Lines
  /\ mode' = "wait"
  /\ UNCHANGED << dev, plt, p_status, active_process >>

scheduler_wait ==
  /\ active_process' = NULL
  /\ it_timer' = "loaded"
  /\ status' = (status \cup Lines) \ (IF KernelTE THEN {} ELSE {TE})
  /\ mode' = "wait"
  /\ UNCHANGED << dev, plt, p_status >>

wait_or_die ==
  \/ /\ process_count # 0 /\ softblock_count # 0
     /\ scheduler_wait
  \/ /\ process_count = 0 \/ softblock_count = 0
     /\ mode' = IF process_count = 0 THEN "halt" ELSE "Deadlock detected"
     /\ UNCHANGED << hwVars, p_status, active_process >>

schedule ==
  /\ mode = "sched"
  /\ LET pcb == IF ctrl = "BLOCK" THEN NULL ELSE active_process
         keep == pcb # NULL /\ ctrl = "PRESERVE"
         rq == IF pcb # NULL /\ ctrl = "RESCHEDULE"
               THEN enqueue_process(ready_queue, pcb) ELSE ready_queue
     IN  \/ /\ keep
            /\ Dispatch(pcb, rq, yield_process)
         \/ /\ ~keep /\ ~list_empty(rq[1])
            /\ Dispatch(head_proc_q(rq[1]), [rq EXCEPT ![1] = remove_proc_q(@)],
                        yield_process)
         \/ /\ ~keep /\ list_empty(rq[1]) /\ ~list_empty(rq[0])
            /\ Dispatch(head_proc_q(rq[0]), [rq EXCEPT ![0] = remove_proc_q(@)],
                        yield_process)
         \/ /\ ~keep /\ list_empty(rq[1]) /\ list_empty(rq[0])
            /\ yield_process # NULL
            /\ Dispatch(yield_process, rq, NULL)
         \/ /\ ~keep /\ list_empty(rq[1]) /\ list_empty(rq[0])
            /\ yield_process = NULL
            /\ wait_or_die
            /\ UNCHANGED << ready_queue, yield_process >>
  /\ UNCHANGED << pcb_free, p_pid, p_prio, p_parent, p_child, p_support,
                  aslVars, process_count, softblock_count, recycle_count,
                  ctrl, kstack, orphan, idle >>

init_scheduler ==
  /\ softblock_count = 0
  /\ active_process = NULL
  /\ yield_process = NULL
  /\ kstack = << >>
  /\ orphan = {}
  /\ idle = {}

=============================================================================
