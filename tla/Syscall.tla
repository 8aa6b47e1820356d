------------------------------ MODULE Syscall ------------------------------
(***************************************************************************)
(* The system calls (os/src/syscall.c) and pass up or die (os/src/puod.c).  *)
(* Each operator is the whole handler, up to the call of schedule; register *)
(* v0 is left out.  A system call of a process in user mode, an unknown     *)
(* number and a bad argument all end in pass_up_or_die.                     *)
(***************************************************************************)
EXTENDS Semaphores

CONSTANT Supports   \* support structures that a process may be created with

ASSUME SupportsAssumption == NULL \notin Supports

\* Everything but what P and V change.
otherVars == << pcb_free, p_pid, p_prio, p_parent, p_child, p_support,
                process_count, recycle_count, active_process, yield_process,
                kstack, orphan, idle >>

\* Nothing but mode and ctrl changes.
OnlyControl == UNCHANGED << otherVars, semVars, p_status, hwVars >>

\* Starts kill_progeny(p); c is what the handler returns if the caller lives.
StartKill(p, m, c) ==
  /\ mode' = m
  /\ ctrl' = c
  /\ kstack' = << p >>
  /\ UNCHANGED << pcb_free, p_pid, p_prio, p_parent, p_child, p_support,
                  process_count, recycle_count, active_process, yield_process,
                  orphan, idle, semVars, p_status, hwVars >>

\* The process continues in the context of its support structure, which
\* brings its own status word, or dies with its progeny.
pass_up_or_die ==
  \/ /\ p_support[active_process] # NULL
     /\ \E st \in Statuses :
          /\ status' = st
          /\ p_status' = [p_status EXCEPT ![active_process] = st]
     /\ UNCHANGED << otherVars, semVars, dev, it_timer, plt, mode, ctrl >>
  \/ /\ p_support[active_process] = NULL
     /\ StartKill(active_process, "die", "BLOCK")

\* With no free pcb the caller gets NULL_PID.
syscall_create_process(prio, st, sup) ==
  \/ /\ alloc_pcb = NULL
     /\ Return("PRESERVE")
     /\ OnlyControl
  \/ /\ alloc_pcb # NULL
     /\ spawn_process(alloc_pcb, prio)
     /\ p_support' = [p_support EXCEPT ![alloc_pcb] = sup]
     /\ p_status' = [p_status EXCEPT ![alloc_pcb] = st]
     /\ insert_child(active_process, alloc_pcb)
     /\ Return("PRESERVE")
     /\ UNCHANGED << semd_h, semd_free, s_procq, sem, softblock_count, hwVars,
                     active_process, yield_process, kstack, orphan, idle >>

syscall_terminate_process(pid) ==
  \/ /\ pid = 0
     /\ StartKill(active_process, "kill", "BLOCK")
  \/ /\ pid # 0 /\ find_process(pid) # NULL
     /\ StartKill(find_process(pid), "kill", "RESCHEDULE")
  \/ /\ pid # 0 /\ find_process(pid) = NULL
     /\ pass_up_or_die

syscall_passeren(s) ==
  /\ P(s, active_process)
  /\ UNCHANGED << otherVars, p_status, hwVars >>

syscall_verhogen(s) ==
  /\ V(s)
  /\ IF V_fails(s) THEN scheduler_panic("VERHOGEN failed")
     ELSE Return(IF V_result(s) = NULL THEN "BLOCK" ELSE "RESCHEDULE")
  /\ UNCHANGED << otherVars, p_status, hwVars >>

\* The word is written to the address.  In a command register it starts an
\* operation or, if it is an acknowledgement or a reset, none; a unit that is
\* busy ignores it.  In any other word it starts none.
StartOperation(d) ==
  \E effect \in {"busy", "ready"} :
    dev' = [u \in Units |-> IF u \in d.commands /\ dev[u] # "busy"
                             THEN effect ELSE dev[u]]

\* The address has the descriptor d.  A high priority caller gets the line of
\* the device unmasked, the others get every line.
syscall_do_io(d) ==
  \/ /\ head_blocked(d.semaphore) # NULL
     /\ pass_up_or_die
  \/ /\ head_blocked(d.semaphore) = NULL /\ sem[d.semaphore] > 0
     /\ scheduler_panic("Device semaphore > 0")
     /\ OnlyControl
  \/ /\ head_blocked(d.semaphore) = NULL /\ sem[d.semaphore] <= 0
     /\ P(d.semaphore, active_process)
     /\ p_status' = [p_status EXCEPT ![active_process] =
                       @ \cup (IF p_prio[active_process] = 1
                               THEN {d.interrupt_line} ELSE Lines)]
     /\ StartOperation(d)
     /\ idle' = (idle \ {d.semaphore})
                  \cup (IF dev'[d.semaphore] = "ready" THEN {d.semaphore} ELSE {})
     /\ UNCHANGED << pcb_free, p_pid, p_prio, p_parent, p_child, p_support,
                     process_count, recycle_count, active_process,
                     yield_process, kstack, orphan, it_timer, plt, status >>

\* An address below the device registers, or too far above them: get_iodev
\* finds no line for it and get_semaphore panics.
syscall_do_io_bad_address ==
  /\ scheduler_panic("Semaphore not found")
  /\ OnlyControl

syscall_wait_for_clock ==
  /\ P(TIMER_SEM, active_process)
  /\ UNCHANGED << otherVars, p_status, hwVars >>

syscall_get_cpu_time == Return("RESCHEDULE") /\ OnlyControl

syscall_get_support_data == Return("RESCHEDULE") /\ OnlyControl

syscall_get_process_id == Return("RESCHEDULE") /\ OnlyControl

syscall_yield ==
  /\ yield_process' = active_process
  /\ Return("BLOCK")
  /\ UNCHANGED << pcb_free, p_pid, p_prio, p_parent, p_child, p_support,
                  process_count, recycle_count, active_process, kstack, orphan,
                  idle, semVars, p_status, hwVars >>

=============================================================================
