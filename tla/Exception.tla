----------------------------- MODULE Exception -----------------------------
(***************************************************************************)
(* The exception handler of the nucleus (phase2/src/exception.c): system    *)
(* calls, traps and interrupts.                                             *)
(***************************************************************************)
EXTENDS Syscall

\* The status word the exception saved is the one of the running process, so
\* the copy into p_s that opens every exception changes nothing here.
syscall_handler ==
  \/ \E prio \in Prio, st \in Statuses, sup \in Supports \cup {NULL} :
       syscall_create_process(prio, st, sup)
  \/ \E pid \in Pid : syscall_terminate_process(pid)
  \/ \E s \in UserSems : syscall_passeren(s)
  \/ \E s \in UserSems : syscall_verhogen(s)
  \/ \E d \in IoDevs : syscall_do_io(d)
  \/ syscall_do_io_bad_address
  \/ syscall_get_cpu_time
  \/ syscall_wait_for_clock
  \/ syscall_get_support_data
  \/ syscall_get_process_id
  \/ syscall_yield

interrupt_local_timer ==
  /\ plt' = "running"
  /\ Return("RESCHEDULE")
  /\ UNCHANGED << otherVars, semVars, p_status, dev, it_timer, status >>

\* The interval timer is loaded again; the loop of V follows.
interrupt_timer ==
  /\ it_timer' = "loaded"
  /\ mode' = "tick"
  /\ UNCHANGED << otherVars, semVars, p_status, dev, plt, status, ctrl >>

\* Mutant: the loop runs while the semaphore is 1.
TimerLoop_inverted ==
  /\ mode = "tick"
  /\ \/ /\ sem[TIMER_SEM] = 1
        /\ V(TIMER_SEM)
        /\ UNCHANGED << mode, ctrl >>
     \/ /\ sem[TIMER_SEM] # 1
        /\ Return("PRESERVE")
        /\ UNCHANGED semVars
  /\ UNCHANGED << otherVars, p_status, hwVars >>

\* One evaluation of the loop of interrupt_timer.
TimerLoop ==
  /\ mode = "tick"
  /\ \/ /\ sem[TIMER_SEM] # 1
        /\ V(TIMER_SEM)
        /\ UNCHANGED << mode, ctrl >>
     \/ /\ sem[TIMER_SEM] = 1
        /\ Return("PRESERVE")
        /\ UNCHANGED semVars
  /\ UNCHANGED << otherVars, p_status, hwVars >>

\* Mutant: the device is not acknowledged.
Acknowledge_missing(u) == UNCHANGED dev

Acknowledge(u) == dev' = [dev EXCEPT ![u] = "ready"]

\* V on the unit's semaphore, then return_status: the status goes to the
\* process that was woken, or to the active one if V handed that back.
interrupt_generic ==
  LET il == Min(Pending \cap IL_DISK..IL_PRINTER)
      u == get_semaphore(il, find_device_number(CDEV_BITMAP(il)), FALSE)
      p == V_result(u)
  IN  /\ V(u)
      /\ IF V_fails(u) THEN scheduler_panic("VERHOGEN failed") /\ UNCHANGED dev
         ELSE IF p = active_process /\ p = NULL
         THEN scheduler_panic("No active process") /\ UNCHANGED dev
         ELSE IF p = NULL
         THEN scheduler_panic("NULL dereference") /\ UNCHANGED dev
         ELSE /\ Return(IF p = active_process THEN "RESCHEDULE" ELSE "PRESERVE")
              /\ Acknowledge(u)
      /\ UNCHANGED << otherVars, p_status, it_timer, plt, status >>

\* Mutant: the transmitter is served whatever its status.
TerminalUnit_transmitter(t) == get_semaphore(IL_TERMINAL, t, TRUE)

\* The half of the terminal that is served: the transmitter first, and only a
\* half that ended well.
TerminalUnit(t) ==
  LET transm == get_semaphore(IL_TERMINAL, t, TRUE)
      recv == get_semaphore(IL_TERMINAL, t, FALSE)
      well == {u \in Units : dev[u] = "ok"}
  IN  IF transm \in well THEN transm
      ELSE IF recv \in well THEN recv ELSE NULL

interrupt_terminal ==
  LET u == TerminalUnit(find_device_number(CDEV_BITMAP(IL_TERMINAL)))
  IN  /\ \/ /\ u = NULL
            /\ scheduler_panic("Unexpected interrupt")
            /\ UNCHANGED << semVars, dev >>
         \/ /\ u # NULL
            /\ V(u)
            /\ IF V_fails(u)
               THEN scheduler_panic("VERHOGEN failed") /\ UNCHANGED dev
               ELSE IF V_result(u) \in {NULL, active_process}
                       /\ active_process = NULL
               THEN scheduler_panic("No active process") /\ UNCHANGED dev
               ELSE /\ Return(IF V_result(u) \in {NULL, active_process}
                              THEN "RESCHEDULE" ELSE "PRESERVE")
                    /\ Acknowledge(u)
      /\ UNCHANGED << otherVars, p_status, it_timer, plt, status >>

\* The handler looks at the pending bits, masked lines included, in this order.
interrupt_handler ==
  \/ /\ IL_CPUTIMER \in Pending
     /\ interrupt_local_timer
  \/ /\ IL_CPUTIMER \notin Pending /\ IL_TIMER \in Pending
     /\ interrupt_timer
  \/ /\ Pending \cap {IL_CPUTIMER, IL_TIMER} = {}
     /\ Pending \cap IL_DISK..IL_PRINTER # {}
     /\ interrupt_generic
  \/ /\ Pending = {IL_TERMINAL}
     /\ interrupt_terminal

\* An interrupt that the status register lets through is taken before the
\* next instruction of the process.
Deliverable == Pending \cap status # {}

\* exception_handler by cause: an interrupt; a system call; a TLB exception
\* or a program trap.
Interrupt == mode \in {"run", "wait"} /\ Deliverable /\ interrupt_handler

SystemCall == mode = "run" /\ ~Deliverable /\ syscall_handler

Trap == mode = "run" /\ ~Deliverable /\ pass_up_or_die

=============================================================================
