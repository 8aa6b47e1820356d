------------------------------ MODULE CpuTime ------------------------------
(***************************************************************************)
(* The accounting of processor time: the fields p_time that                 *)
(* exception_handler (phase2/src/exception.c) increments and GETTIME        *)
(* returns, and start_tod, which the scheduler sets when a process takes    *)
(* over.  What the handlers do otherwise is in Nucleus; here a process is   *)
(* running, in a system call, waiting, or about to be replaced.             *)
(***************************************************************************)
EXTENDS Integers

CONSTANTS
  Procs,       \* the processes
  Supported,   \* those with a support structure
  MaxTod,      \* bound on the clock
  MaxCharge,   \* bound on what passed up exceptions may charge
  NULL

ASSUME CpuTimeAssumption ==
  /\ Supported \subseteq Procs /\ NULL \notin Procs
  /\ MaxTod \in Nat /\ MaxCharge \in Nat

VARIABLES
  tod,         \* the time of day clock
  start_tod,   \* when the current interval started, for the kernel
  active,      \* active_process, or NULL
  mode,        \* "run", "syscall", "sched" or "wait"
  p_time,      \* the time charged to each process
  user,        \* the time each process has really spent outside the kernel
  used         \* the same and the time the kernel spent on its exceptions

timeVars == << tod, start_tod, active, mode, p_time, user, used >>

init_scheduler ==
  /\ tod = 0 /\ start_tod = 0
  /\ active = NULL /\ mode = "sched"
  /\ p_time = [p \in Procs |-> 0]
  /\ user = [p \in Procs |-> 0]
  /\ used = [p \in Procs |-> 0]

\* The clock of the machine; user and used follow it.
Tick ==
  /\ tod < MaxTod
  /\ tod' = tod + 1
  /\ user' = IF mode = "run" THEN [user EXCEPT ![active] = @ + 1] ELSE user
  /\ used' = IF active # NULL THEN [used EXCEPT ![active] = @ + 1] ELSE used
  /\ UNCHANGED << start_tod, active, mode, p_time >>

\* Mutant: the interval is not charged when the exception comes.
Charge_late == UNCHANGED p_time

\* What exception_handler does first: the interval since start_tod is charged.
Charge == p_time' = [p_time EXCEPT ![active] = @ + (tod - start_tod)]

\* An interrupt, in a process or in wait: schedule follows.
Interrupt ==
  /\ mode \in {"run", "wait"}
  /\ IF active # NULL THEN Charge ELSE UNCHANGED p_time
  /\ mode' = "sched"
  /\ UNCHANGED << tod, start_tod, active, user, used >>

\* A TLB exception or a trap: with a support structure, load_context goes on in
\* the process at once, and start_tod stays.  Otherwise the process dies.
PassUpOrDie ==
  /\ mode = "run"
  /\ active \in Supported => p_time[active] < MaxCharge
  /\ Charge
  /\ mode' = IF active \in Supported THEN "run" ELSE "sched"
  /\ UNCHANGED << tod, start_tod, active, user, used >>

\* A system call: a new interval starts ...
SystemCall ==
  /\ mode = "run"
  /\ Charge
  /\ start_tod' = tod
  /\ mode' = "syscall"
  /\ UNCHANGED << tod, active, user, used >>

\* ... and is charged when the handler returns, unless it passed the call up.
SystemCallEnds ==
  /\ mode = "syscall"
  /\ \/ Charge /\ mode' = "sched"
     \/ active \in Supported /\ mode' = "run" /\ UNCHANGED p_time
  /\ UNCHANGED << tod, start_tod, active, user, used >>

\* Mutant: start_tod is not set again.
scheduler_takeover_stale(p) ==
  /\ mode = "sched"
  /\ active' = p /\ mode' = "run"
  /\ UNCHANGED << tod, start_tod, p_time, user, used >>

scheduler_takeover(p) ==
  /\ mode = "sched"
  /\ active' = p /\ mode' = "run"
  /\ start_tod' = tod
  /\ UNCHANGED << tod, p_time, user, used >>

scheduler_wait ==
  /\ mode = "sched"
  /\ active' = NULL /\ mode' = "wait"
  /\ UNCHANGED << tod, start_tod, p_time, user, used >>

\* A process that has died gives its pcb to a new one (null_pcb).
Respawn(p) ==
  /\ mode = "syscall" /\ p # active
  /\ p_time' = [p_time EXCEPT ![p] = 0]
  /\ user' = [user EXCEPT ![p] = 0]
  /\ used' = [used EXCEPT ![p] = 0]
  /\ UNCHANGED << tod, start_tod, active, mode >>

Next ==
  \/ Tick \/ Interrupt \/ PassUpOrDie \/ SystemCall \/ SystemCallEnds
  \/ \E p \in Procs : scheduler_takeover(p) \/ Respawn(p)
  \/ scheduler_wait

Spec == init_scheduler /\ [][Next]_timeVars

-----------------------------------------------------------------------------

\* Not enough processor time is never charged: whenever a process is not running,
\* all it spent outside the kernel has been charged (p2test.c, "not enough cpu
\* time went by"), and a process pays for nothing before it runs.
AllTimeCharged ==
  \A p \in Procs :
    /\ mode = "run" /\ p = active => user[p] <= p_time[p] + (tod - start_tod)
    /\ mode # "run" \/ p # active => user[p] <= p_time[p]

\* No more processor time is charged to a process than went by while it was the
\* current one, and the interval in progress will not change that: the intervals
\* that exception_handler charges do not overlap (p2test.c, "more cpu time than
\* real time").  For a process whose exceptions are passed up this fails: start_tod
\* stays, and the next exception charges the same interval again.
IntervalsDisjoint ==
  \A p \in Procs \ Supported :
    /\ p_time[p] <= used[p]
    /\ p = active /\ mode \in {"run", "syscall"} =>
         p_time[p] + (tod - start_tod) <= used[p]

=============================================================================
