------------------------------ MODULE Nucleus ------------------------------
(***************************************************************************)
(* The nucleus as a whole: os/src/init.c, the exception handler, the        *)
(* scheduler and the machine, interleaved.                                  *)
(***************************************************************************)
EXTENDS Exception

vars == << pcb_free, p_pid, p_prio, p_parent, p_child, p_support, p_status,
           aslVars, hwVars, schedVars, sem >>

FirstPcb == MAX_PROC - 1

\* The state main() calls schedule(NULL, false) in: init() has spawned the
\* first process, of low priority and with every interrupt line masked.
Init ==
  /\ init_pcbs
  /\ init_asl
  /\ InitDevices
  /\ init_scheduler
  /\ process_count = 1
  /\ recycle_count = 1 % RECYCLE_MOD
  /\ p_pid = [p \in Proc |-> IF p = FirstPcb THEN make_pid(p, 0) ELSE NULL_PID]
  /\ ready_queue = [b \in Prio |-> IF b = 0 THEN << FirstPcb >> ELSE << >>]
  /\ mode = "sched"
  /\ ctrl = "BLOCK"
  /\ sem \in [Sem -> {0, 1}]
  /\ \A s \in Sem \ UserSems : sem[s] = 0

\* The machine goes on while processes run, while the kernel waits and while
\* a handler is about to call schedule.
Hardware ==
  /\ mode \in {"run", "sched", "wait"}
  /\ \/ \E u \in Units : DeviceFinishes(u)
     \/ TimerRuns
     \/ TimerExpires
     \/ mode # "sched" /\ LocalTimerExpires
  /\ UNCHANGED << pcb_free, p_pid, p_prio, p_parent, p_child, p_support,
                  p_status, aslVars, schedVars, sem >>

\* The machine has been halted, or the kernel has panicked.
Stopped == mode \in {"halt"} \cup Panics /\ UNCHANGED vars

Kernel == (schedule \/ KillChild \/ kill_process) /\ UNCHANGED sem

Next == Kernel \/ TimerLoop \/ Interrupt \/ SystemCall \/ Trap \/ Hardware \/ Stopped

Spec == Init /\ [][Next]_vars

\* The kernel does not stop between two instructions, an interrupt that is let
\* through is taken, devices finish what they started and the interval timer
\* counts down.  Devices and the timer are left out of some kernel steps
\* only to keep those atomic, hence strong fairness.  Nothing is assumed of
\* processes: they need not make another system call.
Fairness ==
  /\ WF_vars(Kernel)
  /\ WF_vars(TimerLoop)
  /\ WF_vars(Interrupt)
  /\ \A u \in Units : SF_vars(Hardware /\ DeviceFinishes(u))
  /\ SF_vars(Hardware /\ TimerRuns)
  /\ SF_vars(Hardware /\ TimerExpires)

FairSpec == Spec /\ Fairness

-----------------------------------------------------------------------------
(* Invariants.                                                              *)

\* Type correctness of the kernel's data (os/include/os/types.h, scheduler.c).
TypeOK ==
  /\ pcb_free \in Seq(Proc)
  /\ p_pid \in [Proc -> Pid]
  /\ p_prio \in [Proc -> Prio]
  /\ p_parent \in [Proc -> Proc \cup {NULL}]
  /\ p_child \in [Proc -> Seq(Proc)]
  /\ p_support \in [Proc -> Supports \cup {NULL}]
  /\ p_status \in [Proc -> SUBSET StatusBits]
  /\ semd_h \subseteq Sem
  /\ semd_free \in 0..MAX_PROC
  /\ s_procq \in [Sem -> Seq(Proc)]
  /\ p_sem_add \in [Proc -> Sem \cup {NULL}]
  /\ sem \in [Sem -> {0, 1}]
  /\ dev \in [Units -> {"ready", "busy", "ok", "err"}]
  /\ it_timer \in {"loaded", "running", "expired"}
  /\ plt \in {"running", "expired"}
  /\ status \subseteq StatusBits
  /\ ready_queue \in [Prio -> Seq(Proc)]
  /\ process_count \in 0..MAX_PROC
  /\ softblock_count \in 0..MAX_PROC
  /\ recycle_count \in 0..(RECYCLE_MOD - 1)
  /\ active_process \in Proc \cup {NULL}
  /\ yield_process \in Proc \cup {NULL}
  /\ mode \in Modes
  /\ ctrl \in Controls
  /\ kstack \in Seq(Proc)
  /\ orphan \subseteq Units
  /\ idle \subseteq Units

IsFree(p) == list_contains(p, pcb_free)
IsReady(p) == \E b \in Prio : list_contains(p, ready_queue[b])
IsBlocked(p) == \E s \in Sem : list_contains(p, s_procq[s])

\* The field p_list of p is null.
list_null(p) == ~IsFree(p) /\ ~IsReady(p) /\ ~IsBlocked(p)

\* No list holds a pcb twice.
ListsInjective ==
  /\ IsInjective(pcb_free)
  /\ \A b \in Prio : IsInjective(ready_queue[b])
  /\ \A s \in Sem : IsInjective(s_procq[s])

\* p_list is one field, so no pcb is in two lists.
ListsDisjoint ==
  \A p \in Proc :
    /\ IsFree(p) => ~IsReady(p) /\ ~IsBlocked(p)
    /\ IsReady(p) => ~IsBlocked(p)

\* A ready process is in the queue of its priority (process_queue).
ReadyByPriority ==
  \A b \in Prio : \A p \in Range(ready_queue[b]) : p_prio[p] = b

\* insert_blocked links a pcb without unlinking it first, so every caller must
\* hand over a pcb that is in no other list; a process is lost when it is in
\* no list and is not the one that runs.  Exactly the running process, or
\* during its last handler the one about to be enqueued again, is in no list.
NoProcessLost ==
  /\ ListsInjective
  /\ ListsDisjoint
  /\ ReadyByPriority
  /\ \A p \in Proc : list_null(p) => p = active_process
  /\ mode \in {"run", "tick"} /\ active_process # NULL => list_null(active_process)
  /\ mode = "run" => active_process # NULL
  /\ mode = "wait" => active_process = NULL
                      /\ \A b \in Prio : list_empty(ready_queue[b])
  /\ mode = "sched" /\ ctrl # "BLOCK" /\ active_process # NULL
        => list_null(active_process)
  /\ mode = "sched" /\ ctrl = "BLOCK" /\ active_process # NULL
        => (list_null(active_process) <=> yield_process = active_process)

\* process_count and softblock_count, which decide between halt, wait and
\* panic in wait_or_die, are what their comments in scheduler.h say, at every
\* point, in the middle of the kill of a subtree too.
CountsAgree ==
  /\ process_count = MAX_PROC - Len(pcb_free)
  /\ softblock_count = Cardinality({p \in Proc : p_sem_add[p] # NULL})

\* The active semaphore list: a descriptor is in use exactly while a process
\* waits on its key, p_sem_add names the queue a pcb is in, and no descriptor
\* leaks (free_semd) or is shared.
SemaphoreQueues ==
  /\ \A s \in Sem : s \in semd_h <=> ~list_empty(s_procq[s])
  /\ \A p \in Proc, s \in Sem : list_contains(p, s_procq[s]) <=> p_sem_add[p] = s
  /\ semd_free + Cardinality(semd_h) = MAX_PROC

\* The parent that a pcb would have if the calls of kill_progeny in progress
\* had not unlinked it yet.
KillParent(p) ==
  IF \E i \in 1..(Len(kstack) - 1) : kstack[i] = p
  THEN kstack[(CHOOSE i \in 1..(Len(kstack) - 1) : kstack[i] = p) + 1]
  ELSE p_parent[p]

\* The process tree: parent and children lists agree, a free pcb is in no
\* family and has no pid, and no process is its own ancestor.  kill_progeny
\* neither forgets a descendant nor kills one twice.
ProcessTree ==
  /\ \A p, c \in Proc : list_contains(c, p_child[p]) <=> p_parent[c] = p
  /\ \A p \in Proc : IsInjective(p_child[p])
  /\ \A p \in Proc : IsFree(p) <=> p_pid[p] = NULL_PID
  /\ \A p \in Proc : IsFree(p) => list_empty(p_child[p]) /\ p_parent[p] = NULL
  /\ IsInjective(kstack)
  /\ \A p \in Range(kstack) : ~IsFree(p)
  /\ \A S \in SUBSET Proc : S # {} => \E p \in S : KillParent(p) \notin S

\* Device I/O: on a unit with no operation whose waiter was killed, a process
\* waits exactly while the operation it started is in progress or its
\* interrupt is pending, alone, and the synchronisation semaphore is 0.  The
\* exception: a process whose DOIO started nothing (its address is no command
\* register, or the command no operation) waits on a ready unit.
DeviceProtocol ==
  \A u \in Units \ orphan :
    /\ sem[u] = 0
    /\ Len(s_procq[u]) <= 1
    /\ dev[u] # "ready" <=> ~list_empty(s_procq[u]) /\ u \notin idle

\* The panics that stand for internal errors never happen; the others need a
\* waiter killed during its I/O, a bad command address or a terminal error.
PanicsExplained ==
  /\ mode \notin {"PASSEREN failed", "VERHOGEN failed", "Kill progeny failed",
                  "Deadlock detected", "NULL dereference"}
  /\ mode \in {"Device semaphore > 0", "No active process"} => orphan # {}
  /\ mode = "Unexpected interrupt" => \E u \in Units : dev[u] = "err"

\* A process outlives neither its parent nor, transitively, the first process:
\* kill_progeny forgets no descendant.  (While it runs, the calls in progress
\* stand for the links they removed.)  So when the first process dies the
\* kernel halts and the slot of the first process is never given again.
OneFamily ==
  /\ \A p \in Proc \ {FirstPcb} :
       ~IsFree(p) => KillParent(p) # NULL /\ ~IsFree(KillParent(p))
  /\ IsFree(FirstPcb) => process_count = 0

\* Every process is found under its pid (find_process after make_pid), and
\* under no other, when slots and recycle counts are reused.
PidsResolve ==
  /\ \A p \in Proc : ~IsFree(p) => find_process(p_pid[p]) = p
  /\ \A pid \in Pid : find_process(pid) # NULL =>
       ~IsFree(find_process(pid)) /\ p_pid[find_process(pid)] = pid

-----------------------------------------------------------------------------
(* Action properties.                                                       *)

\* The nucleus implements binary semaphores: whatever P, V, the interrupts, the
\* timer loop and kill_process do to values and queues is one operation of
\* BinarySemaphore or none.  So no value changes while somebody waits, nobody
\* overtakes in a queue, and only a value that forbids the operation blocks
\* (P and V of semaphores.c, out_blocked in kill_process).
BinarySem == INSTANCE BinarySemaphore
               WITH Procs <- Proc, Sems <- Sem, value <- sem, queue <- s_procq

ImplementsBinarySemaphore == BinarySem!SpecSem

\* The interrupt of unit u is served.
InterruptServed(u) == dev[u] \in {"ok", "err"} /\ dev'[u] = "ready"

\* The interrupt of a unit makes the process that started the operation ready,
\* unless it was killed, and goes back to the running process, whose registers
\* it leaves alone (return_status), unless the one it woke has a higher
\* priority: see UnblockedTakesOver.
InterruptWakesWaiter ==
  [][\A u \in Units \ orphan :
       LET waiter == Head(s_procq[u])
       IN  InterruptServed(u) =>
             /\ list_contains(waiter, ready_queue'[p_prio[waiter]])
             /\ \/ active_process = NULL
                \/ p_prio[waiter] > p_prio[active_process]
                \/ ctrl' = "PRESERVE" /\ active_process' = active_process]_vars

\* When a process has yielded and another one is ready, whatever their
\* priorities, schedule takes another one, and puts the one that yielded
\* behind all that are ready with its priority.  This holds for one dispatch:
\* a high priority process that yields is taken again before a second one of
\* low priority.
YieldGivesWay ==
  [][mode = "sched" /\ yield_process # NULL
       /\ (\E p \in Proc : IsReady(p)) /\ mode' = "run"
     => LET queue == ready_queue'[p_prio[yield_process]]
        IN  /\ active_process' # yield_process
            /\ list_contains(yield_process, queue)
            /\ queue[Len(queue)] = yield_process]_vars

-----------------------------------------------------------------------------
(* Liveness, under FairSpec.                                                *)

\* Every handler ends: the recursion of kill_progeny and the loop of
\* interrupt_timer terminate.
KernelReturns == mode \in KernelModes ~> mode \notin KernelModes

Stop == mode \in {"halt"} \cup Panics

LineOpen(il) == mode \in {"run", "wait"} /\ il \in status

\* A process blocked in DOIO is woken, if its unit has an operation in progress
\* or an interrupt pending and the interrupt line is not masked for ever.
DeviceWaiterWakes ==
  \A u \in Units :
    []<>LineOpen(LineOf(u)) =>
      (s_procq[u] # << >> /\ dev[u] # "ready" ~> s_procq[u] = << >> \/ Stop)

\* A process blocked in CLOCKWAIT is woken, under the same condition, if device
\* operations end for good: while they go on, scheduler_wait may load the timer
\* again before each tick.
ClockWaiterWakes ==
  []<>LineOpen(IL_TIMER) /\ <>[](\A u \in Units : dev[u] = "ready") =>
    (s_procq[TIMER_SEM] # << >> ~> s_procq[TIMER_SEM] = << >> \/ Stop)

-----------------------------------------------------------------------------
(* What comments of the code say and the code does not do.                  *)

\* syscall.c:123, an assertion: no device semaphore is positive at a DOIO.
DeviceSemaphoreAssertion == mode # "Device semaphore > 0"

\* semaphores.h:47, get_semaphore returns NULL on failure, which DOIO tests
\* for: the kernel does not panic.
FailureIsNull == mode # "Semaphore not found"

\* exception.c:188: a newly unblocked process of higher priority than the
\* running one takes over, control does not simply go back.
UnblockedTakesOver ==
  [][\A u \in Units \ orphan :
       InterruptServed(u) /\ active_process # NULL
         /\ p_prio[Head(s_procq[u])] > p_prio[active_process]
       => ctrl' # "PRESERVE"]_vars

=============================================================================
