-------------------------- MODULE BinarySemaphore --------------------------
(***************************************************************************)
(* What the nucleus promises of semaphores (PASSEREN and VERHOGEN of        *)
(* os/src/syscall.c, over os/src/semaphores.c): binary semaphores with a    *)
(* first-come-first-served queue, where P waits for a 1 and V waits for a   *)
(* 0.  Nucleus implements this specification; the modules of the support    *)
(* level use its operations.                                                *)
(***************************************************************************)
EXTENDS Lists

CONSTANTS
  Procs,   \* the processes that may wait
  Sems     \* the semaphores

VARIABLES
  value,   \* value of each semaphore
  queue    \* the processes waiting on each semaphore, first come first

sVars == << value, queue >>

Waiting(p) == \E s \in Sems : list_contains(p, queue[s])

InitSems ==
  /\ value \in [Sems -> {0, 1}]
  /\ queue = [s \in Sems |-> << >>]

\* p, in no queue, joins this one if the value is `full`; otherwise the first in
\* the queue leaves it, or the value becomes `after` when nobody is there.
Operate(s, p, full, after) ==
  \/ /\ value[s] = full /\ ~Waiting(p)
     /\ queue' = [queue EXCEPT ![s] = Append(@, p)]
     /\ UNCHANGED value
  \/ /\ value[s] # full /\ queue[s] # << >>
     /\ queue' = [queue EXCEPT ![s] = Tail(@)]
     /\ UNCHANGED value
  \/ /\ value[s] # full /\ queue[s] = << >>
     /\ value' = [value EXCEPT ![s] = after]
     /\ UNCHANGED queue

Passeren(s, p) == Operate(s, p, 0, 0)

Verhogen(s, p) == Operate(s, p, 1, 1)

\* A process that is killed leaves the queue it is in.
Leave(s, p) ==
  /\ list_contains(p, queue[s])
  /\ queue' = [queue EXCEPT ![s] = list_sdel(p, @)]
  /\ UNCHANGED value

NextSem ==
  \E s \in Sems, p \in Procs :
    Passeren(s, p) \/ Verhogen(s, p) \/ Leave(s, p)

SpecSem == InitSems /\ [][NextSem]_sVars

=============================================================================
