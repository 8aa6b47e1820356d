-------------------------------- MODULE Asl --------------------------------
(***************************************************************************)
(* The active semaphore list (os/src/asl.c).  A descriptor is identified    *)
(* with its key, the address of the semaphore; semd_h holds the keys of the *)
(* descriptors in use and semd_free counts the free ones, since the code    *)
(* only ever looks a descriptor up by key or takes any free one.            *)
(*                                                                         *)
(* Semaphores are numbers: 0..48 are the entries of the kernel's array      *)
(* semaphores[] and UserSems are the addresses processes choose.            *)
(***************************************************************************)
EXTENDS Pcb

CONSTANTS
  UserSems,   \* semaphores in the memory of processes
  Units       \* device units, by their index in semaphores[]

TIMER_SEM == 48   \* get_timer_semaphore()

ASSUME UserSemsAssumption == UserSems \subseteq {s \in Int : s > TIMER_SEM}
ASSUME UnitsAssumption == Units \subseteq 0..(TIMER_SEM - 1)

Sem == UserSems \cup Units \cup {TIMER_SEM}

VARIABLES
  semd_h,      \* keys of the descriptors in use
  semd_free,   \* number of free descriptors
  s_procq,     \* queue of each descriptor in use, << >> for the other keys
  p_sem_add    \* the semaphore each pcb is blocked on, or NULL

aslVars == << semd_h, semd_free, s_procq, p_sem_add >>

init_asl ==
  /\ semd_h = {}
  /\ semd_free = MAX_PROC
  /\ s_procq = [s \in Sem |-> << >>]
  /\ p_sem_add = [p \in Proc |-> NULL]

find_semd(s) == s \in semd_h

alloc_semd_fails == semd_free = 0

alloc_semd(s) ==
  /\ semd_h' = semd_h \cup {s}
  /\ semd_free' = semd_free - 1

free_semd(s) ==
  /\ semd_h' = semd_h \ {s}
  /\ semd_free' = semd_free + 1

\* insert_blocked(s, p) returns 3 (p is already blocked) or 4 (no descriptor).
insert_blocked_fails(s, p) ==
  \/ p_sem_add[p] # NULL
  \/ ~find_semd(s) /\ alloc_semd_fails

insert_blocked(s, p) ==
  /\ IF find_semd(s) THEN UNCHANGED << semd_h, semd_free >> ELSE alloc_semd(s)
  /\ s_procq' = [s_procq EXCEPT ![s] = list_add_tail(p, @)]
  /\ p_sem_add' = [p_sem_add EXCEPT ![p] = s]

\* p is linked in the queue of the descriptor p_sem_add names.
is_blocked(p) ==
  /\ p_sem_add[p] # NULL
  /\ find_semd(p_sem_add[p])
  /\ list_contains(p, s_procq[p_sem_add[p]])

\* Mutant: the empty descriptor is not freed.
out_blocked_leaks(p) ==
  LET s == p_sem_add[p]
  IN  /\ s_procq' = [s_procq EXCEPT ![s] = list_sdel(p, @)]
      /\ p_sem_add' = [p_sem_add EXCEPT ![p] = NULL]
      /\ UNCHANGED << semd_h, semd_free >>

\* Unlinks a blocked pcb; a descriptor left with no pcb is freed (free_semd).
out_blocked(p) ==
  LET s == p_sem_add[p]
      q == list_sdel(p, s_procq[s])
  IN  /\ s_procq' = [s_procq EXCEPT ![s] = q]
      /\ p_sem_add' = [p_sem_add EXCEPT ![p] = NULL]
      /\ IF list_empty(q)
         THEN free_semd(s)
         ELSE UNCHANGED << semd_h, semd_free >>

head_blocked(s) == IF find_semd(s) THEN Head(s_procq[s]) ELSE NULL

=============================================================================
