-------------------------------- MODULE Pcb --------------------------------
(***************************************************************************)
(* The table of process control blocks (os/src/pcb.c): the free list, the   *)
(* queues of pcbs and the process tree.  A pcb is its index in pcb_table.   *)
(***************************************************************************)
EXTENDS Lists

CONSTANTS
  MAX_PROC,   \* entries of pcb_table (and of semd_table)
  NULL        \* the null pointer

ASSUME MaxProcAssumption == MAX_PROC \in Nat \ {0}
ASSUME NullAssumption == NULL \notin Int

Proc == 0..(MAX_PROC - 1)
NULL_PID == 0

VARIABLES
  pcb_free,    \* list of unused pcbs; alloc_pcb takes its head
  p_pid,       \* the pid of each pcb, NULL_PID while it is free
  p_prio,      \* 1 for a high priority process, 0 for a low priority one
  p_parent,    \* the parent of each pcb, or NULL
  p_child,     \* the children list of each pcb
  p_support,   \* the support structure of each pcb, or NULL
  p_status     \* the status bits in the saved processor state p_s

\* The list left by adding the pcbs 0, 1, ..., MAX_PROC - 1 at the head in
\* turn, which alloc_pcb has taken the first element from.
init_pcbs ==
  /\ pcb_free = [i \in 1..(MAX_PROC - 1) |-> MAX_PROC - 1 - i]
  /\ p_parent = [p \in Proc |-> NULL]
  /\ p_child = [p \in Proc |-> << >>]
  /\ p_support = [p \in Proc |-> NULL]
  /\ p_prio = [p \in Proc |-> 0]
  /\ p_status = [p \in Proc |-> {}]

\* What alloc_pcb returns.
alloc_pcb == IF list_empty(pcb_free) THEN NULL ELSE Head(pcb_free)

insert_proc_q(q, p) == list_add_tail(p, list_sdel(p, q))

\* The element that remove_proc_q takes off a list, and the list it leaves.
head_proc_q(q) == Head(q)
remove_proc_q(q) == Tail(q)

\* The new pcb c is cleared (null_pcb) and made the last child of prnt.
insert_child(prnt, c) ==
  /\ p_parent' = [p_parent EXCEPT ![c] = prnt]
  /\ p_child' = [p_child EXCEPT ![c] = << >>,
                                ![prnt] = list_add_tail(c, @)]

\* out_child(p) fails on a pcb its parent does not list.
out_child_fails(p) ==
  \/ p_parent[p] = NULL
  \/ ~list_contains(p, p_child[p_parent[p]])

\* Mutant: the child keeps its pointer to the parent.
out_child_keeps_parent(p) ==
  /\ p_child' = [p_child EXCEPT ![p_parent[p]] = list_sdel(p, @)]
  /\ UNCHANGED p_parent

out_child(p) ==
  /\ p_child' = [p_child EXCEPT ![p_parent[p]] = list_sdel(p, @)]
  /\ p_parent' = [p_parent EXCEPT ![p] = NULL]

free_pcb(p) ==
  IF list_contains(p, pcb_free)
  THEN UNCHANGED << pcb_free, p_pid >>
  ELSE /\ pcb_free' = list_add(p, pcb_free)
       /\ p_pid' = [p_pid EXCEPT ![p] = NULL_PID]

=============================================================================
