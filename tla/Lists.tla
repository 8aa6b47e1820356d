------------------------------- MODULE Lists -------------------------------
(***************************************************************************)
(* The kernel's intrusive lists (os/include/os/list.h and the helpers of    *)
(* os/include/os/util.h) at the level the kernel uses them: a list is the   *)
(* sequence of the pcbs linked in it, head first.                           *)
(***************************************************************************)
EXTENDS Integers, Sequences, FiniteSets, Functions

list_empty(q) == q = << >>

list_contains(p, q) == p \in Range(q)

list_add(p, q) == << p >> \o q

list_add_tail(p, q) == Append(q, p)

\* Unlinks p from q; an element that is not linked in q leaves q as it is.
list_sdel(p, q) ==
  IF list_contains(p, q)
  THEN LET i == CHOOSE k \in 1..Len(q) : q[k] = p
       IN  [j \in 1..(Len(q) - 1) |-> IF j < i THEN q[j] ELSE q[j + 1]]
  ELSE q

=============================================================================
