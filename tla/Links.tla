------------------------------- MODULE Links -------------------------------
(***************************************************************************)
(* The intrusive lists of os/include/os/list.h and os/include/os/util.h at  *)
(* the level of pointers.  A heap holds the fields next and prev of every   *)
(* list_head; each operator gives the heap the C function leaves.           *)
(***************************************************************************)
EXTENDS Integers, Sequences, FiniteSets, Functions

CONSTANTS
  Heads,   \* the sentinels
  Nodes,   \* the list_head fields of the elements
  NIL      \* the null pointer

ASSUME LinksAssumption == /\ Heads \cap Nodes = {} /\ NIL \notin Heads \cup Nodes
                          /\ IsFiniteSet(Heads \cup Nodes)

Cell == Heads \cup Nodes

\* All pointers null, then INIT_LIST_HEAD on every sentinel.
EmptyHeap ==
  LET self == [c \in Cell |-> IF c \in Heads THEN c ELSE NIL]
  IN  [next |-> self, prev |-> self]

list_empty(m, h) == m.next[h] = h

list_next(m, c) == IF list_empty(m, c) THEN NIL ELSE m.next[c]

list_prev(m, c) == IF list_empty(m, c) THEN NIL ELSE m.prev[c]

list_is_last(m, c, h) == m.next[c] = h

\* The four assignments of __list_add, in the order they are made.
SetNextPrev(m, new, nxt) == [m EXCEPT !.prev[nxt] = new]
SetNewNext(m, new, nxt) == [m EXCEPT !.next[new] = nxt]
SetNewPrev(m, new, prv) == [m EXCEPT !.prev[new] = prv]
SetPrevNext(m, new, prv) == [m EXCEPT !.next[prv] = new]

list_insert(m, new, prv, nxt) ==
  SetPrevNext(SetNewPrev(SetNewNext(SetNextPrev(m, new, nxt), new, nxt), new, prv),
              new, prv)

\* Mutant: the new element goes to the end.
list_add_at_tail(m, new, h) == list_insert(m, new, m.prev[h], h)

list_add(m, new, h) == list_insert(m, new, h, m.next[h])

list_add_tail(m, new, h) == list_insert(m, new, m.prev[h], h)

\* Mutant: the back pointer of the successor is left.
list_unlink_one_way(m, prv, nxt) == [m EXCEPT !.next[prv] = nxt]

list_unlink(m, prv, nxt) == [m EXCEPT !.prev[nxt] = prv, !.next[prv] = nxt]

list_del(m, c) == list_unlink(m, m.prev[c], m.next[c])

list_null(m, c) == m.prev[c] = NIL /\ m.next[c] = NIL

\* Deletes an element that is in a list and nulls its pointers.
list_sdel(m, c) ==
  IF list_null(m, c) THEN m
  ELSE LET d == list_del(m, c)
       IN  [d EXCEPT !.next[c] = NIL, !.prev[c] = NIL]

\* The loop variable of list_for_each: m.next[h], then its successors; the loop
\* ends at h, and a null pointer would end it too.
LoopVariable(m, h) ==
  LET pos[k \in Nat] == IF k = 0 THEN m.next[h]
                        ELSE IF pos[k - 1] \in {h, NIL} THEN pos[k - 1]
                        ELSE m.next[pos[k - 1]]
  IN  pos

\* The elements that list_for_each meets; a chain that never comes back to h is
\* cut off after as many steps as there are cells.
list_for_each(m, h) ==
  LET pos == LoopVariable(m, h)
      met == {k \in 1..Cardinality(Cell) : pos[k - 1] \notin {h, NIL}}
  IN  [k \in met |-> pos[k - 1]]

\* list_for_each_prev: the same loop along prev.
list_for_each_prev(m, h) == list_for_each([next |-> m.prev, prev |-> m.next], h)

list_size(m, h) == Len(list_for_each(m, h))

\* list_search with exact_cmp: the first element met that is c.
list_search(m, c, h) == IF c \in Range(list_for_each(m, h)) THEN c ELSE NIL

list_contains(m, c, h) == list_search(m, c, h) # NIL

=============================================================================
