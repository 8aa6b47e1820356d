---------------------------- MODULE LinkedLists ----------------------------
(***************************************************************************)
(* The lists of Links as the kernel uses them, against the lists of         *)
(* ListSpec.                                                                *)
(***************************************************************************)
EXTENDS Links

VARIABLES heap, call   \* call: the last operation, with its arguments

vars == << heap, call >>

Init == heap = EmptyHeap /\ call = << >>

\* An element that is in no list has null pointers (LIST_HEAD_NULL) and may be
\* added.
Add(h, e) ==
  /\ list_null(heap, e)
  /\ heap' = list_add(heap, e, h)
  /\ call' = << "add", h, e >>

AddTail(h, e) ==
  /\ list_null(heap, e)
  /\ heap' = list_add_tail(heap, e, h)
  /\ call' = << "add_tail", h, e >>

\* list_sdel takes an element out, and does nothing on a null one.
Delete(e) ==
  /\ heap' = list_sdel(heap, e)
  /\ call' = << "sdel", e >>

Next ==
  \E e \in Nodes :
    Delete(e) \/ \E h \in Heads : Add(h, e) \/ AddTail(h, e)

Spec == Init /\ [][Next]_vars

AsSequences ==
  INSTANCE ListSpec WITH lists <- [h \in Heads |-> list_for_each(heap, h)]

\* The pointer code implements lists as sequences: every call leaves the
\* sentinel of each list at the head of a chain that is the sequence Lists
\* computes, also for the first, the last and the only element.
ImplementsLists == AsSequences!Spec

\* The two chains of a list are each other's reverse, and the helpers agree with
\* the sequence: list_empty, list_next, list_prev, list_is_last, list_size,
\* list_contains.
ChainsAgree ==
  \A h \in Heads :
    LET q == list_for_each(heap, h)
        r == list_for_each_prev(heap, h)
    IN  /\ Len(r) = Len(q) /\ \A i \in 1..Len(q) : r[i] = q[Len(q) + 1 - i]
        /\ list_empty(heap, h) <=> q = << >>
        /\ list_size(heap, h) = Len(q)
        /\ q # << >> => /\ list_next(heap, h) = q[1] /\ list_prev(heap, h) = q[Len(q)]
                        /\ list_is_last(heap, q[Len(q)], h)
        /\ \A e \in Nodes : list_contains(heap, e, h) =>
             \A g \in Heads \ {h} : ~list_contains(heap, e, g)
        /\ \A e \in Nodes : list_null(heap, e) => ~list_contains(heap, e, h)

=============================================================================
