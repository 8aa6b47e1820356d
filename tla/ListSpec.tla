------------------------------ MODULE ListSpec ------------------------------
(***************************************************************************)
(* What the intrusive lists promise: sequences of elements, each element in *)
(* at most one of them, changed by the operators of Lists.                  *)
(***************************************************************************)
EXTENDS Lists

CONSTANTS Heads, Nodes

VARIABLES lists,   \* the elements of each list, first first
          call     \* the last operation

Linked(c) == \E h \in Heads : list_contains(c, lists[h])

Init == lists = [h \in Heads |-> << >>] /\ call = << >>

Add(h, c) ==
  /\ ~Linked(c)
  /\ lists' = [lists EXCEPT ![h] = list_add(c, @)]
  /\ call' = << "add", h, c >>

AddTail(h, c) ==
  /\ ~Linked(c)
  /\ lists' = [lists EXCEPT ![h] = list_add_tail(c, @)]
  /\ call' = << "add_tail", h, c >>

Delete(c) ==
  /\ lists' = [h \in Heads |-> list_sdel(c, lists[h])]
  /\ call' = << "sdel", c >>

Next ==
  \E c \in Nodes :
    Delete(c) \/ \E h \in Heads : Add(h, c) \/ AddTail(h, c)

listVars == << lists, call >>

Spec == Init /\ [][Next]_listVars

=============================================================================
