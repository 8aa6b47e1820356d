------------------------------ MODULE MCLinks ------------------------------
(***************************************************************************)
(* The instance of LinkedLists for TLC: two lists, four elements.           *)
(***************************************************************************)
EXTENDS LinkedLists

CONSTANTS h1, h2, n1, n2, n3, n4

TwoLists == {h1, h2}
FourNodes == {n1, n2, n3, n4}

=============================================================================
