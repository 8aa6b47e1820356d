------------------------------- MODULE Memory -------------------------------
(***************************************************************************)
(* What the pager promises a U-proc: a private memory whose pages hold what *)
(* was last stored in them, until the U-proc ends.                          *)
(***************************************************************************)
CONSTANTS
  Asids,     \* the U-procs, by their address space identifier
  Indices,   \* the pages of a U-proc, by their index in its page table
  Values,    \* contents of a page
  Blank      \* the contents every page starts with

VARIABLES
  mem,     \* contents of each page of each U-proc
  reg,     \* what each U-proc loaded last
  ended    \* the U-procs that have ended

memVars == << mem, reg, ended >>

InitMemory ==
  /\ mem = [x \in Asids |-> [k \in Indices |-> Blank]]
  /\ reg = [x \in Asids |-> Blank]
  /\ ended = {}

Load(x, k) ==
  /\ x \notin ended
  /\ reg' = [reg EXCEPT ![x] = mem[x][k]]
  /\ UNCHANGED << mem, ended >>

Store(x, k, v) ==
  /\ x \notin ended
  /\ mem' = [mem EXCEPT ![x][k] = v]
  /\ UNCHANGED << reg, ended >>

\* The memory of a U-proc ends with it.
End(x) ==
  /\ ended' = ended \cup {x}
  /\ mem' = [mem EXCEPT ![x] = [k \in Indices |-> Blank]]
  /\ UNCHANGED reg

NextMemory ==
  \E x \in Asids :
    \/ \E k \in Indices : Load(x, k) \/ \E v \in Values : Store(x, k, v)
    \/ End(x)

SpecMemory == InitMemory /\ [][NextMemory]_memVars

=============================================================================
