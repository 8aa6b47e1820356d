------------------------------ MODULE MCUProcs ------------------------------
(***************************************************************************)
(* Instances of UProcs for TLC.                                             *)
(***************************************************************************)
EXTENDS UProcs

TestAndUProcs == 0..UPROCMAX
AllSems == {SWAP, MASTER} \cup (3..(3 * UPROCMAX + 2))
UserAndBuffers == {"user", "putc", "store", "last", "eos"}

\* One U-proc reads and writes, the other one only computes; none makes a call.
OneCalls == << {"read", "write"}, {} >>
NoCalls == [x \in Asid |-> {}]

\* One page, or none: U-procs that never fault.
FirstPage == {KUSEG_VPN}
NoPages == {}

=============================================================================
