----------------------------- MODULE MCNucleus -----------------------------
(***************************************************************************)
(* Instances of Nucleus for TLC.                                            *)
(***************************************************************************)
EXTENDS Nucleus

AllOn == Lines \cup {TE}
NoLines == {}

\* Status words for the runs: every line and the local timer on; all masked.
StatusesOn == { AllOn }
StatusesOnOff == { AllOn, NoLines }

=============================================================================
