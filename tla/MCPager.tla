------------------------------ MODULE MCPager ------------------------------
(***************************************************************************)
(* Instances of Pager for TLC.                                              *)
(***************************************************************************)
EXTENDS Pager

AllAsids == 1..UPROCMAX
OnlySwap == {SWAP}
AtUser == {"user"}

\* The mapped pages, and the first one that is not.
PagesAndNext == (KUSEG_VPN..(KUSEG_VPN + MAXPAGES - 1)) \cup {STACK_VPN}

\* Behaviours are followed up to the first eviction of another U-proc's page.
Apart == ~crossed

=============================================================================
