----------------------------- MODULE MCMSSignal -----------------------------
(***************************************************************************)
(* Small instances of MSSignal: model values for the calls, ids 0..n.      *)
(***************************************************************************)
EXTENDS MSSignal, TLC

CONSTANTS c1, c2

MCCalls     == {c1, c2}
MCIds       == 0..2
MCServerIds == {1}
MCSymmetry  == Permutations(MCCalls)
=============================================================================
