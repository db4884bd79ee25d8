---------------------------- MODULE MCRemoteSdp -----------------------------
(***************************************************************************)
(* Small instances of RemoteSdp.                                           *)
(***************************************************************************)
EXTENDS RemoteSdp, TLC

CONSTANTS a, b, c, i1, i2

MCMids      == {a, b, c, "datachannel"}
MCIceParams == {i1, i2}
MCSymmetry  == Permutations({a, b, c}) \cup Permutations(MCIceParams)
=============================================================================
