--------------------------- MODULE MCMediaControl ---------------------------
(***************************************************************************)
(* Small instances of MediaControl: application threads that publish, and  *)
(* application threads that subscribe.                                     *)
(***************************************************************************)
EXTENDS MediaControl, TLC

CONSTANTS t1, t2, main, p1

MCCallers  == {t1, t2}
MCStreams  == {main}
MCPeers    == {p1}
MCNone     == {}
MCSymmetry == Permutations(MCCallers)
=============================================================================
