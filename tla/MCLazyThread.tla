---------------------------- MODULE MCLazyThread ----------------------------
(***************************************************************************)
(* A small instance of LazyThread.                                         *)
(***************************************************************************)
EXTENDS LazyThread

CONSTANTS u1, u2

MCUsers == {u1, u2}
=============================================================================
