--------------------------- MODULE MCMediaSoupAPI ---------------------------
(***************************************************************************)
(* A small instance of MediaSoupAPI: the two transports of a join and the  *)
(* one that another join leaves when it fails on its receiving transport,  *)
(* in every order of their ids.                                            *)
(***************************************************************************)
EXTENDS MediaSoupAPI

MCTransportIds == 1..3
=============================================================================
