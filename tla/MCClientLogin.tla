--------------------------- MODULE MCClientLogin ---------------------------
(***************************************************************************)
(* Small instances of ClientLogin for TLC.                                 *)
(***************************************************************************)
EXTENDS ClientLogin
=============================================================================
