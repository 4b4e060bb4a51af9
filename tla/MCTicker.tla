------------------------------ MODULE MCTicker ------------------------------
(***************************************************************************)
(* Small instances of Ticker for TLC.                                      *)
(***************************************************************************)
EXTENDS Ticker
=============================================================================
