-------------------------- MODULE MCServerProtocol --------------------------
(***************************************************************************)
(* Small instances of ServerProtocol for TLC.  Connections are handled     *)
(* alike, but may not be permuted, since liveness is checked.              *)
(***************************************************************************)
EXTENDS ServerProtocol
=============================================================================
