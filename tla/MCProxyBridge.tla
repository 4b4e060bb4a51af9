--------------------------- MODULE MCProxyBridge ---------------------------
(***************************************************************************)
(* ProxyBridge has no constants: TLC checks all of it.                     *)
(***************************************************************************)
EXTENDS ProxyBridge
=============================================================================
