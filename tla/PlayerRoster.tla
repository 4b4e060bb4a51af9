---------------------------- MODULE PlayerRoster ----------------------------
(***************************************************************************)
(* What a ServerFactory promises to the application that embeds it, with   *)
(* nothing of the protocol: each connection passes once through waiting,   *)
(* perhaps playing, and gone; at most MaxPlayers of them hold a seat; only *)
(* a connection that holds a seat starts to play (player_joined); and a    *)
(* connection that goes away before it played always gives its seat back.  *)
(* One that goes away while playing (player_left) may or may not.          *)
(* ServerProtocol implements this specification.                           *)
(***************************************************************************)
EXTENDS Integers, FiniteSets

CONSTANTS
  Conn,         \* the connections
  MaxPlayers    \* the number of seats

VARIABLES
  stage,        \* where each connection is in its life
  seats         \* the connections that hold a seat

vars == <<stage, seats>>

Stages == {"absent", "waiting", "playing", "gone"}

Init ==
  /\ stage = [c \in Conn |-> "absent"]
  /\ seats = {}

Connect(c) ==
  /\ stage[c] = "absent"
  /\ stage' = [stage EXCEPT ![c] = "waiting"]
  /\ UNCHANGED seats

Seat(c) ==
  /\ stage[c] = "waiting"
  /\ Cardinality(seats) < MaxPlayers
  /\ seats' = seats \cup {c}
  /\ UNCHANGED stage

Join(c) ==
  /\ stage[c] = "waiting"
  /\ c \in seats
  /\ stage' = [stage EXCEPT ![c] = "playing"]
  /\ UNCHANGED seats

GiveUp(c) ==
  /\ stage[c] = "waiting"
  /\ stage' = [stage EXCEPT ![c] = "gone"]
  /\ seats' = seats \ {c}

Leave(c) ==
  /\ stage[c] = "playing"
  /\ stage' = [stage EXCEPT ![c] = "gone"]
  /\ seats' \in {seats, seats \ {c}}

Next == \E c \in Conn : Connect(c) \/ Seat(c) \/ Join(c) \/ GiveUp(c) \/ Leave(c)

Spec == Init /\ [][Next]_vars
=============================================================================
