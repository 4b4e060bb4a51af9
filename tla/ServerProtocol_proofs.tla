----------------------- MODULE ServerProtocol_proofs -----------------------
(***************************************************************************)
(* Proofs about ServerProtocol for any set of connections, any capacity    *)
(* and any timeout.  The safety invariants of the runs follow from the     *)
(* inductive invariant IInv: they are not inductive by themselves, since   *)
(* whether a lost connection gives its seat back, or leaves a game it      *)
(* joined, depends on how its mode, its seat and in_game go together.      *)
(***************************************************************************)
EXTENDS ServerProtocol, FiniteSetTheorems, TLAPS

(* A connection holds a seat only once it asked to log in.                 *)
SeatMode == \A c \in players : mode[c] \in LoggingIn

(* player_joined is what takes a connection out of its login.              *)
InGameMode == \A c \in Conn : in_game[c] <=> mode[c] \in {"configuration", "play"}

Counted == \A c \in Conn : joins[c] = IF in_game[c] THEN 1 ELSE 0

Unkicked == \A c \in Conn : link[c] \in {"new", "open"} => kicks[c] = 0

NewIsFresh == \A c \in Conn : link[c] = "new" => mode[c] = "handshaking"

IInv ==
  /\ TypeOK
  /\ SeatCapacity
  /\ SeatedWhileIn
  /\ OrphanSeats
  /\ JoinLeave
  /\ OneKick
  /\ SeatMode
  /\ InGameMode
  /\ Counted
  /\ Unkicked
  /\ NewIsFresh

-----------------------------------------------------------------------------
LEMMA IInvInit == Init => IInv
<1> SUFFICES ASSUME Init PROVE IInv
  OBVIOUS
<1> USE IdleLimitPositive, MaxPlayersNat DEF Init
<1>1. TypeOK
  BY DEF TypeOK, Links, Modes
<1>2. SeatCapacity
  BY FS_EmptySet DEF SeatCapacity
<1>3. SeatedWhileIn /\ OrphanSeats /\ JoinLeave /\ OneKick
  BY DEF SeatedWhileIn, Open, OrphanSeats, JoinLeave, OneKick
<1>4. SeatMode /\ InGameMode /\ Counted /\ Unkicked /\ NewIsFresh
  BY DEF SeatMode, InGameMode, Counted, Unkicked, NewIsFresh
<1> QED
  BY <1>1, <1>2, <1>3, <1>4 DEF IInv

(* A step that neither adds to nor takes from the seats keeps within the   *)
(* capacity, and so does one that takes a seat back.                       *)
LEMMA FewerSeats ==
  ASSUME TypeOK, SeatCapacity, players' \subseteq players
  PROVE  SeatCapacity'
<1>1. IsFiniteSet(players)
  BY ConnFinite, FS_Subset DEF TypeOK
<1>2. /\ Cardinality(players') <= Cardinality(players)
      /\ Cardinality(players) \in Nat /\ Cardinality(players') \in Nat
  BY <1>1, FS_Subset, FS_CardinalityType
<1> QED
  BY <1>2, MaxPlayersNat DEF SeatCapacity

LEMMA OneMoreSeat ==
  ASSUME TypeOK, SeatCapacity, NEW c \in Conn, ~Full, players' = players \cup {c}
  PROVE  SeatCapacity'
<1>1. IsFiniteSet(players)
  BY ConnFinite, FS_Subset DEF TypeOK
<1>2. IsFiniteSet(players')
  BY <1>1, FS_AddElement
<1>3. Cardinality(players) \in Nat /\ Cardinality(players') \in Nat
  BY <1>1, <1>2, FS_CardinalityType
<1>4. Cardinality(players') <= Cardinality(players) + 1
  BY <1>1, <1>3, FS_AddElement
<1> QED
  BY <1>3, <1>4, MaxPlayersNat DEF SeatCapacity, Full

-----------------------------------------------------------------------------
(* Each action preserves the invariant.                                    *)

LEMMA DropStep ==
  ASSUME IInv, NEW c \in Conn, link[c] \in {"open", "closing"}, drop(c)
  PROVE  IInv'
<1> USE DEF IInv, drop
<1>1. TypeOK'
  BY DEF TypeOK, Links, player_left
<1>2. SeatCapacity'
  BY FewerSeats
<1>3. SeatedWhileIn'
  BY DEF TypeOK, SeatedWhileIn, Open
<1>4. OrphanSeats'
  BY DEF TypeOK, OrphanSeats, SeatedModes, SeatMode, LoggingIn
<1>5. JoinLeave'
  BY DEF TypeOK, JoinLeave, player_left, Counted
<1>6. OneKick' /\ SeatMode' /\ InGameMode' /\ Counted' /\ Unkicked' /\ NewIsFresh'
  BY DEF TypeOK, OneKick, SeatMode, InGameMode, Counted, Unkicked, NewIsFresh
<1> QED
  BY <1>1, <1>2, <1>3, <1>4, <1>5, <1>6

LEMMA ConnectionMadeStep ==
  ASSUME IInv, NEW c \in Conn, connection_made(c)
  PROVE  IInv'
<1> USE DEF IInv, connection_made
<1>1. TypeOK' /\ SeatCapacity'
  BY FewerSeats DEF TypeOK, Links
<1>2. SeatedWhileIn' /\ OrphanSeats' /\ JoinLeave' /\ OneKick'
  BY DEF TypeOK, SeatedWhileIn, Open, LoggingIn, NewIsFresh, OrphanSeats,
         JoinLeave, OneKick
<1>3. SeatMode' /\ InGameMode' /\ Counted' /\ Unkicked' /\ NewIsFresh'
  BY DEF TypeOK, SeatMode, InGameMode, Counted, Unkicked, NewIsFresh
<1> QED
  BY <1>1, <1>2, <1>3

LEMMA TickStep ==
  ASSUME IInv, NEW c \in Conn, tick(c)
  PROVE  IInv'
<1> USE DEF IInv, tick, close, Open
<1>1. TypeOK' /\ SeatCapacity'
  BY FewerSeats, IdleLimitPositive DEF TypeOK, Links
<1>2. SeatedWhileIn' /\ OrphanSeats' /\ JoinLeave' /\ OneKick'
  BY DEF TypeOK, SeatedWhileIn, OrphanSeats, JoinLeave, OneKick, Unkicked
<1>3. SeatMode' /\ InGameMode' /\ Counted' /\ Unkicked' /\ NewIsFresh'
  BY DEF TypeOK, SeatMode, InGameMode, Counted, Unkicked, NewIsFresh
<1> QED
  BY <1>1, <1>2, <1>3

LEMMA AppCloseStep ==
  ASSUME IInv, NEW c \in Conn, app_close(c)
  PROVE  IInv'
<1> USE DEF IInv, app_close, close, Open
<1>1. TypeOK' /\ SeatCapacity'
  BY FewerSeats DEF TypeOK, Links
<1>2. SeatedWhileIn' /\ OrphanSeats' /\ JoinLeave' /\ OneKick'
  BY DEF TypeOK, SeatedWhileIn, OrphanSeats, JoinLeave, OneKick, Unkicked
<1>3. SeatMode' /\ InGameMode' /\ Counted' /\ Unkicked' /\ NewIsFresh'
  BY DEF TypeOK, SeatMode, InGameMode, Counted, Unkicked, NewIsFresh
<1> QED
  BY <1>1, <1>2, <1>3

(* A handshake that is not dropped goes to status or to login; it takes a  *)
(* seat, or is closed, or both, when it goes to login.                     *)
LEMMA SetProtocolStep ==
  ASSUME IInv, NEW c \in Conn, NEW next \in NextStates, NEW known \in BOOLEAN,
         packet_set_protocol(c, next, known)
  PROVE  IInv'
<1> USE DEF IInv
<1>1. Open(c) /\ link[c] = "open" /\ mode[c] = "handshaking"
  BY DEF packet_set_protocol, Receiving, Open
<1>2. CASE <<mode[c], next>> \notin Transitions
  BY <1>1, <1>2, DropStep DEF packet_set_protocol
<1>3. CASE <<mode[c], next>> \in Transitions
  <2>1. next \in {"status", "login"}
    BY <1>1, <1>3 DEF Transitions
  <2>2. /\ mode' = [mode EXCEPT ![c] = next]
        /\ players' = IF next = "login" /\ ~Full THEN players \cup {c} ELSE players
        /\ IF refused(next, known) THEN close(c, next) ELSE UNCHANGED <<link, kicks>>
        /\ idle' = [idle EXCEPT ![c] = 0]
        /\ UNCHANGED <<login_expecting, display_name, in_game, joins, leaves>>
    BY <1>3 DEF packet_set_protocol, restart_timer
  <2>3. TypeOK'
    BY <2>1, <2>2, IdleLimitPositive DEF TypeOK, Links, Modes, close
  <2>4. SeatCapacity'
    <3>1. CASE next = "login" /\ ~Full
      BY <2>2, <3>1, OneMoreSeat
    <3>2. CASE ~(next = "login" /\ ~Full)
      BY <2>2, <3>2, FewerSeats
    <3> QED
      BY <3>1, <3>2
  <2>5. SeatedWhileIn'
    BY <1>1, <2>1, <2>2 DEF TypeOK, SeatedWhileIn, Open, LoggingIn, close, refused
  <2>6. OrphanSeats'
    BY <1>1, <2>1, <2>2 DEF TypeOK, OrphanSeats, close, SeatMode, LoggingIn
  <2>7. JoinLeave' /\ OneKick'
    BY <1>1, <2>2 DEF TypeOK, JoinLeave, OneKick, close, Unkicked
  <2>8. SeatMode' /\ InGameMode' /\ Counted'
    BY <1>1, <2>1, <2>2 DEF TypeOK, SeatMode, LoggingIn, InGameMode, Counted
  <2>9. Unkicked' /\ NewIsFresh'
    BY <1>1, <2>2 DEF TypeOK, Unkicked, NewIsFresh, close
  <2> QED
    BY <2>3, <2>4, <2>5, <2>6, <2>7, <2>8, <2>9
<1> QED
  BY <1>2, <1>3

LEMMA LoginStartStep ==
  ASSUME IInv, NEW c \in Conn, NEW name \in Name, packet_login_start(c, name)
  PROVE  IInv'
<1> USE DEF IInv
<1>1. link[c] = "open"
  BY DEF packet_login_start, Receiving, Open
<1>2. CASE login_expecting[c] # 0
  BY <1>1, <1>2, DropStep DEF packet_login_start
<1>3. CASE login_expecting[c] = 0
  <2>1. /\ display_name' = [display_name EXCEPT ![c] = name]
        /\ login_expecting' = [login_expecting EXCEPT ![c] = None]
        /\ idle' = [idle EXCEPT ![c] = 0]
        /\ UNCHANGED <<link, mode, in_game, players, joins, leaves, kicks>>
    BY <1>3 DEF packet_login_start, restart_timer
  <2>2. TypeOK' /\ SeatCapacity'
    BY <2>1, FewerSeats, IdleLimitPositive DEF TypeOK
  <2>3. SeatedWhileIn' /\ OrphanSeats' /\ JoinLeave' /\ OneKick'
    BY <2>1 DEF SeatedWhileIn, Open, OrphanSeats, JoinLeave, OneKick
  <2>4. SeatMode' /\ InGameMode' /\ Counted' /\ Unkicked' /\ NewIsFresh'
    BY <2>1 DEF SeatMode, InGameMode, Counted, Unkicked, NewIsFresh
  <2> QED
    BY <2>2, <2>3, <2>4
<1> QED
  BY <1>2, <1>3

LEMMA LoginAcknowledgedStep ==
  ASSUME IInv, NEW c \in Conn, packet_login_acknowledged(c)
  PROVE  IInv'
<1> USE DEF IInv, packet_login_acknowledged, Receiving, Open, restart_timer
<1>1. TypeOK' /\ SeatCapacity'
  BY FewerSeats, IdleLimitPositive DEF TypeOK, Modes
<1>2. SeatedWhileIn' /\ OrphanSeats' /\ JoinLeave' /\ OneKick'
  BY DEF TypeOK, SeatedWhileIn, LoggingIn, OrphanSeats, JoinLeave, OneKick,
         Counted, InGameMode
<1>3. SeatMode' /\ InGameMode' /\ Counted' /\ Unkicked' /\ NewIsFresh'
  BY DEF TypeOK, SeatMode, LoggingIn, InGameMode, Counted, Unkicked, NewIsFresh
<1> QED
  BY <1>1, <1>2, <1>3

LEMMA FinishConfigurationStep ==
  ASSUME IInv, NEW c \in Conn, packet_finish_configuration(c)
  PROVE  IInv'
<1> USE DEF IInv, packet_finish_configuration, Receiving, Open, restart_timer
<1>1. TypeOK' /\ SeatCapacity'
  BY FewerSeats, IdleLimitPositive DEF TypeOK, Modes
<1>2. SeatedWhileIn' /\ OrphanSeats' /\ JoinLeave' /\ OneKick'
  BY DEF TypeOK, SeatedWhileIn, LoggingIn, OrphanSeats, JoinLeave, OneKick
<1>3. SeatMode' /\ InGameMode' /\ Counted' /\ Unkicked' /\ NewIsFresh'
  BY DEF TypeOK, SeatMode, LoggingIn, InGameMode, Counted, Unkicked, NewIsFresh
<1> QED
  BY <1>1, <1>2, <1>3

LEMMA PingStep ==
  ASSUME IInv, NEW c \in Conn, packet_ping(c)
  PROVE  IInv'
<1> USE DEF IInv, packet_ping, Receiving, Open, restart_timer
<1>1. TypeOK' /\ SeatCapacity'
  BY FewerSeats, IdleLimitPositive DEF TypeOK, Links
<1>2. SeatedWhileIn' /\ OrphanSeats' /\ JoinLeave' /\ OneKick'
  BY DEF TypeOK, SeatedWhileIn, OrphanSeats, JoinLeave, OneKick
<1>3. SeatMode' /\ InGameMode' /\ Counted' /\ Unkicked' /\ NewIsFresh'
  BY DEF TypeOK, SeatMode, InGameMode, Counted, Unkicked, NewIsFresh
<1> QED
  BY <1>1, <1>2, <1>3

LEMMA OtherStep ==
  ASSUME IInv, NEW c \in Conn, packet_other(c)
  PROVE  IInv'
<1> USE DEF IInv, packet_other, Open, restart_timer
<1>1. TypeOK' /\ SeatCapacity'
  BY FewerSeats, IdleLimitPositive DEF TypeOK
<1>2. SeatedWhileIn' /\ OrphanSeats' /\ JoinLeave' /\ OneKick'
  BY DEF SeatedWhileIn, OrphanSeats, JoinLeave, OneKick
<1>3. SeatMode' /\ InGameMode' /\ Counted' /\ Unkicked' /\ NewIsFresh'
  BY DEF SeatMode, InGameMode, Counted, Unkicked, NewIsFresh
<1> QED
  BY <1>1, <1>2, <1>3

LEMMA StutterStep == IInv /\ UNCHANGED vars => IInv'
<1> SUFFICES ASSUME IInv, UNCHANGED vars PROVE IInv'
  OBVIOUS
<1> USE DEF IInv, vars
<1>1. TypeOK' /\ SeatCapacity'
  BY FewerSeats DEF TypeOK
<1>2. SeatedWhileIn' /\ OrphanSeats' /\ JoinLeave' /\ OneKick'
  BY DEF SeatedWhileIn, Open, OrphanSeats, JoinLeave, OneKick
<1>3. SeatMode' /\ InGameMode' /\ Counted' /\ Unkicked' /\ NewIsFresh'
  BY DEF SeatMode, InGameMode, Counted, Unkicked, NewIsFresh
<1> QED
  BY <1>1, <1>2, <1>3

LEMMA IInvNext == IInv /\ [Next]_vars => IInv'
<1> SUFFICES ASSUME IInv, [Next]_vars PROVE IInv'
  OBVIOUS
<1>1. CASE UNCHANGED vars
  BY <1>1, StutterStep
<1>2. ASSUME NEW c \in Conn, connection_made(c) PROVE IInv'
  BY <1>2, ConnectionMadeStep
<1>3. ASSUME NEW c \in Conn, packet_received(c) PROVE IInv'
  BY <1>3, SetProtocolStep, LoginStartStep, LoginAcknowledgedStep,
     FinishConfigurationStep, PingStep, OtherStep DEF packet_received
<1>4. ASSUME NEW c \in Conn, tick(c) PROVE IInv'
  BY <1>4, TickStep
<1>5. ASSUME NEW c \in Conn, app_close(c) PROVE IInv'
  BY <1>5, AppCloseStep
<1>6. ASSUME NEW c \in Conn, connection_lost(c) PROVE IInv'
  BY <1>6, DropStep DEF connection_lost
<1> QED
  BY <1>1, <1>2, <1>3, <1>4, <1>5, <1>6 DEF Next

-----------------------------------------------------------------------------
(* The invariant, and what it implies.                                     *)

LEMMA Invariance == Spec => []IInv
  BY IInvInit, IInvNext, PTL DEF Spec

(* Every variable of the server keeps its type.                            *)
THEOREM TypeCorrect == Spec => []TypeOK
  BY Invariance, PTL DEF IInv

(* The factory never seats more than max_players connections.              *)
THEOREM SeatCapacityHolds == Spec => []SeatCapacity
  BY Invariance, PTL DEF IInv

(* Whoever is served past the handshake holds a seat.                      *)
THEOREM SeatedWhileInHolds == Spec => []SeatedWhileIn
  BY Invariance, PTL DEF IInv

(* Only connections lost while being configured leave a seat behind.       *)
THEOREM OrphanSeatsHolds == Spec => []OrphanSeats
  BY Invariance, PTL DEF IInv

(* player_joined and player_left pair up.                                  *)
THEOREM JoinLeaveHolds == Spec => []JoinLeave
  BY Invariance, PTL DEF IInv

(* No client is told twice why it is closed.                               *)
THEOREM OneKickHolds == Spec => []OneKick
  BY Invariance, PTL DEF IInv

-----------------------------------------------------------------------------
(* ServerProtocol implements PlayerRoster.                                 *)

LEMMA StageOfValues ==
  ASSUME NEW g
  PROVE  /\ StageOf("new", g) = "absent"
         /\ StageOf("lost", g) = "gone"
         /\ \A l \in {"open", "closing"} : StageOf(l, g) = IF g THEN "playing" ELSE "waiting"
  BY DEF StageOf

(* A step of c alone changes at most the stage of c.                       *)
LEMMA StageStep ==
  ASSUME TypeOK, NEW c \in Conn,
         \A d \in Conn \ {c} : link'[d] = link[d] /\ in_game'[d] = in_game[d]
  PROVE  Stage' = [Stage EXCEPT ![c] = StageOf(link'[c], in_game'[c])]
  BY DEF Stage, TypeOK

(* ... and not even that when the link closes or stays.                    *)
LEMMA StageKept ==
  ASSUME TypeOK, NEW c \in Conn, link[c] # "new", in_game' = in_game,
         link' = link \/ (link[c] = "open" /\ link' = [link EXCEPT ![c] = "closing"])
  PROVE  Stage' = Stage
<1>1. StageOf(link'[c], in_game'[c]) = StageOf(link[c], in_game[c])
  BY StageOfValues DEF TypeOK
<1>2. \A d \in Conn \ {c} : link'[d] = link[d] /\ in_game'[d] = in_game[d]
  BY DEF TypeOK
<1> QED
  BY <1>1, <1>2 DEF Stage

(* Losing a connection that was in the game is a Leave, losing any other   *)
(* a GiveUp.                                                               *)
LEMMA DropImplements ==
  ASSUME IInv, NEW c \in Conn, link[c] \in {"open", "closing"}, drop(c)
  PROVE  Roster!GiveUp(c) \/ Roster!Leave(c)
<1> USE DEF IInv
<1>1. link' = [link EXCEPT ![c] = "lost"] /\ in_game' = in_game
      /\ players' = IF mode[c] \in SeatedModes THEN players \ {c} ELSE players
  BY DEF drop
<1>2. Stage' = [Stage EXCEPT ![c] = "gone"]
  BY <1>1, StageStep, StageOfValues DEF TypeOK
<1>3. CASE in_game[c]
  <2>1. Stage[c] = "playing"
    BY <1>3, StageOfValues DEF Stage
  <2> QED
    BY <1>1, <1>2, <2>1 DEF Roster!Leave
<1>4. CASE ~in_game[c]
  <2>1. Stage[c] = "waiting"
    BY <1>4, StageOfValues DEF Stage
  <2>2. players' = players \ {c}
    BY <1>1, <1>4 DEF SeatMode, LoggingIn, InGameMode, SeatedModes
  <2> QED
    BY <1>2, <2>1, <2>2 DEF Roster!GiveUp
<1> QED
  BY <1>3, <1>4

LEMMA SameCardinality ==
  ASSUME NEW S
  PROVE  Roster!Cardinality(S) = Cardinality(S)
  BY DEF Cardinality, Roster!Cardinality

LEMMA SetProtocolImplements ==
  ASSUME IInv, NEW c \in Conn, NEW next \in NextStates, NEW known \in BOOLEAN,
         packet_set_protocol(c, next, known)
  PROVE  [Roster!Next]_Roster!vars
<1> USE DEF IInv
<1>1. link[c] = "open" /\ mode[c] = "handshaking" /\ ~in_game[c]
  BY DEF packet_set_protocol, Receiving, Open, InGameMode
<1>2. CASE <<mode[c], next>> \notin Transitions
  BY <1>1, <1>2, DropImplements DEF packet_set_protocol, Roster!Next
<1>3. CASE <<mode[c], next>> \in Transitions
  <2>1. /\ players' = IF next = "login" /\ ~Full THEN players \cup {c} ELSE players
        /\ link' = link \/ link' = [link EXCEPT ![c] = "closing"]
        /\ in_game' = in_game
    BY <1>3 DEF packet_set_protocol, close
  <2>2. Stage' = Stage
    BY <1>1, <2>1, StageKept
  <2>3. CASE next = "login" /\ ~Full
    <3>1. Stage[c] = "waiting"
      BY <1>1, StageOfValues DEF Stage
    <3>2. Cardinality(players) \in Nat
      BY ConnFinite, FS_Subset, FS_CardinalityType DEF TypeOK
    <3>3. Cardinality(players) < MaxPlayers
      BY <2>3, <3>2, MaxPlayersNat DEF Full
    <3> QED
      BY <2>1, <2>2, <2>3, <3>1, <3>3, SameCardinality DEF Roster!Seat, Roster!Next
  <2>4. CASE ~(next = "login" /\ ~Full)
    BY <2>1, <2>2, <2>4 DEF Roster!vars
  <2> QED
    BY <2>3, <2>4
<1> QED
  BY <1>2, <1>3

LEMMA PacketImplements ==
  ASSUME IInv, NEW c \in Conn, packet_received(c)
  PROVE  [Roster!Next]_Roster!vars
<1> USE DEF IInv
<1>1. ASSUME NEW next \in NextStates, NEW known \in BOOLEAN,
             packet_set_protocol(c, next, known)
      PROVE  [Roster!Next]_Roster!vars
  BY <1>1, SetProtocolImplements
<1>2. ASSUME NEW name \in Name, packet_login_start(c, name)
      PROVE  [Roster!Next]_Roster!vars
  <2>1. link[c] = "open"
    BY <1>2 DEF packet_login_start, Receiving, Open
  <2>2. CASE login_expecting[c] # 0
    BY <1>2, <2>1, <2>2, DropImplements DEF packet_login_start, Roster!Next
  <2>3. CASE login_expecting[c] = 0
    <3>1. link' = link /\ in_game' = in_game /\ players' = players
      BY <1>2, <2>3 DEF packet_login_start
    <3> QED
      BY <2>1, <3>1, StageKept DEF Roster!vars
  <2> QED
    BY <2>2, <2>3
<1>3. ASSUME packet_login_acknowledged(c)
      PROVE  [Roster!Next]_Roster!vars
  <2>1. link[c] = "open" /\ mode[c] = "login" /\ link' = link /\ players' = players
        /\ in_game' = [in_game EXCEPT ![c] = TRUE]
    BY <1>3 DEF packet_login_acknowledged, Receiving, Open
  <2>2. Stage[c] = "waiting" /\ c \in players
    BY <2>1, StageOfValues DEF Stage, InGameMode, SeatedWhileIn, Open, LoggingIn
  <2>3. Stage' = [Stage EXCEPT ![c] = "playing"]
    <3>1. \A d \in Conn \ {c} : link'[d] = link[d] /\ in_game'[d] = in_game[d]
      BY <2>1 DEF TypeOK
    <3>2. StageOf(link'[c], in_game'[c]) = "playing"
      BY <2>1, StageOfValues DEF TypeOK
    <3> QED
      BY <3>1, <3>2, StageStep
  <2> QED
    BY <2>1, <2>2, <2>3 DEF Roster!Join, Roster!Next
<1>4. ASSUME packet_finish_configuration(c) \/ packet_ping(c) \/ packet_other(c)
      PROVE  [Roster!Next]_Roster!vars
  <2>1. /\ link[c] = "open"
        /\ link' = link \/ link' = [link EXCEPT ![c] = "closing"]
        /\ in_game' = in_game /\ players' = players
    BY <1>4 DEF packet_finish_configuration, packet_ping, packet_other, Receiving, Open
  <2> QED
    BY <2>1, StageKept DEF Roster!vars
<1> QED
  BY <1>1, <1>2, <1>3, <1>4 DEF packet_received

LEMMA NextImplements == IInv /\ [Next]_vars => [Roster!Next]_Roster!vars
<1> SUFFICES ASSUME IInv, [Next]_vars PROVE [Roster!Next]_Roster!vars
  OBVIOUS
<1> USE DEF IInv
<1>1. CASE UNCHANGED vars
  BY <1>1 DEF vars, Roster!vars, Stage
<1>2. ASSUME NEW c \in Conn, connection_made(c) PROVE [Roster!Next]_Roster!vars
  <2>1. link[c] = "new" /\ link' = [link EXCEPT ![c] = "open"]
        /\ in_game' = in_game /\ players' = players
    BY <1>2 DEF connection_made
  <2>2. Stage[c] = "absent"
    BY <2>1, StageOfValues DEF Stage
  <2>3. ~in_game[c]
    BY <2>1 DEF NewIsFresh, InGameMode
  <2>4. Stage' = [Stage EXCEPT ![c] = "waiting"]
    <3>1. \A d \in Conn \ {c} : link'[d] = link[d] /\ in_game'[d] = in_game[d]
      BY <2>1 DEF TypeOK
    <3>2. StageOf(link'[c], in_game'[c]) = "waiting"
      BY <2>1, <2>3, StageOfValues DEF TypeOK
    <3> QED
      BY <3>1, <3>2, StageStep
  <2> QED
    BY <2>1, <2>2, <2>4 DEF Roster!Connect, Roster!Next
<1>3. ASSUME NEW c \in Conn, packet_received(c) PROVE [Roster!Next]_Roster!vars
  BY <1>3, PacketImplements
<1>4. ASSUME NEW c \in Conn, tick(c) \/ app_close(c) PROVE [Roster!Next]_Roster!vars
  <2>1. /\ link[c] = "open"
        /\ link' = link \/ link' = [link EXCEPT ![c] = "closing"]
        /\ in_game' = in_game /\ players' = players
    BY <1>4 DEF tick, app_close, close, Open
  <2> QED
    BY <2>1, StageKept DEF Roster!vars
<1>5. ASSUME NEW c \in Conn, connection_lost(c) PROVE [Roster!Next]_Roster!vars
  BY <1>5, DropImplements DEF connection_lost, Roster!Next
<1> QED
  BY <1>1, <1>2, <1>3, <1>4, <1>5 DEF Next

LEMMA InitImplements == Init => Roster!Init
<1> SUFFICES ASSUME Init PROVE Roster!Init
  OBVIOUS
<1>1. ASSUME NEW c \in Conn PROVE StageOf(link[c], in_game[c]) = "absent"
  <2>1. link[c] = "new"
    BY DEF Init
  <2> QED
    BY <2>1, StageOfValues
<1>2. Stage = [c \in Conn |-> "absent"]
  BY <1>1, Zenon DEF Stage
<1>3. players = {}
  BY DEF Init
<1> QED
  BY <1>2, <1>3 DEF Roster!Init

(* The server keeps what PlayerRoster promises, for any number of          *)
(* connections.                                                            *)
THEOREM ImplementsRoster == Spec => RosterSpec
  BY Invariance, InitImplements, NextImplements, PTL DEF Spec, RosterSpec, Roster!Spec
=============================================================================
