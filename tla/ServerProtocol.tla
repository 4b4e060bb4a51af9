--------------------------- MODULE ServerProtocol ---------------------------
(***************************************************************************)
(* The server side of a connection: quarryng/net/server.py (ServerProtocol *)
(* and ServerFactory) over quarryng/net/protocol.py.  Many connections     *)
(* share one factory and its set `players'; the receive buffer they share  *)
(* too is the subject of RecvBuffer.                                       *)
(*                                                                         *)
(* A packet handler runs to its end inside data_received, so it is one     *)
(* action.  Twisted stops reading from a transport once loseConnection()   *)
(* was called and data_received leaves its loop once `closed' is set, so   *)
(* no handler runs on a connection that is not "open".  A handler that     *)
(* raises makes data_received raise; Twisted then drops the transport and  *)
(* calls connectionLost in the same reactor step.                          *)
(***************************************************************************)
EXTENDS Integers, FiniteSets

CONSTANTS
  Conn,         \* the connections buildProtocol may be asked for
  Name,         \* the user names a login_start packet may carry
  None,         \* Python's None
  MaxPlayers,   \* ServerFactory.max_players
  IdleLimit     \* updates of connection_timer from a restart until it fires

ASSUME ConnFinite == IsFiniteSet(Conn)
ASSUME MaxPlayersNat == MaxPlayers \in Nat
ASSUME IdleLimitPositive == IdleLimit \in Nat \ {0}
ASSUME NoneIsNoName == None \notin Name /\ None # 0

VARIABLES
  link,             \* the transport; "closing" and "lost" are closed = True
  mode,             \* protocol_mode
  login_expecting,  \* 0 until a login_start was accepted, then None
  display_name,
  in_game,
  idle,             \* updates of connection_timer since its last restart
  players,          \* factory.players
  joins,            \* history: calls of player_joined
  leaves,           \* history: calls of player_left
  kicks             \* history: "disconnect" packets sent

vars == <<link, mode, login_expecting, display_name, in_game, idle,
          players, joins, leaves, kicks>>

Links == {"new", "open", "closing", "lost"}
Modes == {"handshaking", "status", "login", "configuration", "play"}

TypeOK ==
  /\ link \in [Conn -> Links]
  /\ mode \in [Conn -> Modes]
  /\ login_expecting \in [Conn -> {0, None}]
  /\ display_name \in [Conn -> Name \cup {None}]
  /\ in_game \in [Conn -> BOOLEAN]
  /\ idle \in [Conn -> 0..IdleLimit]
  /\ players \in SUBSET Conn
  /\ joins \in [Conn -> Nat]
  /\ leaves \in [Conn -> Nat]
  /\ kicks \in [Conn -> Nat]

(* Neither closed by this end nor lost: `not self.closed'.                 *)
Open_even_closing(c) == link[c] \in {"open", "closing"}
Open(c) == link[c] = "open"

(* protocol_modes.get(nextState): the names a set_protocol packet can ask  *)
(* for; a number outside the table gives None.                             *)
NextStates == {"init", "status", "login", "play", None}

(* check_protocol_mode_switch: the switches that do not raise.             *)
Transitions_unchecked == Modes \X NextStates
Transitions ==
  { <<"handshaking", "status">>, <<"handshaking", "login">>,
    <<"login", "play">>, <<"login", "configuration">>,
    <<"configuration", "play">> }

-----------------------------------------------------------------------------
(* Closing, losing and timing out                                          *)

Full_one_too_many == Cardinality(players) > MaxPlayers
Full == Cardinality(players) >= MaxPlayers

(* ServerProtocol.close(reason) on a connection whose mode is now m: a     *)
(* login is told with a "disconnect" packet, and the transport is asked to *)
(* close.  safe_kick is None everywhere in the code, so the delayed kick   *)
(* of "play" never happens.                                                *)
close(c, m) ==
  /\ link' = [link EXCEPT ![c] = "closing"]
  /\ kicks' = [kicks EXCEPT ![c] = IF m = "login" THEN @ + 1 ELSE @]

(* The modes in which a lost connection is taken out of factory.players.   *)
SeatedModes_not_login == {"play"}
SeatedModes == {"login", "play"}

(* Whether losing c calls player_left.                                     *)
player_left_only_in_play(c) == mode[c] = "play"
player_left(c) == in_game[c]

(* connection_lost of ServerProtocol and of Protocol.                      *)
drop(c) ==
  /\ link' = [link EXCEPT ![c] = "lost"]
  /\ players' = IF mode[c] \in SeatedModes THEN players \ {c} ELSE players
  /\ leaves' = [leaves EXCEPT ![c] = IF player_left(c) THEN @ + 1 ELSE @]
  /\ UNCHANGED <<mode, login_expecting, display_name, in_game, idle, joins,
                 kicks>>

connection_lost(c) ==
  /\ link[c] \in {"open", "closing"}
  /\ drop(c)

(* buildProtocol, __init__ and connection_made.                            *)
connection_made(c) ==
  /\ link[c] = "new"
  /\ link' = [link EXCEPT ![c] = "open"]
  /\ UNCHANGED <<mode, login_expecting, display_name, in_game, idle, players,
                 joins, leaves, kicks>>

(* Whether this update of connection_timer reaches its target and calls    *)
(* connection_timed_out.                                                   *)
timed_out_when_playing(c) == in_game[c] /\ idle[c] + 1 >= IdleLimit
timed_out(c) == idle[c] + 1 >= IdleLimit

(* One tick of the connection's ticker.  `idle' stops at its limit, where  *)
(* the task has fired and removed itself.                                  *)
tick(c) ==
  /\ Open(c)
  /\ idle' = [idle EXCEPT ![c] = IF @ < IdleLimit THEN @ + 1 ELSE @]
  /\ IF timed_out(c)
     THEN close(c, mode[c])
     ELSE UNCHANGED <<link, kicks>>
  /\ UNCHANGED <<mode, login_expecting, display_name, in_game, players,
                 joins, leaves>>

(* The embedding application closes a connection with a reason.            *)
app_close(c) ==
  /\ Open(c)
  /\ close(c, mode[c])
  /\ UNCHANGED <<mode, login_expecting, display_name, in_game, idle, players,
                 joins, leaves>>

-----------------------------------------------------------------------------
(* Packet handlers.  data_received restarts connection_timer after each    *)
(* packet whose handler returned.                                          *)

restart_timer(c) == idle' = [idle EXCEPT ![c] = 0]

Receiving(c, m) == Open(c) /\ mode[c] = m

(* Whether packet_set_protocol closes the connection it moves to login:    *)
(* `known' says that the announced version is the forced one, or one of    *)
(* minecraft_versions.                                                     *)
refused_only_unknown(next, known) == next = "login" /\ ~known
refused(next, known) == next = "login" /\ (~known \/ Full)

(* A refused version does not stop the handler: the connection still takes *)
(* a seat if there is one.  The second close() of a connection refused     *)
(* twice finds it closed and does nothing.                                 *)
packet_set_protocol(c, next, known) ==
  /\ Receiving(c, "handshaking")
  /\ IF <<mode[c], next>> \notin Transitions
     THEN drop(c)
     ELSE /\ mode' = [mode EXCEPT ![c] = next]
          /\ players' = IF next = "login" /\ ~Full THEN players \cup {c}
                                                   ELSE players
          /\ IF refused(next, known)
             THEN close(c, next)
             ELSE UNCHANGED <<link, kicks>>
          /\ restart_timer(c)
          /\ UNCHANGED <<login_expecting, display_name, in_game, joins, leaves>>

packet_login_start(c, name) ==
  /\ Receiving(c, "login")
  /\ IF login_expecting[c] # 0
     THEN drop(c)
     ELSE /\ display_name' = [display_name EXCEPT ![c] = name]
          /\ login_expecting' = [login_expecting EXCEPT ![c] = None]
          /\ restart_timer(c)
          /\ UNCHANGED <<link, mode, in_game, players, joins, leaves, kicks>>

(* Calls player_joined, which sets in_game.                                *)
packet_login_acknowledged(c) ==
  /\ Receiving(c, "login")
  /\ mode' = [mode EXCEPT ![c] = "configuration"]
  /\ in_game' = [in_game EXCEPT ![c] = TRUE]
  /\ joins' = [joins EXCEPT ![c] = @ + 1]
  /\ restart_timer(c)
  /\ UNCHANGED <<link, login_expecting, display_name, players, leaves, kicks>>

packet_finish_configuration(c) ==
  /\ Receiving(c, "configuration")
  /\ mode' = [mode EXCEPT ![c] = "play"]
  /\ restart_timer(c)
  /\ UNCHANGED <<link, login_expecting, display_name, in_game, players, joins,
                 leaves, kicks>>

(* packet_ping answers and calls close() without a reason.                 *)
packet_ping(c) ==
  /\ Receiving(c, "status")
  /\ link' = [link EXCEPT ![c] = "closing"]
  /\ restart_timer(c)
  /\ UNCHANGED <<mode, login_expecting, display_name, in_game, players, joins,
                 leaves, kicks>>

(* Any other packet of the current mode: packet_ping_start, which only     *)
(* answers, and packet_unhandled, which discards.                          *)
packet_other(c) ==
  /\ Open(c)
  /\ restart_timer(c)
  /\ UNCHANGED <<link, mode, login_expecting, display_name, in_game, players,
                 joins, leaves, kicks>>

-----------------------------------------------------------------------------
Init ==
  /\ link = [c \in Conn |-> "new"]
  /\ mode = [c \in Conn |-> "handshaking"]
  /\ login_expecting = [c \in Conn |-> 0]
  /\ display_name = [c \in Conn |-> None]
  /\ in_game = [c \in Conn |-> FALSE]
  /\ idle = [c \in Conn |-> 0]
  /\ players = {}
  /\ joins = [c \in Conn |-> 0]
  /\ leaves = [c \in Conn |-> 0]
  /\ kicks = [c \in Conn |-> 0]

packet_received(c) ==
  \/ \E next \in NextStates, known \in BOOLEAN : packet_set_protocol(c, next, known)
  \/ \E name \in Name : packet_login_start(c, name)
  \/ packet_login_acknowledged(c)
  \/ packet_finish_configuration(c)
  \/ packet_ping(c)
  \/ packet_other(c)

Next ==
  \E c \in Conn :
    \/ connection_made(c)
    \/ packet_received(c)
    \/ tick(c)
    \/ app_close(c)
    \/ connection_lost(c)

Spec == Init /\ [][Next]_vars

(* The reactor runs each connection's ticker, and completes a close that   *)
(* loseConnection() asked for (what was still to be written fits the       *)
(* kernel's send buffer).  Nothing is assumed of the remote client.        *)
Fairness ==
  \A c \in Conn :
    /\ WF_vars(tick(c))
    /\ WF_vars(link[c] = "closing" /\ connection_lost(c))

FairSpec == Spec /\ Fairness

-----------------------------------------------------------------------------
(* Properties                                                              *)

(* The factory never seats more than max_players connections, however the  *)
(* handshakes of different clients interleave with closes and losses       *)
(* (the check and the add of packet_set_protocol).                         *)
SeatCapacity == Cardinality(players) <= MaxPlayers

(* A connection still served past the handshake holds a seat: nobody logs  *)
(* in, configures or plays on a server that was full or that refused him.  *)
LoggingIn == {"login", "configuration", "play"}
SeatedWhileIn == \A c \in Conn : Open(c) /\ mode[c] \in LoggingIn => c \in players

(* The only seats connection_lost forgets to give back are those of        *)
(* connections that were lost while they were being configured.            *)
OrphanSeats ==
  \A c \in players : link[c] # "new" /\ (link[c] = "lost" => mode[c] = "configuration")

(* player_joined and player_left pair up: a connection joins at most once, *)
(* does not leave before it is lost, and has left exactly when it joined   *)
(* once it is lost.                                                        *)
JoinLeave ==
  \A c \in Conn :
    /\ joins[c] <= 1
    /\ leaves[c] = IF link[c] = "lost" THEN joins[c] ELSE 0

(* A client is told at most once why it is closed, although version check, *)
(* capacity check, timeout and application may each close it.              *)
OneKick == \A c \in Conn : kicks[c] <= 1

(* The server implements the roster it promises to its application.        *)
StageOf(l, playing) ==
  CASE l = "new" -> "absent"
    [] l = "lost" -> "gone"
    [] OTHER -> IF playing THEN "playing" ELSE "waiting"

Stage == [c \in Conn |-> StageOf(link[c], in_game[c])]

Roster == INSTANCE PlayerRoster WITH stage <- Stage, seats <- players
RosterSpec == Roster!Spec

(* Who joins the game has said who he is, as the comment on                *)
(* login_expecting claims ("used to stop people breaking the login process *)
(* by sending packets out-of-order or duplicated").  The code checks       *)
(* login_expecting in packet_login_start only, so this does not hold.      *)
JoinedNamed == \A c \in Conn : in_game[c] => display_name[c] # None

(* The seat of a connection that closes is given back, unless it closes    *)
(* while being configured.                                                 *)
FreedSeats ==
  \A c \in Conn :
    (link[c] = "closing" /\ mode[c] # "configuration") ~> (c \notin players)

(* A client that falls silent is dropped: every connection is over or      *)
(* hears a packet again and again (connection_timer).                      *)
SilentDropped == \A c \in Conn : []<>(~Open(c) \/ idle[c] = 0)
=============================================================================
