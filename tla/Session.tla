------------------------------- MODULE Session -------------------------------
(***************************************************************************)
(* A client of this library against a server of this library: ClientLogin, *)
(* with its login connection and the status ping that finds the version,   *)
(* and ServerProtocol with the two ends of these connections, composed     *)
(* over a TCP stream in each direction of each connection.                 *)
(*                                                                         *)
(* A step of an end takes at most one packet from the stream to it and     *)
(* appends what its handler sends to the stream to the other.  What both   *)
(* modules leave open is fixed here: which packet comes next, and which    *)
(* versions the server announces and accepts.  Timers are as short as can  *)
(* be, so that they may fire at any time; the server is offline.  Packets  *)
(* arrive whole: RecvBuffer has what happens when they do not.             *)
(***************************************************************************)
EXTENDS Integers, Sequences, FiniteSets

CONSTANTS
  Version, Supported, Latest, None,  \* as in ClientLogin
  MaxData     \* bound: application packets under way in one direction

ASSUME LatestSupported == Latest \in Supported /\ Supported \subseteq Version
ASSUME MaxDataNat == MaxData \in Nat
ASSUME NoneIsNone == None \notin Version /\ None \notin {"player", 0}

VARIABLES
  \* The client's end of both connections, and its factory.
  client_link, client_mode, client_idle, forced, online, protocol_version,
  detected, secrets, cipher, sent, request, deferred,
  \* The server's end of both connections, and its factory.
  server_link, server_mode, server_idle, login_expecting, display_name,
  in_game, players, joins, leaves, kicks,
  server_forced,      \* the server factory's force_protocol_version; constant
  to_server,          \* the streams: packets written and not yet read
  to_client,
  can_save,           \* whether dumps of failed packets can be written; constant
  started,            \* whether the server's application ended the configuration
  strays              \* history: packets read otherwise than they were written

client_vars == <<client_link, client_mode, client_idle, forced, online,
                 protocol_version, detected, secrets, cipher, sent, request, deferred>>
server_vars == <<server_link, server_mode, server_idle, login_expecting,
                 display_name, in_game, players, joins, leaves, kicks>>
settings == <<server_forced, can_save>>
vars == <<client_vars, server_vars, settings, to_server, to_client, started, strays>>

Role == {"login", "status"}

Client == INSTANCE ClientLogin WITH
  link <- client_link, mode <- client_mode, idle <- client_idle,
  IdleLimit <- 1, MaxJoins <- 0

Server == INSTANCE ServerProtocol WITH
  link <- server_link, mode <- server_mode, idle <- server_idle,
  Conn <- Role, Name <- {"player"}, MaxPlayers <- 1, IdleLimit <- 1

-----------------------------------------------------------------------------
(* Packets carry the mode and the version of the tables they are packed    *)
(* with.  Both ends load the tables of LATEST_PROTOCOL_VERSION in __init__;*)
(* neither loads others when a version is agreed on: connection_made only  *)
(* overwrites protocol_version, packet_set_protocol loads its own again.   *)

client_tables_of_announced == protocol_version
client_tables == Latest
server_tables == Latest

Versioned == {"set_protocol", "server_info"}
Packet ==
  [name : Versioned, mode : Client!Modes, tables : Version, with : Version]
    \cup [name : {"ping_start", "login_start", "success", "disconnect",
                  "login_acknowledged", "finish_configuration", "data"},
          mode : Client!Modes, tables : Version, with : {None}]

FromClient(name, mode, with) ==
  [name |-> name, mode |-> mode, tables |-> client_tables, with |-> with]
FromServer(r, name, with) ==
  [name |-> name, mode |-> server_mode'[r], tables |-> server_tables, with |-> with]

(* The modes of the client's packets; send_packet raises in any other.     *)
ModeOf ==
  [set_protocol |-> "handshaking", login_start |-> "login",
   login_acknowledged |-> "login", finish_configuration |-> "configuration"]

(* What a step of the client wrote on its login connection.                *)
LoginWrites ==
  [i \in 1..(Len(sent') - Len(sent)) |->
     LET p == sent'[Len(sent) + i] IN FromClient(p.name, ModeOf[p.name], p.with)]

(* What connection_made wrote on the status connection.                    *)
StatusWrites ==
  IF client_mode["status"] = "handshaking" /\ client_mode'["status"] = "status"
  THEN <<FromClient("set_protocol", "handshaking", Latest),
         FromClient("ping_start", "status", None)>>
  ELSE <<>>

(* What a "disconnect" of close() adds in a step of the server's end r.    *)
Kick(r) == IF kicks'[r] > kicks[r] THEN <<FromServer(r, "disconnect", None)>> ELSE <<>>

(* The rest of a step of the client, or of the server's end r in which it  *)
(* also writes ps: nobody reads what is under way to a lost end.           *)
ClientStep(streams_in) ==
  /\ to_client' = [r \in Role |-> IF client_link'[r] = "lost" THEN <<>> ELSE streams_in[r]]
  /\ to_server' = [r \in Role |->
       IF server_link[r] = "lost" THEN <<>>
       ELSE to_server[r] \o (IF r = "login" THEN LoginWrites ELSE StatusWrites)]
  /\ UNCHANGED <<server_vars, settings, started>>

ServerStep(r, stream_in, ps) ==
  /\ to_server' = [to_server EXCEPT ![r] = IF server_link'[r] = "lost" THEN <<>> ELSE stream_in]
  /\ to_client' = [to_client EXCEPT ![r] =
       IF client_link[r] = "lost" THEN <<>> ELSE @ \o ps]
  /\ UNCHANGED <<client_vars, settings>>

-----------------------------------------------------------------------------
(* Reading                                                                 *)

Stray(p, mode, tables) == p.mode # mode \/ p.tables # tables
StrayOf(end, p, mode, tables) ==
  [at |-> end, name |-> p.name, written |-> p.mode, read |-> mode, same |-> p.tables = tables]

(* A "disconnect" of login is packet 0 with a string; in configuration     *)
(* that is a cookie_request, which is discarded.  Other packets do not     *)
(* fit what has their number in another mode, and are not unpacked.        *)
(* External: the tables of minecraft-data.                                 *)
ReadAsAnother(p, mode) == p.name = "disconnect" /\ mode = "configuration"

client_reads(r) ==
  /\ to_client[r] # <<>>
  /\ client_link[r] = "open"
  /\ LET p == Head(to_client[r])
     IN /\ IF Stray(p, client_mode[r], client_tables)
           THEN /\ IF ReadAsAnother(p, client_mode[r]) THEN Client!packet_other(r)
                   ELSE IF can_save THEN UNCHANGED client_vars
                   ELSE Client!drop(r)
                /\ strays' = strays \cup {StrayOf("client", p, client_mode[r], client_tables)}
           ELSE /\ \/ p.name = "server_info" /\ Client!packet_server_info(p.with)
                   \/ p.name = "success" /\ Client!packet_success
                   \/ p.name = "finish_configuration" /\ Client!packet_finish_configuration
                   \/ p.name = "disconnect" /\ Client!packet_disconnect
                   \/ p.name = "data" /\ Client!packet_other(r)
                /\ UNCHANGED strays
        /\ ClientStep([to_client EXCEPT ![r] = Tail(@)])

(* The status names the forced version, or else protocol_version.          *)
announced_unforced == Latest
announced_forced == server_forced
announced == IF server_forced # None THEN server_forced ELSE Latest

(* Whether packet_set_protocol accepts the version.                        *)
Known(v) == IF server_forced # None THEN v = server_forced ELSE v \in Supported

server_handles(r, p) ==
  LET rest == Tail(to_server[r])
  IN \/ /\ p.name = "set_protocol"
        /\ Server!packet_set_protocol(r, r, Known(p.with))
        /\ ServerStep(r, rest, Kick(r))
     \/ /\ p.name = "ping_start"
        /\ Server!packet_other(r)
        /\ ServerStep(r, rest, <<FromServer(r, "server_info", announced)>>)
     \/ /\ p.name = "login_start"
        /\ Server!packet_login_start(r, "player")
        /\ ServerStep(r, rest, IF login_expecting[r] = 0
                               THEN <<FromServer(r, "success", None)>> ELSE <<>>)
     \/ /\ p.name = "login_acknowledged"
        /\ Server!packet_login_acknowledged(r)
        /\ ServerStep(r, rest, <<>>)
     \/ /\ p.name = "finish_configuration"
        /\ Server!packet_finish_configuration(r)
        /\ ServerStep(r, rest,
             <<[FromServer(r, "finish_configuration", None) EXCEPT !.mode = "configuration"]>>)
     \/ /\ p.name = "data"
        /\ Server!packet_other(r)
        /\ ServerStep(r, rest, <<>>)

server_reads(r) ==
  /\ to_server[r] # <<>>
  /\ server_link[r] = "open"
  /\ UNCHANGED started
  /\ LET p == Head(to_server[r])
     IN IF Stray(p, server_mode[r], server_tables)
        THEN /\ IF can_save THEN UNCHANGED server_vars ELSE Server!drop(r)
             /\ strays' = strays \cup {StrayOf("server", p, server_mode[r], server_tables)}
             /\ ServerStep(r, Tail(to_server[r]), <<>>)
        ELSE server_handles(r, p) /\ UNCHANGED strays

-----------------------------------------------------------------------------
(* Connections, timers, applications                                       *)

(* A close(), a timeout or the loss of an end; a connection is made at     *)
(* both ends in either order.                                              *)
client_else(r) ==
  /\ \/ Client!connection_made(r)
     \/ Client!connection_lost(r)
     \/ Client!close(r)
     \/ Client!tick(r)
  /\ ClientStep(to_client)
  /\ UNCHANGED strays

server_else(r) ==
  /\ \/ client_link[r] # "none" /\ Server!connection_made(r)
     \/ Server!connection_lost(r)
     \/ Server!app_close(r)
     \/ Server!tick(r)
  /\ ServerStep(r, to_server[r], Kick(r))
  /\ UNCHANGED <<started, strays>>

(* The applications send packets of the mode they are in, the server's     *)
(* none while it waits for the configuration to end.                       *)
(* External: what is built on the library.                                 *)
Room(stream) == Cardinality({i \in DOMAIN stream : stream[i].name = "data"}) < MaxData

client_sends ==
  /\ client_link["login"] = "open"
  /\ client_mode["login"] \in {"configuration", "play"}
  /\ Room(to_server["login"])
  /\ server_link["login"] # "lost"
  /\ to_server' = [to_server EXCEPT !["login"] =
       Append(@, FromClient("data", client_mode["login"], None))]
  /\ UNCHANGED <<client_vars, server_vars, settings, to_client, started, strays>>

ServerMaySend ==
  /\ server_link["login"] = "open"
  /\ \/ server_mode["login"] = "configuration" /\ ~started
     \/ server_mode["login"] = "play"

server_sends ==
  /\ ServerMaySend
  /\ Room(to_client["login"])
  /\ UNCHANGED <<server_vars, started, strays>>
  /\ ServerStep("login", to_server["login"], <<FromServer("login", "data", None)>>)

(* The server's application ends the configuration.  Nothing in the        *)
(* library does: without this both ends wait for the other to begin.       *)
server_starts ==
  /\ ServerMaySend
  /\ server_mode["login"] = "configuration"
  /\ started' = TRUE
  /\ UNCHANGED <<server_vars, strays>>
  /\ ServerStep("login", to_server["login"],
                <<FromServer("login", "finish_configuration", None)>>)

-----------------------------------------------------------------------------
Init ==
  /\ Client!Init /\ ~online
  /\ Server!Init
  /\ server_forced \in Version \cup {None}
  /\ can_save \in BOOLEAN
  /\ to_server = [r \in Role |-> <<>>]
  /\ to_client = [r \in Role |-> <<>>]
  /\ started = FALSE
  /\ strays = {}

Next ==
  \/ \E r \in Role : client_reads(r) \/ server_reads(r) \/ client_else(r) \/ server_else(r)
  \/ client_sends
  \/ server_sends
  \/ server_starts

Spec == Init /\ [][Next]_vars

-----------------------------------------------------------------------------
(* Properties                                                              *)

(* Neither end leaves the states that its own module gives it, and streams *)
(* hold packets of tables that there are.                                  *)
TypeOK ==
  /\ Client!TypeOK
  /\ Server!TypeOK
  /\ to_server \in [Role -> Seq(Packet)]
  /\ to_client \in [Role -> Seq(Packet)]

(* Each end reads a packet with the tables and in the mode it was written  *)
(* with, whatever versions are forced, detected and announced, but for two *)
(* packets of the server: the finish_configuration with which it answers   *)
(* the client's, who is in play by then, and the "disconnect" of a close   *)
(* between `success' and its acknowledgement.                              *)
ReadAsWritten ==
  strays \subseteq
    { [at |-> "client", name |-> "finish_configuration", written |-> "configuration",
       read |-> "play", same |-> TRUE],
      [at |-> "client", name |-> "disconnect", written |-> "login",
       read |-> "configuration", same |-> TRUE] }

(* The server's login never gets ahead of the client's: a player joins     *)
(* only with a client that read `success', under its name, and plays only  *)
(* with one that plays.  Neither plays unless the application ended the    *)
(* configuration: each end waits for the other's finish_configuration.     *)
(* Between both ends of this library JoinedNamed of ServerProtocol holds.  *)
ServerBehind ==
  /\ in_game["login"] =>
       /\ display_name["login"] # None
       /\ client_mode["login"] \in {"configuration", "play"}
  /\ server_mode["login"] = "play" => client_mode["login"] = "play"
  /\ client_mode["login"] = "play" => started

(* A client that asks for the server's version is not refused for it, and  *)
(* whoever joins the game announced a version that the server accepts.     *)
VersionAgreed ==
  /\ in_game["login"] => Known(protocol_version)
  /\ forced = None =>
       \A i \in DOMAIN to_server["login"] :
         LET p == to_server["login"][i] IN p.name = "set_protocol" => Known(p.with)
=============================================================================
