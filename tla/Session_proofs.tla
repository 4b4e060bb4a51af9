--------------------------- MODULE Session_proofs ---------------------------
(***************************************************************************)
(* Proofs about Session, for any versions and any MaxData.  Each end keeps *)
(* its own inductive invariant, that of ClientLogin_proofs and that of     *)
(* ServerProtocol_proofs; what is added here relates the two over the      *)
(* packets under way.  The packets to the server lead, one mode to the     *)
(* next, from the mode the server is in to the one the client is in; the   *)
(* packets to the client are those that it still has a use for, with the   *)
(* two exceptions that ReadAsWritten names.                                *)
(***************************************************************************)
EXTENDS Session, SequenceTheorems, FiniteSetTheorems, TLAPS

CP == INSTANCE ClientLogin_proofs WITH
  link <- client_link, mode <- client_mode, idle <- client_idle,
  IdleLimit <- 1, MaxJoins <- 0

SP == INSTANCE ServerProtocol_proofs WITH
  link <- server_link, mode <- server_mode, idle <- server_idle,
  Conn <- Role, Name <- {"player"}, MaxPlayers <- 1, IdleLimit <- 1

(* Both ends pack with the tables of Latest.                               *)
PacketOf(name, mode, with) ==
  [name |-> name, mode |-> mode, tables |-> Latest, with |-> with]

(* The mode both ends are in after a packet of the login is written or     *)
(* read.                                                                   *)
ModeAfter(p) ==
  CASE p.name = "set_protocol" -> "login"
    [] p.name = "login_acknowledged" -> "configuration"
    [] p.name = "finish_configuration" -> "play"
    [] OTHER -> p.mode

(* The modes of a login up to m.                                           *)
Upto(m) ==
  CASE m = "login" -> {"handshaking", "login"}
    [] m = "configuration" -> {"handshaking", "login", "configuration"}
    [] m = "play" -> {"handshaking", "login", "configuration", "play"}
    [] OTHER -> {"handshaking"}

(* s leads from mode m to mode e.                                          *)
Chain(s, m, e) ==
  /\ s = <<>> => m = e
  /\ s # <<>> => s[1].mode = m /\ ModeAfter(s[Len(s)]) = e
  /\ \A i \in 1..Len(s) - 1 : s[i + 1].mode = ModeAfter(s[i])

(* What a client that announces version v writes on its login connection.  *)
LoginPackets(v) ==
  { PacketOf("set_protocol", "handshaking", v), PacketOf("login_start", "login", None),
    PacketOf("login_acknowledged", "login", None),
    PacketOf("finish_configuration", "configuration", None),
    PacketOf("data", "configuration", None), PacketOf("data", "play", None) }

(* s is under way to a server in mode m, whose transport is in state l,    *)
(* from a client that announced v and wrote itself into mode e.            *)
ToServer(s, m, e, v, l) ==
  /\ s \in Seq(Packet)
  /\ \A i \in 1..Len(s) : s[i] \in LoginPackets(v) /\ ModeAfter(s[i]) \in Upto(e)
  /\ m \in Upto(e)
  /\ IF l = "lost" THEN s = <<>> ELSE Chain(s, m, e)

(* What packet i of the n that are under way to a client in mode c can be: *)
(* m, l and x are the server's mode, transport and login_expecting.        *)
Meant(p, i, n, c, m, l, x, begun) ==
  \/ /\ p = PacketOf("success", "login", None)
     /\ i = 1 /\ c = "login" /\ x # 0
  \/ /\ p = PacketOf("disconnect", "login", None)
     /\ c \in {"login", "configuration"} /\ m = "login" /\ l \in {"closing", "lost"}
  \/ /\ p = PacketOf("data", "configuration", None)
     /\ c = "configuration" /\ m \in {"configuration", "play"}
  \/ /\ p = PacketOf("finish_configuration", "configuration", None)
     /\ begun /\ (c = "play" \/ (c = "configuration" /\ i = n))
  \/ /\ p = PacketOf("data", "play", None)
     /\ c = "play"

ToClient(s, c, m, l, x, begun) ==
  /\ s \in Seq(Packet)
  /\ \A i \in 1..Len(s) : Meant(s[i], i, Len(s), c, m, l, x, begun)

(* How the two ends' logins go together.                                   *)
LoginModes == {"handshaking", "login", "configuration", "play"}
Stages(c, m, x, name, begun) ==
  /\ c \in LoginModes /\ m \in LoginModes
  /\ c \in {"configuration", "play"} => x # 0
  /\ x # 0 => name # None
  /\ c = "play" => begun
  /\ begun => m \in {"configuration", "play"}

(* The mode that the client's packets lead to: a client whose connection   *)
(* is lost when the version is detected is in login and wrote nothing.     *)
Said == IF sent = <<>> THEN "handshaking" ELSE client_mode["login"]

LoginStreams ==
  /\ ToServer(to_server["login"], server_mode["login"], Said, protocol_version,
              server_link["login"])
  /\ ToClient(to_client["login"], client_mode["login"], server_mode["login"],
              server_link["login"], login_expecting["login"], started)
  /\ Stages(client_mode["login"], server_mode["login"], login_expecting["login"],
            display_name["login"], started)
  /\ client_mode["login"] \in {"configuration", "play"} => sent # <<>>

(* The version that is announced is one that the server accepts once it    *)
(* was asked for, and once it let the client in.                           *)
Versions ==
  /\ server_forced \in Version \cup {None}
  /\ forced = None /\ sent # <<>> => Known(protocol_version)
  /\ server_mode["login"] = "login" /\ server_link["login"] = "open" => Known(protocol_version)
  /\ in_game["login"] => Known(protocol_version)

(* The ping, with a server in mode m and a client in mode c.               *)
StatusAsked(s, m) ==
  LET announce == PacketOf("set_protocol", "handshaking", Latest)
      ask == PacketOf("ping_start", "status", None)
  IN  s \in IF m = "handshaking" THEN {<<>>, <<announce, ask>>} ELSE {<<>>, <<ask>>}
StatusTold(s, v) ==
  /\ s \in Seq(Packet)
  /\ \A i \in 1..Len(s) : s[i] = PacketOf("server_info", "status", v)

StatusStreams ==
  /\ client_mode["status"] \in {"handshaking", "status"}
  /\ server_mode["status"] \in {"handshaking", "status"}
  /\ client_mode["status"] = "handshaking" =>
       /\ server_mode["status"] = "handshaking"
       /\ to_server["status"] = <<>> /\ to_client["status"] = <<>>
  /\ StatusAsked(to_server["status"], server_mode["status"])
  /\ StatusTold(to_client["status"], announced)

IInv ==
  /\ CP!IInv
  /\ SP!IInv
  /\ to_server \in [Role -> Seq(Packet)] /\ to_client \in [Role -> Seq(Packet)]
  /\ started \in BOOLEAN
  /\ LoginStreams
  /\ Versions
  /\ StatusStreams
  /\ ReadAsWritten

-----------------------------------------------------------------------------
(* Each end takes a step of its own module, or none.                       *)

LEMMA ClientTakes ==
  ASSUME CP!IInv,
         NEW r \in Role,
         \/ Client!connection_made(r) \/ Client!connection_lost(r)
         \/ Client!close(r) \/ Client!tick(r) \/ Client!packet_other(r)
         \/ client_link[r] = "open" /\ Client!drop(r)
         \/ \E v \in Version : Client!packet_server_info(v)
         \/ Client!packet_success \/ Client!packet_finish_configuration
         \/ Client!packet_disconnect
         \/ UNCHANGED client_vars
  PROVE  CP!IInv'
<1> USE DEF Role, CP!Role, Client!Role
<1>1. [CP!Next]_CP!vars
  <2>1. CASE Client!connection_made(r)
    BY <2>1 DEF Client!connection_made, CP!connection_made, Client!PacketOf, CP!PacketOf,
       Client!settings, CP!settings, Client!profile_vars, CP!profile_vars, CP!Next
  <2>2. CASE Client!connection_lost(r) \/ (client_link[r] = "open" /\ Client!drop(r))
    BY <2>2 DEF Client!connection_lost, CP!connection_lost, Client!drop, CP!drop,
       Client!settings, CP!settings, Client!profile_vars, CP!profile_vars,
       Client!login_vars, CP!login_vars, CP!Next
  <2>3. CASE Client!close(r) \/ Client!tick(r)
    BY <2>3 DEF Client!close, CP!close, Client!tick, CP!tick, Client!timed_out, CP!timed_out,
       Client!settings, CP!settings, Client!profile_vars, CP!profile_vars,
       Client!login_vars, CP!login_vars, CP!Next
  <2>4. CASE Client!packet_other(r)
    BY <2>4 DEF Client!packet_other, CP!packet_other, Client!restart_timer, CP!restart_timer,
       Client!settings, CP!settings, Client!profile_vars, CP!profile_vars,
       Client!login_vars, CP!login_vars, CP!Next
  <2>5. ASSUME NEW v \in Version, Client!packet_server_info(v) PROVE CP!packet_server_info(v)
    BY <2>5 DEF Client!packet_server_info, CP!packet_server_info, Client!Receiving,
       CP!Receiving, Client!ping_closes, CP!ping_closes, Client!restart_timer,
       CP!restart_timer, Client!detectable, CP!detectable, Client!switch_to_login,
       CP!switch_to_login, Client!Written, CP!Written, Client!PacketOf, CP!PacketOf,
       Client!settings, CP!settings, Client!profile_vars, CP!profile_vars
  <2>6. CASE \E v \in Version : Client!packet_server_info(v)
    BY <2>5, <2>6 DEF CP!Next
  <2>7. CASE Client!packet_success \/ Client!packet_finish_configuration
    BY <2>7 DEF Client!packet_success, CP!packet_success, Client!packet_finish_configuration,
       CP!packet_finish_configuration, Client!Receiving, CP!Receiving, Client!Written,
       CP!Written, Client!PacketOf, CP!PacketOf, Client!restart_timer, CP!restart_timer,
       Client!settings, CP!settings, Client!profile_vars, CP!profile_vars, CP!Next
  <2>8. CASE Client!packet_disconnect
    BY <2>8 DEF Client!packet_disconnect, CP!packet_disconnect, Client!restart_timer,
       CP!restart_timer, Client!settings, CP!settings, Client!profile_vars,
       CP!profile_vars, Client!login_vars, CP!login_vars, CP!Next
  <2>9. CASE UNCHANGED client_vars
    BY <2>9 DEF client_vars, CP!vars, CP!settings, CP!profile_vars, CP!login_vars
  <2> QED
    BY <2>1, <2>2, <2>3, <2>4, <2>6, <2>7, <2>8, <2>9
<1> QED
  BY <1>1, CP!IInvNext, LatestSupported, NoneIsNone

(* Each instance of a module has its own copy of the operators of          *)
(* FiniteSets, by the same definition.                                     *)
LEMMA SameFull == SP!Full <=> Server!Full
BY DEF SP!Full, Server!Full, SP!Cardinality, Server!Cardinality

LEMMA RoleFinite == SP!IsFiniteSet(Role)
<1>1. Role = {"login"} \cup {"status"}
  BY DEF Role
<1>2. IsFiniteSet({"login"})
  BY FS_Singleton
<1>3. IsFiniteSet(Role)
  BY <1>1, <1>2, FS_AddElement
<1> QED
  BY <1>3 DEF SP!IsFiniteSet, IsFiniteSet

LEMMA ServerTakes ==
  ASSUME SP!IInv,
         NEW r \in Role,
         \/ Server!connection_made(r) \/ Server!connection_lost(r)
         \/ Server!app_close(r) \/ Server!tick(r) \/ Server!packet_other(r)
         \/ server_link[r] = "open" /\ Server!drop(r)
         \/ \E known \in BOOLEAN : Server!packet_set_protocol(r, r, known)
         \/ Server!packet_login_start(r, "player")
         \/ Server!packet_login_acknowledged(r) \/ Server!packet_finish_configuration(r)
         \/ UNCHANGED server_vars
  PROVE  SP!IInv'
<1>1. [SP!Next]_SP!vars
  <2> USE DEF SP!Open, Server!Open, SP!Receiving, Server!Receiving, SP!restart_timer,
              Server!restart_timer, SP!close, Server!close
  <2>1. CASE Server!connection_made(r)
    BY <2>1 DEF Server!connection_made, SP!connection_made, SP!Next
  <2>2. CASE Server!connection_lost(r) \/ (server_link[r] = "open" /\ Server!drop(r))
    BY <2>2 DEF Server!connection_lost, SP!connection_lost, Server!drop, SP!drop,
       Server!SeatedModes, SP!SeatedModes, Server!player_left, SP!player_left, SP!Next
  <2>3. CASE Server!app_close(r)
    BY <2>3 DEF Server!app_close, SP!app_close, SP!Next
  <2>4. CASE Server!tick(r)
    BY <2>4 DEF Server!tick, SP!tick, Server!timed_out, SP!timed_out, SP!Next
  <2>5. CASE Server!packet_other(r)
    BY <2>5 DEF Server!packet_other, SP!packet_other, SP!packet_received, SP!Next
  <2>6. ASSUME NEW known \in BOOLEAN, Server!packet_set_protocol(r, r, known)
        PROVE  SP!packet_set_protocol(r, r, known)
    BY <2>6, SameFull DEF Server!packet_set_protocol, SP!packet_set_protocol, Server!Transitions,
       SP!Transitions, Server!drop, SP!drop, Server!SeatedModes, SP!SeatedModes,
       Server!player_left, SP!player_left, Server!refused, SP!refused
  <2>7. CASE \E known \in BOOLEAN : Server!packet_set_protocol(r, r, known)
    <3>1. r \in SP!NextStates
      BY DEF Role, SP!NextStates
    <3> QED
      BY <2>6, <2>7, <3>1 DEF SP!packet_received, SP!Next
  <2>8. CASE Server!packet_login_start(r, "player")
    <3>1. SP!packet_login_start(r, "player")
      BY <2>8 DEF Server!packet_login_start, SP!packet_login_start, Server!drop, SP!drop,
         Server!SeatedModes, SP!SeatedModes, Server!player_left, SP!player_left
    <3> QED
      BY <3>1 DEF SP!packet_received, SP!Next
  <2>9. CASE Server!packet_login_acknowledged(r) \/ Server!packet_finish_configuration(r)
    BY <2>9 DEF Server!packet_login_acknowledged, SP!packet_login_acknowledged,
       Server!packet_finish_configuration, SP!packet_finish_configuration,
       SP!packet_received, SP!Next
  <2>10. CASE UNCHANGED server_vars
    BY <2>10 DEF server_vars, SP!vars
  <2> QED
    BY <2>1, <2>2, <2>3, <2>4, <2>5, <2>7, <2>8, <2>9, <2>10
<1> QED
  BY <1>1, RoleFinite, SP!IInvNext, NoneIsNone

-----------------------------------------------------------------------------
(* Streams                                                                 *)

(* What is left of a stream when its head was read, and what it becomes    *)
(* when p is written.                                                      *)
IsTail(t, s) ==
  /\ t \in Seq(Packet) /\ Len(t) = Len(s) - 1
  /\ \A i \in 1..Len(s) - 1 : t[i] = s[i + 1]
IsAppend(t, s, p) ==
  /\ t \in Seq(Packet) /\ Len(t) = Len(s) + 1
  /\ \A i \in 1..Len(s) : t[i] = s[i]
  /\ t[Len(s) + 1] = p

LEMMA TailOf ==
  ASSUME NEW s \in Seq(Packet), s # <<>>
  PROVE  Head(s) = s[1] /\ Head(s) \in Packet /\ IsTail(Tail(s), s)
BY HeadTailProperties DEF IsTail

LEMMA AppendOf ==
  ASSUME NEW s \in Seq(Packet), NEW p \in Packet
  PROVE  /\ s \o <<p>> = Append(s, p)
         /\ IsAppend(Append(s, p), s, p)
<1>1. s \o <<p>> = Append(s, p)
  BY AppendIsConcat
<1>2. IsAppend(Append(s, p), s, p)
  BY AppendProperties DEF IsAppend
<1> QED
  BY <1>1, <1>2

LEMMA NothingAdded ==
  ASSUME NEW s \in Seq(Packet) PROVE s \o <<>> = s
BY ConcatEmptySeq

(* Names tell the packets apart, and they have the modes they should.      *)
LEMMA LoginPacketsAre ==
  ASSUME NEW v \in Version, NEW p \in LoginPackets(v)
  PROVE  /\ p \in Packet /\ p.tables = Latest
         /\ p.mode \in LoginModes /\ ModeAfter(p) \in LoginModes
         /\ Upto(p.mode) \subseteq Upto(ModeAfter(p))
<1> USE LatestSupported DEF PacketOf, Client!Modes
<1>1. p \in Packet /\ p.tables = Latest
  BY DEF LoginPackets, Packet, Versioned
<1>2. p.mode \in LoginModes /\ ModeAfter(p) \in LoginModes
  BY DEF LoginPackets, ModeAfter, LoginModes
<1>3. Upto(p.mode) \subseteq Upto(ModeAfter(p))
  BY DEF LoginPackets, ModeAfter, Upto
<1> QED
  BY <1>1, <1>2, <1>3

LEMMA UptoItself == ASSUME NEW m \in LoginModes PROVE m \in Upto(m)
BY DEF LoginModes, Upto

-----------------------------------------------------------------------------
(* The stream to the server                                                *)

(* Nobody reads what is under way to a lost end.                           *)
LEMMA ServerLost ==
  ASSUME NEW s, NEW m, NEW e, NEW v, NEW l, ToServer(s, m, e, v, l)
  PROVE  ToServer(<<>>, m, e, v, "lost")
BY DEF ToServer

LEMMA ServerLinkMoves ==
  ASSUME NEW s, NEW m, NEW e, NEW v, NEW l, ToServer(s, m, e, v, l),
         NEW k, l # "lost", k # "lost"
  PROVE  ToServer(s, m, e, v, k)
BY DEF ToServer

(* The server reads packets in the mode it is in, and goes no further than *)
(* the client has gone.                                                    *)
LEMMA ServerReads ==
  ASSUME NEW s, NEW m, NEW e, NEW v \in Version, NEW l, ToServer(s, m, e, v, l),
         l # "lost", s # <<>>, NEW k
  PROVE  /\ Head(s) \in LoginPackets(v) /\ Head(s).mode = m
         /\ ModeAfter(Head(s)) \in Upto(e)
         /\ ToServer(IF k = "lost" THEN <<>> ELSE Tail(s), ModeAfter(Head(s)), e, v, k)
<1>1. s \in Seq(Packet) /\ Chain(s, m, e)
  BY DEF ToServer
<1>2. Head(s) = s[1] /\ IsTail(Tail(s), s)
  BY <1>1, TailOf
<1>3. PICK n \in Nat : n = Len(s)
  BY <1>1
<1>4. n >= 1
  BY <1>1, <1>3
<1>5. PICK t, p : t = Tail(s) /\ p = s[1]
  OBVIOUS
<1>6. /\ t \in Seq(Packet) /\ Len(t) = n - 1
      /\ \A i \in 1..n - 1 : t[i] = s[i + 1]
  BY <1>2, <1>3, <1>5 DEF IsTail
<1>7. \A i \in 1..n : s[i] \in LoginPackets(v) /\ ModeAfter(s[i]) \in Upto(e)
  BY <1>3 DEF ToServer
<1>8. p \in LoginPackets(v) /\ p.mode = m /\ ModeAfter(p) \in Upto(e)
  BY <1>1, <1>4, <1>5, <1>7 DEF Chain
<1>9. \A i \in 1..n - 1 : s[i + 1].mode = ModeAfter(s[i])
  BY <1>1, <1>3 DEF Chain
<1>10. ModeAfter(s[n]) = e
  BY <1>1, <1>3 DEF Chain
<1>11. \A i \in 1..Len(t) : t[i] \in LoginPackets(v) /\ ModeAfter(t[i]) \in Upto(e)
  BY <1>4, <1>6, <1>7
<1>12. Chain(t, ModeAfter(p), e)
  <2>1. ASSUME t = <<>> PROVE ModeAfter(p) = e
    <3>1. n = 1
      BY <1>6, <2>1
    <3> QED
      BY <1>5, <1>10, <3>1
  <2>2. ASSUME t # <<>> PROVE t[1].mode = ModeAfter(p) /\ ModeAfter(t[Len(t)]) = e
    <3>1. n > 1
      BY <1>3, <1>4, <1>6, <2>2
    <3>2. 1 \in 1..n - 1 /\ n - 1 \in 1..n - 1 /\ (n - 1) + 1 = n /\ 1 + 1 = 2
      BY <3>1
    <3>3. t[1] = s[2] /\ s[2].mode = ModeAfter(s[1])
      BY <1>6, <1>9, <3>2
    <3>4. t[n - 1] = s[n]
      BY <1>6, <3>2
    <3> QED
      BY <1>5, <1>6, <1>10, <3>3, <3>4
  <2>3. ASSUME NEW i \in 1..Len(t) - 1 PROVE t[i + 1].mode = ModeAfter(t[i])
    <3>1. i \in 1..n - 1 /\ i + 1 \in 1..n - 1
      BY <1>4, <1>6
    <3>2. t[i] = s[i + 1] /\ t[i + 1] = s[(i + 1) + 1] /\ s[(i + 1) + 1].mode = ModeAfter(s[i + 1])
      BY <1>6, <1>9, <3>1
    <3> QED
      BY <3>2
  <2> QED
    BY <2>1, <2>2, <2>3 DEF Chain
<1>13. ToServer(IF k = "lost" THEN <<>> ELSE t, ModeAfter(p), e, v, k)
  BY <1>6, <1>8, <1>11, <1>12 DEF ToServer
<1> QED
  BY <1>2, <1>5, <1>8, <1>13

(* The client writes packets of the mode it is in.                         *)
LEMMA ClientWrites ==
  ASSUME NEW s, NEW m, NEW e, NEW v \in Version, NEW l, ToServer(s, m, e, v, l),
         NEW p \in LoginPackets(v), p.mode = e
  PROVE  ToServer(IF l = "lost" THEN <<>> ELSE Append(s, p), m, ModeAfter(p), v, l)
<1>1. s \in Seq(Packet) /\ m \in Upto(e)
  BY DEF ToServer
<1>2. p \in Packet /\ ModeAfter(p) \in LoginModes /\ Upto(e) \subseteq Upto(ModeAfter(p))
  BY LoginPacketsAre
<1>3. ModeAfter(p) \in Upto(ModeAfter(p))
  BY <1>2, UptoItself
<1>4. IsAppend(Append(s, p), s, p)
  BY <1>1, <1>2, AppendOf
<1>5. PICK n \in Nat : n = Len(s)
  BY <1>1
<1>6. PICK t : t = Append(s, p)
  OBVIOUS
<1>7. /\ t \in Seq(Packet) /\ Len(t) = n + 1 /\ t[n + 1] = p
      /\ \A i \in 1..n : t[i] = s[i]
  BY <1>4, <1>5, <1>6 DEF IsAppend
<1>8. \A i \in 1..n : s[i] \in LoginPackets(v) /\ ModeAfter(s[i]) \in Upto(e)
  BY <1>5 DEF ToServer
<1>9. \A i \in 1..n + 1 : t[i] \in LoginPackets(v) /\ ModeAfter(t[i]) \in Upto(ModeAfter(p))
  <2> TAKE i \in 1..n + 1
  <2>1. CASE i \in 1..n
    BY <1>2, <1>7, <1>8, <2>1
  <2>2. CASE i = n + 1
    BY <1>3, <1>7, <2>2
  <2> QED
    BY <2>1, <2>2
<1>10. ASSUME l # "lost" PROVE Chain(t, m, ModeAfter(p))
  <2>1. Chain(s, m, e)
    BY <1>10 DEF ToServer
  <2>2. t # <<>>
    BY <1>5, <1>7
  <2>3. t[1].mode = m
    <3>1. CASE n = 0
      <4>1. s = <<>>
        BY <1>1, <1>5, <3>1, EmptySeq
      <4>2. n + 1 = 1
        BY <3>1
      <4> QED
        BY <1>7, <2>1, <4>1, <4>2 DEF Chain
    <3>2. CASE n # 0
      <4>1. s # <<>> /\ 1 \in 1..n
        BY <1>1, <1>5, <3>2
      <4> QED
        BY <1>7, <2>1, <4>1 DEF Chain
    <3> QED
      BY <3>1, <3>2
  <2>4. ASSUME NEW i \in 1..n PROVE t[i + 1].mode = ModeAfter(t[i])
    <3>1. CASE i = n
      <4>1. s # <<>>
        <5>1. n # 0
          OBVIOUS
        <5> QED
          BY <1>5, <5>1
      <4>2. ModeAfter(s[n]) = e
        BY <1>5, <2>1, <4>1 DEF Chain
      <4> QED
        BY <1>7, <3>1, <4>2
    <3>2. CASE i # n
      <4>1. i \in 1..n - 1 /\ i + 1 \in 1..n
        BY <3>2
      <4>2. s[i + 1].mode = ModeAfter(s[i])
        BY <1>5, <2>1, <4>1 DEF Chain
      <4> QED
        BY <1>7, <4>1, <4>2
    <3> QED
      BY <3>1, <3>2
  <2>5. \A i \in 1..Len(t) - 1 : t[i + 1].mode = ModeAfter(t[i])
    <3>1. Len(t) - 1 = n
      BY <1>7
    <3> QED
      BY <2>4, <3>1
  <2>6. ModeAfter(t[Len(t)]) = ModeAfter(p)
    BY <1>7
  <2> QED
    BY <2>2, <2>3, <2>5, <2>6 DEF Chain
<1>11. m \in Upto(ModeAfter(p))
  BY <1>1, <1>2
<1> QED
  BY <1>6, <1>7, <1>9, <1>10, <1>11 DEF ToServer

(* A client that wrote nothing starts with two packets.                    *)
LEMMA ClientBegins ==
  ASSUME NEW s, NEW m, NEW u, NEW l, ToServer(s, m, "handshaking", u, l),
         NEW v \in Version, m \in LoginModes, u \in Version
  PROVE  LET ps == <<PacketOf("set_protocol", "handshaking", v),
                     PacketOf("login_start", "login", None)>>
         IN  /\ m = "handshaking" /\ s = <<>>
             /\ ToServer(IF l = "lost" THEN <<>> ELSE s \o ps, m, "login", v, l)
<1>1. PICK p, q : p = PacketOf("set_protocol", "handshaking", v)
                  /\ q = PacketOf("login_start", "login", None)
  OBVIOUS
<1>2. /\ p \in LoginPackets(v) /\ q \in LoginPackets(v)
      /\ p.mode = "handshaking" /\ ModeAfter(p) = "login"
      /\ q.mode = "login" /\ ModeAfter(q) = "login"
  BY <1>1 DEF LoginPackets, PacketOf, ModeAfter
<1>3. s = <<>>
  <2>1. s \in Seq(Packet)
    BY DEF ToServer
  <2>2. ASSUME s # <<>> PROVE FALSE
    <3>1. 1 \in 1..Len(s)
      BY <2>1, <2>2
    <3>2. s[1] \in LoginPackets(u) /\ ModeAfter(s[1]) \in Upto("handshaking")
      BY <3>1 DEF ToServer
    <3> QED
      BY <3>2 DEF LoginPackets, PacketOf, ModeAfter, Upto
  <2> QED
    BY <2>2
<1>4. m = "handshaking"
  BY DEF ToServer, Upto
<1>5. ToServer(<<>>, m, "handshaking", v, l)
  BY <1>3, <1>4 DEF ToServer, Chain
<1>6. ToServer(IF l = "lost" THEN <<>> ELSE Append(<<>>, p), m, "login", v, l)
  BY <1>2, <1>5, ClientWrites
<1>7. ToServer(IF l = "lost" THEN <<>> ELSE Append(Append(<<>>, p), q), m, "login", v, l)
  <2>1. CASE l = "lost"
    BY <1>6, <2>1
  <2>2. CASE l # "lost"
    <3>1. ToServer(Append(<<>>, p), m, "login", v, l)
      BY <1>6, <2>2
    <3> QED
      BY <1>2, <2>2, <3>1, ClientWrites
  <2> QED
    BY <2>1, <2>2
<1>8. <<>> \o <<p, q>> = Append(Append(<<>>, p), q)
  OBVIOUS
<1> QED
  BY <1>1, <1>3, <1>4, <1>7, <1>8

-----------------------------------------------------------------------------
(* The stream to the client                                                *)

LEMMA ClientLost ==
  ASSUME NEW c, NEW m, NEW l, NEW x, NEW begun
  PROVE  ToClient(<<>>, c, m, l, x, begun)
BY DEF ToClient

(* The packets to the client stay meant when the ends move, as long as     *)
(* each of them does.                                                      *)
LEMMA StillMeant ==
  ASSUME NEW s, NEW c, NEW m, NEW l, NEW x, NEW begun,
         NEW d, NEW n, NEW k, NEW y, NEW done,
         ToClient(s, c, m, l, x, begun),
         \A p, i, h : Meant(p, i, h, c, m, l, x, begun) => Meant(p, i, h, d, n, k, y, done)
  PROVE  ToClient(s, d, n, k, y, done)
BY DEF ToClient

(* The server closes, or goes on to the next mode.                         *)
LEMMA ServerMoves ==
  ASSUME NEW s, NEW c, NEW m, NEW l, NEW x, NEW begun, ToClient(s, c, m, l, x, begun),
         NEW n, NEW k,
         \/ n = m /\ l # "open" /\ (l \in {"closing", "lost"} => k \in {"closing", "lost"})
         \/ n = m /\ l = "open"
         \/ l = "open" /\ (m \in {"configuration", "play"} => n \in {"configuration", "play"})
  PROVE  ToClient(s, c, n, k, x, begun)
<1>1. \A p, i, h : Meant(p, i, h, c, m, l, x, begun) => Meant(p, i, h, c, n, k, x, begun)
  BY DEF Meant
<1> QED
  BY <1>1, StillMeant

(* What the client reads was meant for it, and what is left still is if    *)
(* that was not the last packet of a mode.                                 *)
LEMMA ClientReads ==
  ASSUME NEW s, NEW c, NEW m, NEW l, NEW x, NEW begun, ToClient(s, c, m, l, x, begun),
         s # <<>>
  PROVE  /\ Meant(Head(s), 1, Len(s), c, m, l, x, begun)
         /\ ToClient(Tail(s), c, m, l, x, begun)
<1>1. s \in Seq(Packet)
  BY DEF ToClient
<1>2. Head(s) = s[1] /\ IsTail(Tail(s), s)
  BY <1>1, TailOf
<1>3. PICK n \in Nat : n = Len(s)
  BY <1>1
<1>4. n >= 1
  BY <1>1, <1>3
<1>5. PICK t : t = Tail(s)
  OBVIOUS
<1>6. /\ t \in Seq(Packet) /\ Len(t) = n - 1
      /\ \A i \in 1..n - 1 : t[i] = s[i + 1]
  BY <1>2, <1>3, <1>5 DEF IsTail
<1>7. \A i \in 1..n : Meant(s[i], i, n, c, m, l, x, begun)
  BY <1>3 DEF ToClient
<1>8. ASSUME NEW i \in 1..n - 1 PROVE Meant(t[i], i, n - 1, c, m, l, x, begun)
  <2>1. i + 1 \in 1..n /\ i + 1 # 1 /\ (i + 1 = n => i = n - 1)
    OBVIOUS
  <2>2. Meant(s[i + 1], i + 1, n, c, m, l, x, begun)
    BY <1>7, <2>1
  <2>3. t[i] = s[i + 1]
    BY <1>6
  <2> QED
    BY <2>1, <2>2, <2>3 DEF Meant
<1>9. ToClient(t, c, m, l, x, begun)
  BY <1>6, <1>8 DEF ToClient
<1>10. Meant(s[1], 1, n, c, m, l, x, begun)
  BY <1>4, <1>7
<1> QED
  BY <1>2, <1>3, <1>5, <1>9, <1>10

LEMMA ClientReadsSuccess ==
  ASSUME NEW s, NEW m, NEW l, NEW x, NEW begun, ToClient(s, "login", m, l, x, begun),
         s # <<>>
  PROVE  ToClient(Tail(s), "configuration", m, l, x, begun)
<1>1. s \in Seq(Packet)
  BY DEF ToClient
<1>2. IsTail(Tail(s), s)
  BY <1>1, TailOf
<1>3. PICK n \in Nat : n = Len(s)
  BY <1>1
<1>4. PICK t : t = Tail(s)
  OBVIOUS
<1>5. /\ t \in Seq(Packet) /\ Len(t) = n - 1
      /\ \A i \in 1..n - 1 : t[i] = s[i + 1]
  BY <1>2, <1>3, <1>4 DEF IsTail
<1>6. \A i \in 1..n : Meant(s[i], i, n, "login", m, l, x, begun)
  BY <1>3 DEF ToClient
<1>7. ASSUME NEW i \in 1..n - 1 PROVE Meant(t[i], i, n - 1, "configuration", m, l, x, begun)
  <2>1. i + 1 \in 1..n /\ i + 1 # 1
    OBVIOUS
  <2>2. Meant(s[i + 1], i + 1, n, "login", m, l, x, begun)
    BY <1>6, <2>1
  <2>3. t[i] = s[i + 1]
    BY <1>5
  <2> QED
    BY <2>1, <2>2, <2>3 DEF Meant
<1> QED
  BY <1>4, <1>5, <1>7 DEF ToClient

LEMMA ClientReadsFinish ==
  ASSUME NEW s, NEW m, NEW l, NEW x, NEW begun, ToClient(s, "configuration", m, l, x, begun),
         s # <<>>, Head(s) = PacketOf("finish_configuration", "configuration", None)
  PROVE  ToClient(Tail(s), "play", m, l, x, begun)
<1>1. s \in Seq(Packet)
  BY DEF ToClient
<1>2. Head(s) = s[1] /\ IsTail(Tail(s), s)
  BY <1>1, TailOf
<1>3. PICK n \in Nat : n = Len(s)
  BY <1>1
<1>4. n >= 1
  BY <1>1, <1>3
<1>5. Meant(s[1], 1, n, "configuration", m, l, x, begun)
  BY <1>3, <1>4 DEF ToClient
<1>6. n = 1
  BY <1>2, <1>5 DEF Meant, PacketOf
<1>7. PICK t : t = Tail(s)
  OBVIOUS
<1>8. t \in Seq(Packet) /\ Len(t) = 0
  BY <1>2, <1>3, <1>6, <1>7 DEF IsTail
<1>9. ToClient(t, "play", m, l, x, begun)
  BY <1>8 DEF ToClient
<1> QED
  BY <1>7, <1>9

(* A packet is written behind those that stay meant.                       *)
LEMMA ServerWrites ==
  ASSUME NEW s, NEW c, NEW m, NEW l, NEW x, NEW begun, ToClient(s, c, m, l, x, begun),
         NEW n, NEW k, NEW y, NEW done, NEW p \in Packet,
         \A q, i, h : /\ i \in 1..h
                      /\ Meant(q, i, h, c, m, l, x, begun)
                      => Meant(q, i, h + 1, c, n, k, y, done),
         \A h \in Nat : h = Len(s) => Meant(p, h + 1, h + 1, c, n, k, y, done)
  PROVE  ToClient(s \o <<p>>, c, n, k, y, done)
<1>1. s \in Seq(Packet)
  BY DEF ToClient
<1>2. s \o <<p>> = Append(s, p) /\ IsAppend(Append(s, p), s, p)
  BY <1>1, AppendOf
<1>3. PICK h \in Nat : h = Len(s)
  BY <1>1
<1>4. PICK t : t = Append(s, p)
  OBVIOUS
<1>5. /\ t \in Seq(Packet) /\ Len(t) = h + 1 /\ t[h + 1] = p
      /\ \A i \in 1..h : t[i] = s[i]
  BY <1>2, <1>3, <1>4 DEF IsAppend
<1>6. \A i \in 1..h : Meant(s[i], i, h, c, m, l, x, begun)
  BY <1>3 DEF ToClient
<1>7. ASSUME NEW i \in 1..h + 1 PROVE Meant(t[i], i, h + 1, c, n, k, y, done)
  <2>1. CASE i \in 1..h
    BY <1>5, <1>6, <2>1
  <2>2. CASE i = h + 1
    BY <1>3, <1>5, <2>2
  <2> QED
    BY <2>1, <2>2
<1> QED
  BY <1>2, <1>4, <1>5, <1>7 DEF ToClient

-----------------------------------------------------------------------------
(* What each end's own invariant says here                                 *)

LEMMA ClientFacts ==
  ASSUME CP!IInv
  PROVE  /\ client_link \in [Role -> {"none", "connecting", "open", "closing", "lost"}]
         /\ client_mode \in [Role -> {"handshaking", "status", "login", "configuration", "play"}]
         /\ forced \in Version \cup {None} /\ protocol_version \in Version
         /\ sent \in Seq(CP!Packet)
         /\ client_link["login"] = "connecting" => client_mode["login"] = "handshaking"
         /\ forced = None /\ detected = 0 => client_mode["login"] = "handshaking"
         /\ client_mode["login"] = "handshaking" => sent = <<>>
         /\ client_link["status"] = "open" => forced = None
         /\ client_link["login"] = "open" /\ client_mode["login"] # "handshaking" => sent # <<>>
<1> USE DEF CP!IInv, CP!TypeOK, CP!PingState, CP!NotStarted, CP!Role, Role, CP!Links, CP!Modes
<1>1. client_link["login"] = "open" /\ client_mode["login"] # "handshaking" => sent # <<>>
  BY DEF CP!OpenInStep, CP!Written_in
<1> QED
  BY <1>1

LEMMA ServerFacts ==
  ASSUME SP!IInv
  PROVE  /\ server_link \in [Role -> {"new", "open", "closing", "lost"}]
         /\ server_mode \in [Role -> {"handshaking", "status", "login", "configuration", "play"}]
         /\ login_expecting \in [Role -> {0, None}]
         /\ display_name \in [Role -> {"player", None}]
         /\ in_game \in [Role -> BOOLEAN] /\ kicks \in [Role -> Nat]
         /\ \A r \in Role : in_game[r] <=> server_mode[r] \in {"configuration", "play"}
BY DEF SP!IInv, SP!TypeOK, SP!InGameMode, SP!Links, SP!Modes

(* What the client writes goes under way.                                  *)
LEMMA WritesNothing ==
  ASSUME sent \in Seq(CP!Packet), sent' = sent PROVE LoginWrites = <<>>
<1>1. Len(sent') - Len(sent) = 0
  OBVIOUS
<1> QED
  BY <1>1 DEF LoginWrites

LEMMA WritesOne ==
  ASSUME sent \in Seq(CP!Packet), NEW q \in CP!Packet, sent' = sent \o <<q>>
  PROVE  LoginWrites = <<PacketOf(q.name, ModeOf[q.name], q.with)>> /\ sent' # <<>>
<1>1. PICK n \in Nat : n = Len(sent)
  OBVIOUS
<1>2. sent \o <<q>> = Append(sent, q)
  BY AppendIsConcat
<1>3. PICK t : t = Append(sent, q)
  OBVIOUS
<1>4. t \in Seq(CP!Packet) /\ Len(t) = n + 1 /\ t[n + 1] = q
  BY <1>1, <1>3, AppendProperties
<1>5. (n + 1) - n = 1
  OBVIOUS
<1>6. LoginWrites = [i \in 1..1 |-> LET p == t[n + i] IN FromClient(p.name, ModeOf[p.name], p.with)]
  BY <1>1, <1>2, <1>3, <1>4, <1>5 DEF LoginWrites
<1>7. \A i \in 1..1 : t[n + i] = q
  BY <1>4
<1>8. LoginWrites = [i \in 1..1 |-> FromClient(q.name, ModeOf[q.name], q.with)]
  BY <1>6, <1>7
<1>9. t # <<>>
  BY <1>4
<1> QED
  BY <1>2, <1>3, <1>8, <1>9 DEF FromClient, PacketOf, client_tables

LEMMA WritesTwo ==
  ASSUME sent = <<>>, NEW q, NEW r, sent' = <<q, r>>
  PROVE  LoginWrites = <<PacketOf(q.name, ModeOf[q.name], q.with),
                         PacketOf(r.name, ModeOf[r.name], r.with)>>
<1>1. Len(sent') - Len(sent) = 2 /\ Len(sent) = 0
  OBVIOUS
<1>2. sent'[1] = q /\ sent'[2] = r
  OBVIOUS
<1>3. LoginWrites = [i \in 1..2 |-> LET p == sent'[0 + i] IN FromClient(p.name, ModeOf[p.name], p.with)]
  BY <1>1 DEF LoginWrites
<1>4. \A i \in 1..2 : sent'[0 + i] = IF i = 1 THEN q ELSE r
  BY <1>2
<1>5. LoginWrites = [i \in 1..2 |-> IF i = 1 THEN FromClient(q.name, ModeOf[q.name], q.with)
                                            ELSE FromClient(r.name, ModeOf[r.name], r.with)]
  BY <1>3, <1>4
<1> QED
  BY <1>5 DEF FromClient, PacketOf, client_tables

-----------------------------------------------------------------------------
(* The ping                                                                *)

LEMMA StatusKept ==
  ASSUME StatusStreams, UNCHANGED server_forced,
         to_server'["status"] = to_server["status"],
         to_client'["status"] = to_client["status"],
         client_mode'["status"] = client_mode["status"],
         server_mode'["status"] = server_mode["status"]
  PROVE  StatusStreams'
BY DEF StatusStreams, StatusAsked, StatusTold, announced

LEMMA ToldLess ==
  ASSUME NEW s, NEW v, StatusTold(s, v),
         NEW t, t \in {<<>>, s} \/ (s # <<>> /\ t = Tail(s))
  PROVE  StatusTold(t, v)
<1>1. CASE t = <<>>
  <2>1. t \in Seq(Packet) /\ Len(t) = 0
    BY <1>1
  <2> QED
    BY <2>1 DEF StatusTold
<1>2. CASE s # <<>> /\ t = Tail(s)
  <2>1. IsTail(t, s)
    BY <1>2, TailOf DEF StatusTold
  <2>2. PICK n \in Nat : n = Len(s)
    BY DEF StatusTold
  <2>3. \A i \in 1..n - 1 : i + 1 \in 1..n
    OBVIOUS
  <2> QED
    BY <2>1, <2>2, <2>3 DEF StatusTold, IsTail
<1> QED
  BY <1>1, <1>2

LEMMA ToldMore ==
  ASSUME NEW s, NEW v \in Version, StatusTold(s, v)
  PROVE  StatusTold(s \o <<PacketOf("server_info", "status", v)>>, v)
<1>1. PICK p : p = PacketOf("server_info", "status", v)
  OBVIOUS
<1>2. p \in Packet
  BY <1>1, LatestSupported DEF PacketOf, Packet, Versioned, Client!Modes
<1>3. s \o <<p>> = Append(s, p) /\ IsAppend(Append(s, p), s, p)
  BY <1>2, AppendOf DEF StatusTold
<1>4. PICK n \in Nat : n = Len(s)
  BY DEF StatusTold
<1>5. \A i \in 1..n + 1 : i \in 1..n \/ i = n + 1
  OBVIOUS
<1> QED
  BY <1>1, <1>3, <1>4, <1>5 DEF StatusTold, IsAppend

(* A step of the client opens the ping, reads the answer or leaves it.     *)
LEMMA StatusOfClient ==
  ASSUME StatusStreams, UNCHANGED <<server_forced, server_mode>>,
         NEW l, to_server["status"] \in Seq(Packet),
         to_server'["status"] =
           IF l = "lost" THEN <<>> ELSE to_server["status"] \o StatusWrites,
         \/ to_client'["status"] \in {<<>>, to_client["status"]}
         \/ to_client["status"] # <<>> /\ to_client'["status"] = Tail(to_client["status"]),
         client_mode'["status"] \in {client_mode["status"], "status"}
  PROVE  StatusStreams'
<1>1. /\ client_mode'["status"] \in {"handshaking", "status"}
      /\ server_mode'["status"] = server_mode["status"]
      /\ server_mode["status"] \in {"handshaking", "status"}
      /\ announced' = announced
  BY DEF StatusStreams, announced
<1>2. StatusTold(to_client["status"], announced)'
  <2>1. StatusTold(to_client["status"], announced)
    BY DEF StatusStreams
  <2>2. StatusTold(to_client'["status"], announced)
    BY <2>1, ToldLess
  <2> QED
    BY <1>1, <2>2
<1>3. CASE client_mode["status"] = "handshaking" /\ client_mode'["status"] = "status"
  <2>1. /\ to_server["status"] = <<>> /\ server_mode["status"] = "handshaking"
    BY <1>3 DEF StatusStreams
  <2>2. StatusWrites = <<PacketOf("set_protocol", "handshaking", Latest),
                         PacketOf("ping_start", "status", None)>>
    BY <1>3 DEF StatusWrites, FromClient, PacketOf, client_tables
  <2>3. <<>> \o StatusWrites = StatusWrites
    <3>1. ASSUME NEW p, NEW q PROVE <<>> \o <<p, q>> = <<p, q>>
      OBVIOUS
    <3> QED
      BY <2>2, <3>1
  <2>4. StatusAsked(to_server["status"], server_mode["status"])'
    BY <1>1, <2>1, <2>2, <2>3 DEF StatusAsked
  <2> QED
    BY <1>1, <1>2, <1>3, <2>4 DEF StatusStreams
<1>4. CASE ~(client_mode["status"] = "handshaking" /\ client_mode'["status"] = "status")
  <2>1. to_server'["status"] \in {<<>>, to_server["status"]}
    <3>1. StatusWrites = <<>>
      BY <1>4 DEF StatusWrites
    <3> QED
      BY <3>1, NothingAdded
  <2>2. StatusAsked(to_server["status"], server_mode["status"])'
    BY <1>1, <2>1 DEF StatusStreams, StatusAsked
  <2>3. client_mode'["status"] = "handshaking" => client_mode["status"] = "handshaking"
    BY DEF StatusStreams
  <2>4. client_mode'["status"] = "handshaking" =>
           to_server'["status"] = <<>> /\ to_client'["status"] = <<>>
    BY <2>1, <2>3 DEF StatusStreams
  <2> QED
    BY <1>1, <1>2, <2>2, <2>3, <2>4 DEF StatusStreams
<1> QED
  BY <1>3, <1>4

-----------------------------------------------------------------------------
(* Steps of the client                                                     *)

(* What a step of the client is made of: it may read a packet on r.        *)
ReadsOn(streams_in) ==
  \A q \in Role :
    \/ streams_in[q] = to_client[q]
    \/ to_client[q] # <<>> /\ streams_in[q] = Tail(to_client[q])

LEMMA ClientStepIs ==
  ASSUME IInv, NEW in, ReadsOn(in), ClientStep(in)
  PROVE  /\ to_server' \in [Role -> Seq(Packet) \cup {to_server'["login"], to_server'["status"]}]
         /\ to_client' \in [Role -> Seq(Packet)]
         /\ to_server'["login"] = IF server_link["login"] = "lost" THEN <<>>
                                  ELSE to_server["login"] \o LoginWrites
         /\ to_server'["status"] = IF server_link["status"] = "lost" THEN <<>>
                                   ELSE to_server["status"] \o StatusWrites
         /\ \A q \in Role : to_client'[q] = IF client_link'[q] = "lost" THEN <<>> ELSE in[q]
         /\ UNCHANGED <<server_link, server_mode, login_expecting, display_name, in_game,
                        kicks, server_forced, started>>
         /\ UNCHANGED server_vars
<1>1. /\ to_server' = [r \in Role |->
            IF server_link[r] = "lost" THEN <<>>
            ELSE to_server[r] \o (IF r = "login" THEN LoginWrites ELSE StatusWrites)]
      /\ to_client' = [r \in Role |-> IF client_link'[r] = "lost" THEN <<>> ELSE in[r]]
      /\ UNCHANGED <<server_vars, settings, started>>
  BY DEF ClientStep
<1>2. "login" \in Role /\ "status" \in Role
  BY DEF Role
<1>3. ASSUME NEW q \in Role PROVE to_client'[q] \in Seq(Packet)
  <2>1. to_client[q] \in Seq(Packet)
    BY DEF IInv
  <2>2. to_client[q] # <<>> => Tail(to_client[q]) \in Seq(Packet)
    BY <2>1, TailOf DEF IsTail
  <2>3. <<>> \in Seq(Packet)
    OBVIOUS
  <2> QED
    BY <1>1, <2>1, <2>2, <2>3 DEF ReadsOn
<1>4. to_client' \in [Role -> Seq(Packet)]
  BY <1>1, <1>3
<1>5. /\ to_server'["login"] = IF server_link["login"] = "lost" THEN <<>>
                               ELSE to_server["login"] \o LoginWrites
      /\ to_server'["status"] = IF server_link["status"] = "lost" THEN <<>>
                                ELSE to_server["status"] \o StatusWrites
  BY <1>1, <1>2
<1>6. to_server' \in [Role -> Seq(Packet) \cup {to_server'["login"], to_server'["status"]}]
  BY <1>1, <1>5 DEF Role
<1> QED
  BY <1>1, <1>4, <1>5, <1>6 DEF server_vars, settings

(* The rest of the invariant after a step of the client.                   *)
LEMMA ClientRest ==
  ASSUME IInv, CP!IInv', NEW in, ReadsOn(in), ClientStep(in),
         LoginStreams', Versions', StatusStreams', ReadAsWritten'
  PROVE  IInv'
<1>1. SP!IInv'
  <2>1. UNCHANGED server_vars /\ "login" \in Role /\ SP!IInv
    BY ClientStepIs DEF Role, IInv
  <2> QED
    BY <2>1, ServerTakes
<1>2. to_server'["login"] \in Seq(Packet)
  BY DEF LoginStreams, ToServer
<1>3. to_server'["status"] \in Seq(Packet)
  <2>1. PacketOf("set_protocol", "handshaking", Latest) \in Packet
    BY LatestSupported DEF PacketOf, Packet, Versioned, Client!Modes
  <2>2. PacketOf("ping_start", "status", None) \in Packet
    BY LatestSupported DEF PacketOf, Packet, Versioned, Client!Modes
  <2>3. \A p, q \in Packet : {<<>>, <<p, q>>, <<q>>} \subseteq Seq(Packet)
    OBVIOUS
  <2> QED
    BY <2>1, <2>2, <2>3 DEF StatusStreams, StatusAsked
<1>4. to_server' \in [Role -> Seq(Packet)]
  BY <1>2, <1>3, ClientStepIs
<1>5. to_client' \in [Role -> Seq(Packet)] /\ started' \in BOOLEAN
  BY ClientStepIs DEF IInv
<1> QED
  BY <1>1, <1>4, <1>5 DEF IInv

(* A step of the client with which its login gets no further: it reads at  *)
(* most one packet of it and writes nothing.                               *)
LEMMA ClientStays ==
  ASSUME IInv, CP!IInv', NEW in, ReadsOn(in), ClientStep(in),
         UNCHANGED <<sent, protocol_version, forced>>,
         client_mode'["login"] = client_mode["login"],
         client_mode'["status"] \in {client_mode["status"], "status"},
         ReadAsWritten'
  PROVE  IInv'
<1>1. /\ sent \in Seq(CP!Packet)
      /\ server_mode' = server_mode /\ server_link' = server_link
  BY ClientFacts, ClientStepIs DEF IInv
<1>2. LoginWrites = <<>>
  BY <1>1, WritesNothing
<1>3. /\ to_server["login"] \in Seq(Packet) /\ to_server["status"] \in Seq(Packet)
      /\ to_client["login"] \in Seq(Packet)
  BY DEF IInv, Role
<1>4. to_server'["login"] = to_server["login"]
  <2>1. to_server'["login"] = IF server_link["login"] = "lost" THEN <<>>
                              ELSE to_server["login"] \o LoginWrites
    BY ClientStepIs
  <2>2. to_server["login"] \o <<>> = to_server["login"]
    BY <1>3, NothingAdded
  <2> QED
    BY <1>2, <2>1, <2>2 DEF IInv, LoginStreams, ToServer
<1>5. \/ to_client'["login"] \in {<<>>, to_client["login"]}
      \/ to_client["login"] # <<>> /\ to_client'["login"] = Tail(to_client["login"])
  BY ClientStepIs DEF ReadsOn, Role
<1>6. ToClient(to_client["login"], client_mode["login"], server_mode["login"],
               server_link["login"], login_expecting["login"], started)'
  <2>1. ToClient(to_client["login"], client_mode["login"], server_mode["login"],
                 server_link["login"], login_expecting["login"], started)
    BY DEF IInv, LoginStreams
  <2>2. ToClient(to_client'["login"], client_mode["login"], server_mode["login"],
                 server_link["login"], login_expecting["login"], started)
    BY <1>5, <2>1, ClientLost, ClientReads
  <2> QED
    BY <2>2, ClientStepIs
<1>7. LoginStreams'
  <2>1. Said' = Said
    BY DEF Said
  <2> QED
    BY <1>4, <1>6, <2>1, ClientStepIs DEF IInv, LoginStreams
<1>8. Versions'
  BY ClientStepIs DEF IInv, Versions, Known
<1>9. StatusStreams'
  <2>1. \/ to_client'["status"] \in {<<>>, to_client["status"]}
        \/ to_client["status"] # <<>> /\ to_client'["status"] = Tail(to_client["status"])
    BY ClientStepIs DEF ReadsOn, Role
  <2>2. StatusStreams
    BY DEF IInv
  <2> QED
    BY <1>3, <2>1, <2>2, ClientStepIs, StatusOfClient
<1> QED
  BY <1>7, <1>8, <1>9, ClientRest

(* A step with which the login begins, told or untold to the server.       *)
LEMMA LoginBegins ==
  ASSUME IInv, CP!IInv', NEW in, ReadsOn(in), ClientStep(in),
         in["login"] = to_client["login"], NEW v \in Version,
         client_mode["login"] = "handshaking", client_mode'["login"] = "login",
         client_mode'["status"] = client_mode["status"],
         protocol_version' = v, UNCHANGED forced,
         \/ sent' = <<>>
         \/ /\ sent' = <<Client!PacketOf("set_protocol", v), Client!PacketOf("login_start", None)>>
            /\ forced = None => Known(v),
         ReadAsWritten'
  PROVE  IInv'
<1>1. sent = <<>> /\ Said = "handshaking" /\ protocol_version \in Version
  BY ClientFacts DEF IInv, Said
<1>2. /\ ToServer(to_server["login"], server_mode["login"], "handshaking",
                  protocol_version, server_link["login"])
      /\ server_mode["login"] \in LoginModes
  BY <1>1 DEF IInv, LoginStreams, Stages
<1>3. server_mode["login"] = "handshaking" /\ to_server["login"] = <<>>
  BY <1>1, <1>2, ClientBegins
<1>4. ToServer(to_server'["login"], server_mode["login"], Said', v, server_link["login"])
  <2>1. to_server'["login"] = IF server_link["login"] = "lost" THEN <<>>
                              ELSE to_server["login"] \o LoginWrites
    BY ClientStepIs
  <2>2. CASE sent' = <<>>
    <3>1. LoginWrites = <<>>
      <4>1. sent \in Seq(CP!Packet)
        BY ClientFacts DEF IInv
      <4> QED
        BY <1>1, <2>2, <4>1, WritesNothing
    <3>2. <<>> \o <<>> = <<>>
      <4>1. <<>> \in Seq(Packet)
        OBVIOUS
      <4> QED
        BY <4>1, NothingAdded
    <3>3. to_server'["login"] = <<>>
      BY <1>3, <2>1, <3>1, <3>2
    <3>4. Said' = "handshaking"
      BY <2>2 DEF Said
    <3> QED
      BY <1>3, <3>3, <3>4 DEF ToServer, Chain, Upto
  <2>3. CASE sent' # <<>>
    <3>1. PICK q, r : /\ q = Client!PacketOf("set_protocol", v)
                      /\ r = Client!PacketOf("login_start", None)
      OBVIOUS
    <3>2. LoginWrites = <<PacketOf(q.name, ModeOf[q.name], q.with),
                          PacketOf(r.name, ModeOf[r.name], r.with)>>
      BY <1>1, <2>3, <3>1, WritesTwo
    <3>3. /\ q.name = "set_protocol" /\ ModeOf[q.name] = "handshaking" /\ q.with = v
          /\ r.name = "login_start" /\ ModeOf[r.name] = "login" /\ r.with = None
      BY <3>1 DEF Client!PacketOf, ModeOf
    <3>4. LoginWrites = <<PacketOf("set_protocol", "handshaking", v),
                          PacketOf("login_start", "login", None)>>
      BY <3>2, <3>3
    <3>5. Said' = "login"
      BY <2>3 DEF Said
    <3> QED
      BY <1>1, <1>2, <2>1, <3>4, <3>5, ClientBegins
  <2> QED
    BY <2>2, <2>3
<1>5. LoginStreams'
  <2>1. ToClient(to_client["login"], "handshaking", server_mode["login"],
                 server_link["login"], login_expecting["login"], started)
    BY DEF IInv, LoginStreams
  <2>2. ToClient(to_client["login"], "login", server_mode["login"],
                 server_link["login"], login_expecting["login"], started)
    <3>1. \A p, i, h, m, l, x, b : ~Meant(p, i, h, "handshaking", m, l, x, b)
      BY DEF Meant
    <3> QED
      BY <2>1, <3>1, StillMeant
  <2>3. ToClient(to_client'["login"], "login", server_mode["login"],
                 server_link["login"], login_expecting["login"], started)
    BY <2>2, ClientStepIs, ClientLost DEF Role
  <2>4. Stages("login", server_mode["login"], login_expecting["login"],
               display_name["login"], started)
    BY DEF IInv, LoginStreams, Stages, LoginModes
  <2> QED
    BY <1>4, <2>3, <2>4, ClientStepIs DEF LoginStreams
<1>6. Versions'
  <2>1. ~in_game["login"]
    BY <1>3, ServerFacts DEF IInv, Role
  <2> QED
    BY <1>1, <1>3, <2>1, ClientStepIs DEF IInv, Versions, Known
<1>7. StatusStreams'
  <2>1. \/ to_client'["status"] \in {<<>>, to_client["status"]}
        \/ to_client["status"] # <<>> /\ to_client'["status"] = Tail(to_client["status"])
    BY ClientStepIs DEF ReadsOn, Role
  <2>2. StatusStreams /\ to_server["status"] \in Seq(Packet)
    BY DEF IInv, Role
  <2> QED
    BY <2>1, <2>2, ClientStepIs, StatusOfClient
<1> QED
  BY <1>5, <1>6, <1>7, ClientRest

(* A step with which the login gets further and the server is told.        *)
LEMMA LoginAdvances ==
  ASSUME IInv, CP!IInv', NEW in, ReadsOn(in), ClientStep(in),
         NEW p \in LoginPackets(protocol_version), p.mode = client_mode["login"],
         LoginWrites = <<p>>, sent # <<>>, sent' # <<>>,
         client_mode'["login"] = ModeAfter(p),
         client_mode'["status"] = client_mode["status"],
         UNCHANGED <<protocol_version, forced>>,
         ToClient(in["login"], ModeAfter(p), server_mode["login"],
                  server_link["login"], login_expecting["login"], started),
         Stages(ModeAfter(p), server_mode["login"], login_expecting["login"],
                display_name["login"], started),
         ReadAsWritten'
  PROVE  IInv'
<1>1. protocol_version \in Version
  BY ClientFacts DEF IInv
<1>2. p \in Packet
  BY <1>1, LoginPacketsAre
<1>3. /\ ToServer(to_server["login"], server_mode["login"], p.mode, protocol_version,
                  server_link["login"])
      /\ to_server["login"] \in Seq(Packet)
  BY DEF IInv, LoginStreams, Said, ToServer
<1>4. ToServer(to_server'["login"], server_mode["login"], ModeAfter(p), protocol_version,
               server_link["login"])
  <2>1. to_server'["login"] = IF server_link["login"] = "lost" THEN <<>>
                              ELSE Append(to_server["login"], p)
    BY <1>2, <1>3, ClientStepIs, AppendOf
  <2> QED
    BY <1>1, <1>3, <2>1, ClientWrites
<1>5. LoginStreams'
  <2>1. Said' = ModeAfter(p)
    BY DEF Said
  <2>2. ToClient(to_client'["login"], ModeAfter(p), server_mode["login"],
                 server_link["login"], login_expecting["login"], started)
    BY ClientStepIs, ClientLost DEF Role
  <2> QED
    BY <1>4, <2>1, <2>2, ClientStepIs DEF LoginStreams
<1>6. Versions'
  BY ClientStepIs DEF IInv, Versions, Known
<1>7. StatusStreams'
  <2>1. \/ to_client'["status"] \in {<<>>, to_client["status"]}
        \/ to_client["status"] # <<>> /\ to_client'["status"] = Tail(to_client["status"])
    BY ClientStepIs DEF ReadsOn, Role
  <2>2. StatusStreams /\ to_server["status"] \in Seq(Packet)
    BY DEF IInv, Role
  <2> QED
    BY <2>1, <2>2, ClientStepIs, StatusOfClient
<1> QED
  BY <1>5, <1>6, <1>7, ClientRest

(* Connections, timers and applications of the client.                     *)
LEMMA ClientElseStep ==
  ASSUME IInv, NEW r \in Role, client_else(r) PROVE IInv'
<1>1. /\ ClientStep(to_client) /\ UNCHANGED strays /\ ReadsOn(to_client)
      /\ \/ Client!connection_made(r) \/ Client!connection_lost(r)
         \/ Client!close(r) \/ Client!tick(r)
  BY DEF client_else, ReadsOn
<1>2. CP!IInv'
  BY <1>1, ClientTakes DEF IInv
<1>3. ReadAsWritten'
  BY <1>1 DEF IInv, ReadAsWritten
<1>4. /\ client_mode \in [Role -> {"handshaking", "status", "login", "configuration", "play"}]
      /\ forced \in Version \cup {None}
      /\ client_link["login"] = "connecting" => client_mode["login"] = "handshaking"
  BY ClientFacts DEF IInv
<1>5. CASE Client!connection_lost(r) \/ Client!close(r) \/ Client!tick(r)
  <2>1. UNCHANGED <<sent, protocol_version, forced, client_mode>>
    BY <1>5 DEF Client!connection_lost, Client!drop, Client!close, Client!tick,
       Client!settings, Client!login_vars
  <2> QED
    BY <1>1, <1>2, <1>3, <2>1, ClientStays
<1>6. CASE Client!connection_made(r)
  <2>1. CASE r = "login" /\ forced # None
    <3>1. /\ client_link["login"] = "connecting" /\ protocol_version' = forced
          /\ client_mode' = [client_mode EXCEPT !["login"] = "login"]
          /\ sent' = <<Client!PacketOf("set_protocol", forced), Client!PacketOf("login_start", None)>>
          /\ UNCHANGED forced
      BY <1>6, <2>1 DEF Client!connection_made, Client!settings
    <3>2. /\ client_mode'["login"] = "login" /\ client_mode'["status"] = client_mode["status"]
          /\ forced \in Version
      BY <1>4, <2>1, <3>1 DEF Role
    <3> QED
      BY <1>1, <1>2, <1>3, <1>4, <2>1, <3>1, <3>2, LoginBegins
  <2>2. CASE ~(r = "login" /\ forced # None)
    <3>1. /\ UNCHANGED <<sent, protocol_version, forced>>
          /\ \/ client_mode' = [client_mode EXCEPT !["status"] = "status"]
             \/ client_mode' = client_mode
      BY <1>6, <2>2 DEF Client!connection_made, Client!settings, Role
    <3>2. /\ client_mode'["login"] = client_mode["login"]
          /\ client_mode'["status"] \in {client_mode["status"], "status"}
      BY <1>4, <3>1 DEF Role
    <3> QED
      BY <1>1, <1>2, <1>3, <3>1, <3>2, ClientStays
  <2> QED
    BY <2>1, <2>2
<1> QED
  BY <1>1, <1>5, <1>6

(* What the client reads on its login connection.                          *)
LEMMA ClientReadsLogin ==
  ASSUME IInv, client_reads("login") PROVE IInv'
<1>1. PICK in : in = [to_client EXCEPT !["login"] = Tail(@)]
  OBVIOUS
<1>2. PICK p : p = Head(to_client["login"])
  OBVIOUS
<1>3. PICK c : c = client_mode["login"]
  OBVIOUS
<1>4. /\ to_client["login"] # <<>> /\ client_link["login"] = "open" /\ ClientStep(in)
      /\ IF Stray(p, c, Latest)
         THEN /\ IF ReadAsAnother(p, c) THEN Client!packet_other("login")
                 ELSE IF can_save THEN UNCHANGED client_vars
                 ELSE Client!drop("login")
              /\ strays' = strays \cup {StrayOf("client", p, c, Latest)}
         ELSE /\ \/ p.name = "server_info" /\ Client!packet_server_info(p.with)
                 \/ p.name = "success" /\ Client!packet_success
                 \/ p.name = "finish_configuration" /\ Client!packet_finish_configuration
                 \/ p.name = "disconnect" /\ Client!packet_disconnect
                 \/ p.name = "data" /\ Client!packet_other("login")
              /\ UNCHANGED strays
  BY <1>1, <1>2, <1>3 DEF client_reads, client_tables
<1>5. ReadsOn(in) /\ in["login"] = Tail(to_client["login"])
  BY <1>1, <1>4 DEF IInv, ReadsOn, Role
<1>6. ToClient(to_client["login"], c, server_mode["login"], server_link["login"],
               login_expecting["login"], started)
  BY <1>3 DEF IInv, LoginStreams
<1>7. PICK n : Meant(p, 1, n, c, server_mode["login"], server_link["login"],
                     login_expecting["login"], started)
  BY <1>2, <1>4, <1>6, ClientReads
<1>8. Stages(c, server_mode["login"], login_expecting["login"], display_name["login"], started)
  BY <1>3 DEF IInv, LoginStreams
<1>9. /\ client_mode \in [Role -> {"handshaking", "status", "login", "configuration", "play"}]
      /\ sent \in Seq(CP!Packet)
      /\ c # "handshaking" => sent # <<>>
      /\ protocol_version \in Version
  BY <1>3, <1>4, ClientFacts DEF IInv
<1>10. "login" \in Role
  BY DEF Role
<1>11. CASE Stray(p, c, Latest)
  <2>1. StrayOf("client", p, c, Latest) \in
          { [at |-> "client", name |-> "finish_configuration", written |-> "configuration",
             read |-> "play", same |-> TRUE],
            [at |-> "client", name |-> "disconnect", written |-> "login",
             read |-> "configuration", same |-> TRUE] }
    <3>1. \/ p = PacketOf("finish_configuration", "configuration", None) /\ c = "play"
          \/ p = PacketOf("disconnect", "login", None) /\ c = "configuration"
      BY <1>7, <1>11 DEF Meant, PacketOf, Stray
    <3>2. p.tables = Latest
      BY <3>1 DEF PacketOf
    <3>3. StrayOf("client", p, c, Latest) =
            [at |-> "client", name |-> p.name, written |-> p.mode, read |-> c, same |-> TRUE]
      BY <3>2 DEF StrayOf
    <3> QED
      BY <3>1, <3>3 DEF PacketOf
  <2>2. ReadAsWritten'
    BY <1>4, <1>11, <2>1 DEF IInv, ReadAsWritten
  <2>3. \/ Client!packet_other("login") \/ UNCHANGED client_vars \/ Client!drop("login")
    BY <1>4, <1>11
  <2>4. UNCHANGED <<sent, protocol_version, forced, client_mode>>
    BY <2>3 DEF Client!packet_other, Client!drop, Client!settings, Client!login_vars, client_vars
  <2>5. CP!IInv'
    BY <1>4, <1>10, <2>3, ClientTakes DEF IInv
  <2> QED
    BY <1>4, <1>5, <2>2, <2>4, <2>5, ClientStays
<1>12. CASE ~Stray(p, c, Latest)
  <2>1. ReadAsWritten'
    BY <1>4, <1>12 DEF IInv, ReadAsWritten
  <2>2. \/ p.name = "success" /\ Client!packet_success
        \/ p.name = "finish_configuration" /\ Client!packet_finish_configuration
        \/ p.name = "disconnect" /\ Client!packet_disconnect
        \/ p.name = "data" /\ Client!packet_other("login")
    BY <1>4, <1>7, <1>12 DEF Meant, PacketOf
  <2>3. CP!IInv'
    BY <1>10, <2>2, ClientTakes DEF IInv
  <2>4. CASE Client!packet_disconnect \/ Client!packet_other("login")
    <3>1. UNCHANGED <<sent, protocol_version, forced, client_mode>>
      BY <2>4 DEF Client!packet_other, Client!packet_disconnect, Client!settings, Client!login_vars
    <3> QED
      BY <1>4, <1>5, <2>1, <2>3, <3>1, ClientStays
  <2>5. CASE p.name = "success" /\ Client!packet_success
    <3>1. /\ c = "login" /\ login_expecting["login"] # 0
      BY <1>7, <2>5 DEF Meant, PacketOf
    <3>2. /\ sent' = sent \o <<Client!PacketOf("login_acknowledged", None)>>
          /\ client_mode' = [client_mode EXCEPT !["login"] = "configuration"]
          /\ UNCHANGED <<protocol_version, forced>>
      BY <1>4, <2>5 DEF Client!packet_success, Client!Written, Client!settings
    <3>3. PICK q : q = PacketOf("login_acknowledged", "login", None)
      OBVIOUS
    <3>4. /\ q \in LoginPackets(protocol_version) /\ q.mode = c /\ ModeAfter(q) = "configuration"
      BY <3>1, <3>3 DEF LoginPackets, PacketOf, ModeAfter
    <3>5. LoginWrites = <<q>> /\ sent' # <<>>
      <4>1. PICK w : w = Client!PacketOf("login_acknowledged", None)
        OBVIOUS
      <4>2. w \in CP!Packet /\ w.name = "login_acknowledged" /\ w.with = None
        BY <4>1 DEF Client!PacketOf, IInv, CP!IInv, CP!TypeOK, CP!Packet
      <4>3. ModeOf["login_acknowledged"] = "login"
        BY DEF ModeOf
      <4>4. LoginWrites = <<PacketOf(w.name, ModeOf[w.name], w.with)>> /\ sent' # <<>>
        BY <1>9, <3>2, <4>1, <4>2, WritesOne
      <4> QED
        BY <3>3, <4>2, <4>3, <4>4
    <3>6. client_mode'["login"] = "configuration" /\ client_mode'["status"] = client_mode["status"]
      BY <1>9, <3>2 DEF Role
    <3>7. ToClient(in["login"], "configuration", server_mode["login"], server_link["login"],
                   login_expecting["login"], started)
      BY <1>4, <1>5, <1>6, <3>1, ClientReadsSuccess
    <3>8. Stages("configuration", server_mode["login"], login_expecting["login"],
                 display_name["login"], started)
      BY <1>8, <3>1 DEF Stages, LoginModes
    <3> QED
      BY <1>3, <1>4, <1>5, <1>9, <2>1, <2>3, <3>1, <3>2, <3>4, <3>5, <3>6, <3>7, <3>8,
         LoginAdvances
  <2>6. CASE p.name = "finish_configuration" /\ Client!packet_finish_configuration
    <3>1. /\ c = "configuration" /\ started
          /\ p = PacketOf("finish_configuration", "configuration", None)
      BY <1>7, <1>12, <2>6 DEF Meant, PacketOf, Stray
    <3>2. /\ sent' = sent \o <<Client!PacketOf("finish_configuration", None)>>
          /\ client_mode' = [client_mode EXCEPT !["login"] = "play"]
          /\ UNCHANGED <<protocol_version, forced>>
      BY <1>4, <2>6 DEF Client!packet_finish_configuration, Client!Written, Client!settings
    <3>3. /\ p \in LoginPackets(protocol_version) /\ p.mode = c /\ ModeAfter(p) = "play"
      BY <3>1 DEF LoginPackets, PacketOf, ModeAfter
    <3>4. LoginWrites = <<p>> /\ sent' # <<>>
      <4>1. PICK w : w = Client!PacketOf("finish_configuration", None)
        OBVIOUS
      <4>2. w \in CP!Packet /\ w.name = "finish_configuration" /\ w.with = None
        BY <4>1 DEF Client!PacketOf, IInv, CP!IInv, CP!TypeOK, CP!Packet
      <4>3. ModeOf["finish_configuration"] = "configuration"
        BY DEF ModeOf
      <4>4. LoginWrites = <<PacketOf(w.name, ModeOf[w.name], w.with)>> /\ sent' # <<>>
        BY <1>9, <3>2, <4>1, <4>2, WritesOne
      <4> QED
        BY <3>1, <4>2, <4>3, <4>4
    <3>5. client_mode'["login"] = "play" /\ client_mode'["status"] = client_mode["status"]
      BY <1>9, <3>2 DEF Role
    <3>6. ToClient(in["login"], "play", server_mode["login"], server_link["login"],
                   login_expecting["login"], started)
      BY <1>2, <1>4, <1>5, <1>6, <3>1, ClientReadsFinish
    <3>7. Stages("play", server_mode["login"], login_expecting["login"],
                 display_name["login"], started)
      BY <1>8, <3>1 DEF Stages, LoginModes
    <3> QED
      BY <1>3, <1>4, <1>5, <1>9, <2>1, <2>3, <3>1, <3>2, <3>3, <3>4, <3>5, <3>6, <3>7,
         LoginAdvances
  <2> QED
    BY <2>2, <2>4, <2>5, <2>6
<1> QED
  BY <1>11, <1>12

(* The version the server announces is one it accepts.                     *)
LEMMA AnnouncedKnown ==
  ASSUME Versions PROVE announced \in Version /\ Known(announced)
BY LatestSupported DEF Versions, announced, Known

(* What the client reads on its status connection, and how the login goes  *)
(* on with the version it finds there.                                     *)
LEMMA ClientReadsStatus ==
  ASSUME IInv, client_reads("status") PROVE IInv'
<1>1. PICK in : in = [to_client EXCEPT !["status"] = Tail(@)]
  OBVIOUS
<1>2. PICK p : p = Head(to_client["status"])
  OBVIOUS
<1>3. PICK v : v = announced
  OBVIOUS
<1>4. v \in Version /\ Known(v)
  BY <1>3, AnnouncedKnown DEF IInv
<1>5. to_client["status"] # <<>> /\ to_client["status"] \in Seq(Packet)
  BY DEF client_reads, IInv, Role
<1>6. p = PacketOf("server_info", "status", v) /\ client_mode["status"] = "status"
  <2>1. p = to_client["status"][1] /\ 1 \in 1..Len(to_client["status"])
    BY <1>2, <1>5, TailOf
  <2>2. p = PacketOf("server_info", "status", v)
    BY <1>3, <2>1 DEF IInv, StatusStreams, StatusTold
  <2> QED
    BY <1>5, <2>2 DEF IInv, StatusStreams
<1>7. /\ ClientStep(in) /\ client_link["status"] = "open"
      /\ Client!packet_server_info(v) /\ UNCHANGED strays
  BY <1>1, <1>2, <1>6 DEF client_reads, Stray, client_tables, PacketOf
<1>8. ReadsOn(in) /\ in["login"] = to_client["login"]
  BY <1>1, <1>5 DEF IInv, ReadsOn, Role
<1>9. CP!IInv' /\ ReadAsWritten'
  <2>1. "status" \in Role
    BY DEF Role
  <2> QED
    BY <1>4, <1>7, <2>1, ClientTakes DEF IInv, ReadAsWritten
<1>10. /\ client_mode \in [Role -> {"handshaking", "status", "login", "configuration", "play"}]
       /\ forced = None /\ (detected = 0 => client_mode["login"] = "handshaking" /\ sent = <<>>)
  BY <1>7, ClientFacts DEF IInv
<1>11. CASE v \in Supported /\ detected = 0
  <2>1. /\ protocol_version' = v /\ UNCHANGED forced
        /\ client_mode' = [client_mode EXCEPT !["login"] = "login"]
        /\ sent' = Client!Written(<<Client!PacketOf("set_protocol", v),
                                    Client!PacketOf("login_start", None)>>)
    BY <1>7, <1>11 DEF Client!packet_server_info, Client!detectable, Client!switch_to_login,
       Client!settings
  <2>2. client_mode'["login"] = "login" /\ client_mode'["status"] = client_mode["status"]
    BY <1>10, <2>1 DEF Role
  <2>3. \/ sent' = <<>>
        \/ sent' = <<Client!PacketOf("set_protocol", v), Client!PacketOf("login_start", None)>>
    <3>1. \A q, r : <<>> \o <<q, r>> = <<q, r>>
      OBVIOUS
    <3> QED
      BY <1>10, <1>11, <2>1, <3>1 DEF Client!Written
  <2> QED
    BY <1>4, <1>7, <1>8, <1>9, <1>10, <1>11, <2>1, <2>2, <2>3, LoginBegins
<1>12. CASE ~(v \in Supported /\ detected = 0)
  <2>1. UNCHANGED <<sent, protocol_version, forced, client_mode>>
    BY <1>7, <1>12 DEF Client!packet_server_info, Client!detectable, Client!settings
  <2> QED
    BY <1>7, <1>8, <1>9, <2>1, ClientStays
<1> QED
  BY <1>11, <1>12

-----------------------------------------------------------------------------
(* Steps of the server                                                     *)

LEMMA ServerStepIs ==
  ASSUME IInv, NEW r \in Role, NEW in, NEW ps, ServerStep(r, in, ps)
  PROVE  /\ to_server'[r] = IF server_link'[r] = "lost" THEN <<>> ELSE in
         /\ to_client'[r] = IF client_link[r] = "lost" THEN <<>> ELSE to_client[r] \o ps
         /\ \A q \in Role \ {r} : to_server'[q] = to_server[q] /\ to_client'[q] = to_client[q]
         /\ to_server' = [q \in Role |-> to_server'[q]]
         /\ to_client' = [q \in Role |-> to_client'[q]]
         /\ UNCHANGED <<client_link, client_mode, forced, protocol_version, sent, server_forced>>
         /\ UNCHANGED client_vars
BY DEF ServerStep, IInv, client_vars, settings

(* The rest of the invariant after a step of the server.                   *)
LEMMA ServerRest ==
  ASSUME IInv, SP!IInv', NEW r \in Role, NEW in, NEW ps, ServerStep(r, in, ps),
         started' \in BOOLEAN,
         LoginStreams', Versions', StatusStreams', ReadAsWritten'
  PROVE  IInv'
<1>1. CP!IInv'
  <2>1. UNCHANGED client_vars /\ "login" \in Role /\ CP!IInv
    BY ServerStepIs DEF Role, IInv
  <2> QED
    BY <2>1, ClientTakes
<1>2. to_server'["login"] \in Seq(Packet) /\ to_client'["login"] \in Seq(Packet)
  BY DEF LoginStreams, ToServer, ToClient
<1>3. to_server'["status"] \in Seq(Packet)
  <2>1. PacketOf("set_protocol", "handshaking", Latest) \in Packet
    BY LatestSupported DEF PacketOf, Packet, Versioned, Client!Modes
  <2>2. PacketOf("ping_start", "status", None) \in Packet
    BY LatestSupported DEF PacketOf, Packet, Versioned, Client!Modes
  <2>3. \A p, q \in Packet : {<<>>, <<p, q>>, <<q>>} \subseteq Seq(Packet)
    OBVIOUS
  <2> QED
    BY <2>1, <2>2, <2>3 DEF StatusStreams, StatusAsked
<1>4. to_client'["status"] \in Seq(Packet)
  BY DEF StatusStreams, StatusTold
<1>5. to_server' = [q \in Role |-> to_server'[q]] /\ to_client' = [q \in Role |-> to_client'[q]]
  BY ServerStepIs
<1>6. \A q \in Role : to_server'[q] \in Seq(Packet) /\ to_client'[q] \in Seq(Packet)
  BY <1>2, <1>3, <1>4 DEF Role
<1>7. to_server' \in [Role -> Seq(Packet)] /\ to_client' \in [Role -> Seq(Packet)]
  BY <1>5, <1>6
<1> QED
  BY <1>1, <1>7 DEF IInv

LEMMA LoginKept ==
  ASSUME LoginStreams, Versions,
         UNCHANGED <<server_forced, forced, protocol_version, sent, client_mode, started>>,
         to_server'["login"] = to_server["login"], to_client'["login"] = to_client["login"],
         server_mode'["login"] = server_mode["login"],
         server_link'["login"] = server_link["login"],
         login_expecting'["login"] = login_expecting["login"],
         display_name'["login"] = display_name["login"],
         in_game'["login"] = in_game["login"]
  PROVE  LoginStreams' /\ Versions'
<1>1. Said' = Said
  BY DEF Said
<1>2. LoginStreams'
  BY <1>1 DEF LoginStreams
<1>3. Versions'
  BY DEF Versions, Known
<1> QED
  BY <1>2, <1>3

(* A step of the server's end of the status connection.                    *)
LEMMA ServerStatusStep ==
  ASSUME IInv, SP!IInv', NEW in, NEW ps, ServerStep("status", in, ps), UNCHANGED started,
         server_mode'["login"] = server_mode["login"],
         server_link'["login"] = server_link["login"],
         login_expecting'["login"] = login_expecting["login"],
         display_name'["login"] = display_name["login"],
         in_game'["login"] = in_game["login"],
         StatusStreams', ReadAsWritten'
  PROVE  IInv'
<1>1. "status" \in Role /\ "login" \in Role \ {"status"}
  BY DEF Role
<1>2. /\ to_server'["login"] = to_server["login"] /\ to_client'["login"] = to_client["login"]
      /\ UNCHANGED <<server_forced, forced, protocol_version, sent, client_mode>>
  BY <1>1, ServerStepIs
<1>3. LoginStreams' /\ Versions'
  BY <1>2, LoginKept DEF IInv
<1>4. started' \in BOOLEAN
  BY DEF IInv
<1> QED
  BY <1>1, <1>3, <1>4, ServerRest

(* A step of the server's end of the login connection.                     *)
LEMMA ServerLoginStep ==
  ASSUME IInv, SP!IInv', NEW in, NEW ps, ServerStep("login", in, ps), started' \in BOOLEAN,
         server_mode'["status"] = server_mode["status"], ReadAsWritten',
         ToServer(IF server_link'["login"] = "lost" THEN <<>> ELSE in,
                  server_mode'["login"], Said, protocol_version, server_link'["login"]),
         ToClient(to_client["login"] \o ps, client_mode["login"], server_mode'["login"],
                  server_link'["login"], login_expecting'["login"], started'),
         Stages(client_mode["login"], server_mode'["login"], login_expecting'["login"],
                display_name'["login"], started'),
         server_mode'["login"] = "login" /\ server_link'["login"] = "open"
           => Known(protocol_version),
         in_game'["login"] => Known(protocol_version)
  PROVE  IInv'
<1>1. "login" \in Role /\ "status" \in Role \ {"login"}
  BY DEF Role
<1>2. /\ to_server'["login"] = IF server_link'["login"] = "lost" THEN <<>> ELSE in
      /\ to_client'["login"] = IF client_link["login"] = "lost" THEN <<>>
                               ELSE to_client["login"] \o ps
      /\ to_server'["status"] = to_server["status"] /\ to_client'["status"] = to_client["status"]
      /\ UNCHANGED <<client_link, client_mode, forced, protocol_version, sent, server_forced>>
  BY <1>1, ServerStepIs
<1>3. Said' = Said
  BY <1>2 DEF Said
<1>4. ToClient(to_client'["login"], client_mode["login"], server_mode'["login"],
               server_link'["login"], login_expecting'["login"], started')
  BY <1>2, ClientLost
<1>5. LoginStreams'
  BY <1>2, <1>3, <1>4 DEF IInv, LoginStreams
<1>6. Versions'
  BY <1>2 DEF IInv, Versions, Known
<1>7. StatusStreams'
  BY <1>2, StatusKept DEF IInv
<1> QED
  BY <1>1, <1>5, <1>6, <1>7, ServerRest

(* How far the client has got when the server is in mode m, or may go there*)
LEMMA Reached ==
  ASSUME IInv, NEW m \in Upto(Said)
  PROVE  /\ m = "login" => client_mode["login"] \in {"login", "configuration", "play"}
         /\ m = "configuration" => client_mode["login"] \in {"configuration", "play"}
         /\ m = "play" => client_mode["login"] = "play"
         /\ m # "handshaking" => sent # <<>>
BY DEF Said, Upto

(* What close() and the timer tell the client.                             *)
LEMMA KickIs ==
  ASSUME SP!IInv, NEW r \in Role, NEW m, server_mode'[r] = m,
         kicks' = [kicks EXCEPT ![r] = IF m = "login" THEN @ + 1 ELSE @]
  PROVE  Kick(r) = IF m = "login" THEN <<PacketOf("disconnect", "login", None)>> ELSE <<>>
<1>1. PICK k \in Nat : k = kicks[r]
  BY ServerFacts
<1>2. kicks'[r] = IF m = "login" THEN k + 1 ELSE k
  BY <1>1, ServerFacts
<1>3. k + 1 > k /\ ~(k > k)
  OBVIOUS
<1> QED
  BY <1>1, <1>2, <1>3 DEF Kick, FromServer, PacketOf, server_tables

LEMMA KicksNobody ==
  ASSUME SP!IInv, NEW r \in Role, kicks'[r] = kicks[r] PROVE Kick(r) = <<>>
<1>1. PICK k \in Nat : k = kicks[r]
  BY ServerFacts
<1>2. ~(k > k)
  OBVIOUS
<1> QED
  BY <1>1, <1>2 DEF Kick

(* A close of a login that the client takes part in is meant for it.       *)
LEMMA ServerCloses ==
  ASSUME NEW s, NEW c, NEW m, NEW x, NEW begun, ToClient(s, c, m, "open", x, begun),
         begun => m \in {"configuration", "play"},
         NEW n, n = m \/ (m = "handshaking" /\ n = "login"),
         n = "login" => c \in {"login", "configuration"}
  PROVE  ToClient(s \o (IF n = "login" THEN <<PacketOf("disconnect", "login", None)>> ELSE <<>>),
                  c, n, "closing", x, begun)
<1>1. CASE n = "login"
  <2>1. PICK p : p = PacketOf("disconnect", "login", None)
    OBVIOUS
  <2>2. p \in Packet
    BY <2>1, LatestSupported DEF PacketOf, Packet, Versioned, Client!Modes
  <2>3. \A q, i, h : /\ i \in 1..h
                     /\ Meant(q, i, h, c, m, "open", x, begun)
                     => Meant(q, i, h + 1, c, n, "closing", x, begun)
    BY <1>1 DEF Meant
  <2>4. \A h \in Nat : h = Len(s) => Meant(p, h + 1, h + 1, c, n, "closing", x, begun)
    BY <1>1, <2>1 DEF Meant
  <2>5. ToClient(s \o <<p>>, c, n, "closing", x, begun)
    BY <2>2, <2>3, <2>4, ServerWrites
  <2> QED
    BY <1>1, <2>1, <2>5
<1>2. CASE n # "login"
  <2>1. s \o <<>> = s
    BY NothingAdded DEF ToClient
  <2>2. ToClient(s, c, n, "closing", x, begun)
    BY <1>2, ServerMoves
  <2> QED
    BY <1>2, <2>1, <2>2
<1> QED
  BY <1>1, <1>2

(* Connections, timers and applications of the server.                     *)
LEMMA ServerElseStep ==
  ASSUME IInv, NEW r \in Role, server_else(r) PROVE IInv'
<1>1. /\ ServerStep(r, to_server[r], Kick(r)) /\ UNCHANGED <<started, strays>>
      /\ \/ Server!connection_made(r) \/ Server!connection_lost(r)
         \/ Server!app_close(r) \/ Server!tick(r)
  BY DEF server_else
<1>2. SP!IInv'
  BY <1>1, ServerTakes DEF IInv
<1>3. ReadAsWritten' /\ started' \in BOOLEAN /\ SP!IInv
  BY <1>1 DEF IInv, ReadAsWritten
<1>4. /\ server_link \in [Role -> {"new", "open", "closing", "lost"}]
      /\ server_mode \in [Role -> {"handshaking", "status", "login", "configuration", "play"}]
      /\ in_game \in [Role -> BOOLEAN]
      /\ "login" \in Role /\ "status" \in Role
  BY <1>3, ServerFacts DEF Role
<1>5. /\ UNCHANGED <<server_mode, login_expecting, display_name, in_game>>
      /\ \/ /\ server_link[r] = "new" /\ UNCHANGED kicks
            /\ server_link' = [server_link EXCEPT ![r] = "open"]
         \/ /\ server_link[r] \in {"open", "closing"} /\ UNCHANGED kicks
            /\ server_link' = [server_link EXCEPT ![r] = "lost"]
         \/ /\ server_link[r] = "open"
            /\ server_link' = [server_link EXCEPT ![r] = "closing"]
            /\ kicks' = [kicks EXCEPT ![r] = IF server_mode[r] = "login" THEN @ + 1 ELSE @]
         \/ /\ server_link[r] = "open" /\ UNCHANGED <<server_link, kicks>>
  BY <1>1 DEF Server!connection_made, Server!connection_lost, Server!drop, Server!app_close,
     Server!tick, Server!close, Server!Open
<1>6. Kick(r) = <<>> \/ (Kick(r) = <<PacketOf("disconnect", "login", None)>>
                          /\ server_mode[r] = "login")
  BY <1>3, <1>5, KickIs, KicksNobody
<1>7. CASE r = "status"
  <2>1. server_link'["login"] = server_link["login"]
    BY <1>4, <1>5, <1>7
  <2>2. StatusStreams'
    <3>1. server_mode["status"] # "login"
      BY DEF IInv, StatusStreams
    <3>2. Kick("status") = <<>> /\ to_client["status"] \in Seq(Packet)
      BY <1>4, <1>6, <1>7, <3>1 DEF IInv
    <3>3. to_client["status"] \o <<>> = to_client["status"]
      BY <3>2, NothingAdded
    <3>4. /\ to_server'["status"] \in {<<>>, to_server["status"]}
          /\ to_client'["status"] \in {<<>>, to_client["status"]}
          /\ UNCHANGED <<server_mode, client_mode, server_forced>>
      <4>1. ServerStep("status", to_server["status"], <<>>)
        BY <1>1, <1>7, <3>2
      <4> QED
        BY <1>4, <1>5, <3>3, <4>1, ServerStepIs
    <3>5. announced' = announced
      BY <3>4 DEF announced
    <3>6. StatusTold(to_client["status"], announced)'
      <4>1. StatusTold(to_client'["status"], announced)
        BY <3>4, ToldLess DEF IInv, StatusStreams
      <4> QED
        BY <3>5, <4>1
    <3>7. StatusAsked(to_server["status"], server_mode["status"])'
      BY <3>4 DEF IInv, StatusStreams, StatusAsked
    <3> QED
      BY <3>4, <3>6, <3>7 DEF IInv, StatusStreams
  <2> QED
    BY <1>1, <1>2, <1>3, <1>5, <1>7, <2>1, <2>2, ServerStatusStep
<1>8. CASE r = "login"
  <2>1. PICK s, c, m, l, x, name, begun :
          /\ s = to_client["login"] /\ c = client_mode["login"] /\ m = server_mode["login"]
          /\ l = server_link["login"] /\ x = login_expecting["login"]
          /\ name = display_name["login"] /\ begun = started
    OBVIOUS
  <2>2. PICK k : k = server_link'["login"]
    OBVIOUS
  <2>3. /\ ToServer(to_server["login"], m, Said, protocol_version, l)
        /\ ToClient(s, c, m, l, x, begun) /\ Stages(c, m, x, name, begun)
    BY <2>1 DEF IInv, LoginStreams
  <2>4. \/ l = "new" /\ k = "open" /\ kicks' = kicks
        \/ l \in {"open", "closing"} /\ k = "lost" /\ kicks' = kicks
        \/ /\ l = "open" /\ k = "closing"
           /\ kicks' = [kicks EXCEPT !["login"] = IF m = "login" THEN @ + 1 ELSE @]
        \/ l = "open" /\ k = "open" /\ kicks' = kicks
    BY <1>4, <1>5, <1>8, <2>1, <2>2
  <2>5. ToServer(IF k = "lost" THEN <<>> ELSE to_server["login"], m, Said, protocol_version, k)
    BY <2>3, <2>4, ServerLost, ServerLinkMoves
  <2>6. ToClient(s \o Kick("login"), c, m, k, x, begun)
    <3>1. CASE l = "open" /\ k = "closing"
      <4>1. Kick("login") = IF m = "login" THEN <<PacketOf("disconnect", "login", None)>> ELSE <<>>
        BY <1>3, <1>4, <1>5, <2>1, <2>4, <3>1, KickIs
      <4>2. m = "login" => c \in {"login", "configuration"}
        <5>1. m \in Upto(Said)
          BY <2>3 DEF ToServer
        <5> QED
          BY <2>1, <2>3, <5>1, Reached DEF Stages
      <4>3. begun => m \in {"configuration", "play"}
        BY <2>3 DEF Stages
      <4> QED
        BY <2>3, <3>1, <4>1, <4>2, <4>3, ServerCloses
    <3>2. CASE ~(l = "open" /\ k = "closing")
      <4>1. Kick("login") = <<>>
        BY <1>3, <1>4, <2>4, <3>2, KicksNobody
      <4>2. s \o <<>> = s
        BY <2>3, NothingAdded DEF ToClient
      <4>3. ToClient(s, c, m, k, x, begun)
        BY <2>3, <2>4, <3>2, ServerMoves
      <4> QED
        BY <4>1, <4>2, <4>3
    <3> QED
      BY <3>1, <3>2
  <2>7. m = "login" /\ k = "open" => Known(protocol_version)
    <3>1. l = "new" => m # "login"
      BY <1>3, <1>4, <2>1 DEF SP!IInv, SP!NewIsFresh
    <3> QED
      BY <2>1, <2>4, <3>1 DEF IInv, Versions
  <2>8. in_game'["login"] => Known(protocol_version)
    BY <1>5 DEF IInv, Versions
  <2> QED
    BY <1>1, <1>2, <1>3, <1>5, <1>8, <2>1, <2>2, <2>3, <2>5, <2>6, <2>7, <2>8, ServerLoginStep
<1> QED
  BY <1>7, <1>8 DEF Role

LEMMA KnownOrNot ==
  ASSUME NEW r, NEW v, Server!packet_set_protocol(r, r, Known(v))
  PROVE  \E known \in BOOLEAN : Server!packet_set_protocol(r, r, known)
<1>1. CASE Known(v)
  <2>1. Server!packet_set_protocol(r, r, TRUE)
    BY <1>1 DEF Server!packet_set_protocol, Server!refused
  <2> QED
    BY <2>1
<1>2. CASE ~Known(v)
  <2>1. Server!packet_set_protocol(r, r, FALSE)
    BY <1>2 DEF Server!packet_set_protocol, Server!refused
  <2> QED
    BY <2>1
<1> QED
  BY <1>1, <1>2

(* What the server reads on its status connection.                         *)
LEMMA ServerReadsStatus ==
  ASSUME IInv, server_reads("status") PROVE IInv'
<1>1. PICK s, m, ask : /\ s = to_server["status"] /\ m = server_mode["status"]
                       /\ ask = PacketOf("ping_start", "status", None)
  OBVIOUS
<1>2. /\ "status" \in Role /\ "login" \in Role \ {"status"}
      /\ SP!IInv /\ StatusStreams /\ s \in Seq(Packet)
  BY <1>1 DEF IInv, Role
<1>3. s # <<>> /\ server_link["status"] = "open" /\ UNCHANGED started
  BY <1>1 DEF server_reads
<1>4. /\ m = "handshaking" => s = <<PacketOf("set_protocol", "handshaking", Latest), ask>>
      /\ m # "handshaking" => m = "status" /\ s = <<ask>>
      /\ client_mode["status"] = "status"
  BY <1>1, <1>2, <1>3 DEF StatusStreams, StatusAsked
<1>5. PICK p, rest : p = Head(s) /\ rest = Tail(s)
  OBVIOUS
<1>6. /\ p.mode = m /\ p.tables = Latest
      /\ p.name = IF m = "handshaking" THEN "set_protocol" ELSE "ping_start"
      /\ rest \in {<<>>, <<ask>>} /\ (m # "handshaking" => rest = <<>>)
  <2>1. CASE m = "handshaking"
    <3>1. PICK q : q = PacketOf("set_protocol", "handshaking", Latest)
      OBVIOUS
    <3>2. s = <<q, ask>>
      BY <1>4, <2>1, <3>1
    <3>3. p = q /\ rest = <<ask>>
      BY <1>5, <3>2
    <3> QED
      BY <2>1, <3>1, <3>3 DEF PacketOf
  <2>2. CASE m # "handshaking"
    <3>1. p = ask /\ rest = <<>>
      <4>1. s = <<ask>> /\ Len(s) = 1 /\ s # <<>> /\ s[1] = ask
        BY <1>4, <2>2
      <4>2. p = ask /\ IsTail(rest, s)
        BY <1>2, <1>5, <4>1, TailOf
      <4>3. rest \in Seq(Packet) /\ Len(rest) = 0
        BY <4>1, <4>2 DEF IsTail
      <4> QED
        BY <4>2, <4>3, EmptySeq
    <3> QED
      BY <1>1, <1>4, <2>2, <3>1 DEF PacketOf
  <2> QED
    BY <2>1, <2>2
<1>7. server_handles("status", p) /\ UNCHANGED strays
  BY <1>1, <1>5, <1>6 DEF server_reads, Stray, server_tables
<1>8. /\ server_mode \in [Role -> {"handshaking", "status", "login", "configuration", "play"}]
      /\ server_link \in [Role -> {"new", "open", "closing", "lost"}]
  BY <1>2, ServerFacts
<1>9. ReadAsWritten'
  BY <1>7 DEF IInv, ReadAsWritten
<1>10. CASE m = "handshaking"
  <2>1. /\ Server!packet_set_protocol("status", "status", Known(p.with))
        /\ ServerStep("status", rest, Kick("status"))
    BY <1>1, <1>5, <1>6, <1>7, <1>10 DEF server_handles
  <2>2. /\ server_mode' = [server_mode EXCEPT !["status"] = "status"]
        /\ UNCHANGED <<server_link, kicks, login_expecting, display_name, in_game>>
    BY <1>1, <1>10, <2>1 DEF Server!packet_set_protocol, Server!Transitions, Server!refused
  <2>3. SP!IInv'
    <3>1. \E known \in BOOLEAN : Server!packet_set_protocol("status", "status", known)
      BY <2>1, KnownOrNot
    <3> QED
      BY <1>2, <3>1, ServerTakes
  <2>4. Kick("status") = <<>>
    BY <1>2, <2>2, KicksNobody
  <2>5. ServerStep("status", rest, <<>>)
    BY <2>1, <2>4
  <2>6. to_client["status"] \o <<>> = to_client["status"]
    BY <1>2, NothingAdded DEF IInv
  <2>7. /\ to_server'["status"] \in {<<>>, <<ask>>}
        /\ to_client'["status"] \in {<<>>, to_client["status"]}
        /\ UNCHANGED <<client_mode, server_forced>>
    BY <1>2, <1>6, <2>5, <2>6, ServerStepIs
  <2>8. server_mode'["status"] = "status" /\ server_mode'["login"] = server_mode["login"]
    BY <1>2, <1>8, <2>2
  <2>9. StatusTold(to_client["status"], announced)'
    <3>1. StatusTold(to_client'["status"], announced)
      BY <1>2, <2>7, ToldLess DEF StatusStreams
    <3> QED
      BY <2>7, <3>1 DEF announced
  <2>10. StatusAsked(to_server["status"], server_mode["status"])'
    BY <1>1, <2>7, <2>8 DEF StatusAsked
  <2>11. StatusStreams'
    BY <1>4, <2>7, <2>8, <2>9, <2>10 DEF StatusStreams
  <2> QED
    BY <1>3, <1>9, <2>2, <2>3, <2>5, <2>8, <2>11, ServerStatusStep
<1>11. CASE m # "handshaking"
  <2>1. PICK told : told = PacketOf("server_info", "status", announced)
    OBVIOUS
  <2>2. /\ Server!packet_other("status")
        /\ ServerStep("status", rest, <<FromServer("status", "server_info", announced)>>)
    BY <1>1, <1>5, <1>6, <1>7, <1>11 DEF server_handles
  <2>3. UNCHANGED <<server_mode, server_link, kicks, login_expecting, display_name, in_game>>
    BY <2>2 DEF Server!packet_other
  <2>4. SP!IInv'
    BY <1>2, <2>2, ServerTakes
  <2>5. ServerStep("status", <<>>, <<told>>)
    BY <1>1, <1>4, <1>6, <1>11, <2>1, <2>2, <2>3 DEF FromServer, PacketOf, server_tables
  <2>6. /\ to_server'["status"] = <<>>
        /\ to_client'["status"] \in {<<>>, to_client["status"] \o <<told>>}
        /\ UNCHANGED <<client_mode, server_forced>>
    BY <1>2, <2>5, ServerStepIs
  <2>7. StatusTold(to_client["status"], announced)'
    <3>1. StatusTold(to_client["status"], announced) /\ announced \in Version
      BY <1>2, AnnouncedKnown DEF IInv, StatusStreams
    <3>2. StatusTold(to_client["status"] \o <<told>>, announced)
      BY <2>1, <3>1, ToldMore
    <3>3. StatusTold(to_client'["status"], announced)
      BY <2>6, <3>1, <3>2, ToldLess
    <3> QED
      BY <2>6, <3>3 DEF announced
  <2>8. StatusAsked(to_server["status"], server_mode["status"])'
    BY <2>6 DEF StatusAsked
  <2>9. StatusStreams'
    BY <1>1, <1>4, <1>11, <2>3, <2>6, <2>7, <2>8 DEF StatusStreams
  <2> QED
    BY <1>3, <1>9, <2>3, <2>4, <2>5, <2>9, ServerStatusStep
<1> QED
  BY <1>10, <1>11

(* What the server reads on its login connection.                          *)
LEMMA ServerReadsLogin ==
  ASSUME IInv, server_reads("login") PROVE IInv'
<1>1. PICK s, c, m, l, x, name, begun, v :
        /\ s = to_client["login"] /\ c = client_mode["login"] /\ m = server_mode["login"]
        /\ l = server_link["login"] /\ x = login_expecting["login"]
        /\ name = display_name["login"] /\ begun = started /\ v = protocol_version
  OBVIOUS
<1>2. PICK p, rest : p = Head(to_server["login"]) /\ rest = Tail(to_server["login"])
  OBVIOUS
<1>3. /\ "login" \in Role /\ "status" \in Role \ {"login"}
      /\ SP!IInv /\ v \in Version /\ s \in Seq(Packet)
  BY <1>1, ClientFacts DEF IInv, Role
<1>4. /\ to_server["login"] # <<>> /\ l = "open" /\ started' = begun /\ begun \in BOOLEAN
  BY <1>1 DEF server_reads, IInv
<1>5. /\ ToServer(to_server["login"], m, Said, v, l)
      /\ ToClient(s, c, m, l, x, begun) /\ Stages(c, m, x, name, begun)
  BY <1>1 DEF IInv, LoginStreams
<1>6. /\ p \in LoginPackets(v) /\ p.mode = m /\ ModeAfter(p) \in Upto(Said)
      /\ \A k : ToServer(IF k = "lost" THEN <<>> ELSE rest, ModeAfter(p), Said, v, k)
  BY <1>2, <1>3, <1>4, <1>5, ServerReads
<1>7. server_handles("login", p) /\ UNCHANGED strays
  BY <1>1, <1>2, <1>3, <1>6, LoginPacketsAre DEF server_reads, Stray, server_tables
<1>8. /\ server_mode \in [Role -> {"handshaking", "status", "login", "configuration", "play"}]
      /\ server_link \in [Role -> {"new", "open", "closing", "lost"}]
      /\ login_expecting \in [Role -> {0, None}] /\ display_name \in [Role -> {"player", None}]
      /\ in_game \in [Role -> BOOLEAN]
      /\ in_game["login"] <=> m \in {"configuration", "play"}
  BY <1>1, <1>3, ServerFacts
<1>9. ReadAsWritten'
  BY <1>7 DEF IInv, ReadAsWritten
<1>10. s \o <<>> = s
  BY <1>3, NothingAdded
<1>11. CASE p.name = "set_protocol"
  <2>1. /\ Server!packet_set_protocol("login", "login", Known(p.with))
        /\ ServerStep("login", rest, Kick("login"))
    BY <1>2, <1>7, <1>11 DEF server_handles
  <2>2. m = "handshaking" /\ ModeAfter(p) = "login" /\ p.with = v
    BY <1>6, <1>11 DEF LoginPackets, PacketOf, ModeAfter
  <2>3. SP!IInv'
    <3>1. \E known \in BOOLEAN : Server!packet_set_protocol("login", "login", known)
      BY <2>1, KnownOrNot
    <3> QED
      BY <1>3, <3>1, ServerTakes
  <2>4. /\ server_mode' = [server_mode EXCEPT !["login"] = "login"]
        /\ UNCHANGED <<login_expecting, display_name, in_game>>
        /\ \/ /\ server_link' = [server_link EXCEPT !["login"] = "closing"]
              /\ kicks' = [kicks EXCEPT !["login"] = @ + 1]
           \/ Known(v) /\ UNCHANGED <<server_link, kicks>>
    BY <1>1, <2>1, <2>2 DEF Server!packet_set_protocol, Server!Transitions, Server!refused,
       Server!close
  <2>5. server_mode'["login"] = "login" /\ server_mode'["status"] = server_mode["status"]
    BY <1>3, <1>8, <2>4
  <2>6. PICK k : k = server_link'["login"]
    OBVIOUS
  <2>7. ~begun /\ c \in {"login", "configuration"}
    BY <1>1, <1>5, <1>6, <2>2, Reached DEF Stages
  <2>8. ToClient(s \o Kick("login"), c, "login", k, x, begun)
    <3>1. CASE /\ server_link' = [server_link EXCEPT !["login"] = "closing"]
               /\ kicks' = [kicks EXCEPT !["login"] = @ + 1]
      <4>1. k = "closing"
        BY <1>3, <1>8, <2>6, <3>1
      <4>2. Kick("login") = <<PacketOf("disconnect", "login", None)>>
        <5>1. PICK n : n = "login"
          OBVIOUS
        <5>2. kicks' = [kicks EXCEPT !["login"] = IF n = "login" THEN @ + 1 ELSE @]
          BY <3>1, <5>1
        <5> QED
          BY <1>3, <2>5, <5>1, <5>2, KickIs
      <4> QED
        BY <1>4, <1>5, <2>2, <2>7, <4>1, <4>2, ServerCloses
    <3>2. CASE Known(v) /\ UNCHANGED <<server_link, kicks>>
      <4>1. Kick("login") = <<>> /\ k = "open"
        BY <1>1, <1>3, <1>4, <2>6, <3>2, KicksNobody
      <4>2. ToClient(s, c, "login", k, x, begun)
        BY <1>4, <1>5, <2>2, ServerMoves
      <4> QED
        BY <1>10, <4>1, <4>2
    <3> QED
      BY <2>4, <3>1, <3>2
  <2>9. ToServer(IF k = "lost" THEN <<>> ELSE rest, "login", Said, v, k)
    BY <1>6, <2>2
  <2>10. Stages(c, "login", x, name, begun)
    BY <1>5, <2>7 DEF Stages, LoginModes
  <2>11. k = "open" => Known(v)
    <3>1. CASE server_link' = [server_link EXCEPT !["login"] = "closing"]
      BY <1>3, <1>8, <2>6, <3>1
    <3> QED
      BY <2>4, <3>1
  <2>12. ~in_game'["login"]
    BY <1>8, <2>2, <2>4
  <2> QED
    BY <1>1, <1>4, <1>9, <2>1, <2>3, <2>4, <2>5, <2>6, <2>8, <2>9, <2>10, <2>11, <2>12,
       ServerLoginStep
<1>12. CASE p.name = "login_start"
  <2>1. /\ Server!packet_login_start("login", "player")
        /\ ServerStep("login", rest, IF x = 0 THEN <<FromServer("login", "success", None)>> ELSE <<>>)
    BY <1>1, <1>2, <1>7, <1>12 DEF server_handles
  <2>2. m = "login" /\ ModeAfter(p) = "login"
    BY <1>6, <1>12 DEF LoginPackets, PacketOf, ModeAfter
  <2>3. SP!IInv'
    BY <1>3, <2>1, ServerTakes
  <2>4. ~begun
    BY <1>5, <2>2 DEF Stages
  <2>5. UNCHANGED <<server_mode, in_game>>
    BY <2>1 DEF Server!packet_login_start, Server!drop
  <2>6. Known(v) /\ ~in_game["login"]
    BY <1>1, <1>4, <1>8, <2>2 DEF IInv, Versions
  <2>7. CASE x # 0
    <3>1. /\ ServerStep("login", rest, <<>>) /\ UNCHANGED <<login_expecting, display_name>>
          /\ server_link' = [server_link EXCEPT !["login"] = "lost"]
      BY <1>1, <2>1, <2>7 DEF Server!packet_login_start, Server!drop
    <3>2. server_link'["login"] = "lost"
      BY <1>3, <1>8, <3>1
    <3>3. ToClient(s \o <<>>, c, m, "lost", x, begun)
      BY <1>4, <1>5, <1>10, ServerMoves
    <3>4. ToServer(IF "lost" = "lost" THEN <<>> ELSE rest, m, Said, v, "lost")
      BY <1>6, <2>2
    <3> QED
      BY <1>1, <1>4, <1>5, <1>9, <2>3, <2>5, <2>6, <3>1, <3>2, <3>3, <3>4, ServerLoginStep
  <2>8. CASE x = 0
    <3>1. PICK q : q = PacketOf("success", "login", None)
      OBVIOUS
    <3>2. /\ UNCHANGED server_link
          /\ login_expecting' = [login_expecting EXCEPT !["login"] = None]
          /\ display_name' = [display_name EXCEPT !["login"] = "player"]
      BY <1>1, <2>1, <2>8 DEF Server!packet_login_start
    <3>3. login_expecting'["login"] = None /\ display_name'["login"] = "player"
      BY <1>3, <1>8, <3>2
    <3>4. ServerStep("login", rest, <<q>>)
      BY <1>1, <2>1, <2>2, <2>5, <2>8, <3>1 DEF FromServer, PacketOf, server_tables
    <3>5. c = "login"
      BY <1>1, <1>5, <1>6, <2>2, <2>8, Reached DEF Stages
    <3>6. None # 0 /\ "player" # None
      BY NoneIsNone
    <3>7. ToClient(s \o <<q>>, c, m, l, None, begun)
      <4>1. \A w, i, h : ~Meant(w, i, h, c, m, l, x, begun)
        BY <1>4, <2>2, <2>4, <2>8, <3>5 DEF Meant
      <4>2. Len(s) = 0
        <5>1. PICK n \in Nat : n = Len(s)
          BY <1>3
        <5>2. \A i \in 1..n : FALSE
          BY <1>5, <4>1, <5>1 DEF ToClient
        <5>3. n # 0 => 1 \in 1..n
          OBVIOUS
        <5> QED
          BY <5>1, <5>2, <5>3
      <4>3. \A h \in Nat : h = Len(s) => Meant(q, h + 1, h + 1, c, m, l, None, begun)
        BY <3>1, <3>5, <3>6, <4>2 DEF Meant
      <4>4. q \in Packet
        BY <3>1, LatestSupported DEF PacketOf, Packet, Versioned, Client!Modes
      <4> QED
        BY <1>5, <4>1, <4>3, <4>4, ServerWrites
    <3>8. Stages(c, m, None, "player", begun)
      BY <1>5, <2>4, <3>5, <3>6 DEF Stages
    <3>9. ToServer(IF l = "lost" THEN <<>> ELSE rest, m, Said, v, l)
      BY <1>6, <2>2
    <3> QED
      BY <1>1, <1>4, <1>9, <2>3, <2>5, <2>6, <3>2, <3>3, <3>4, <3>7, <3>8, <3>9,
         ServerLoginStep
  <2> QED
    BY <2>7, <2>8
<1>13. CASE p.name = "login_acknowledged"
  <2>1. Server!packet_login_acknowledged("login") /\ ServerStep("login", rest, <<>>)
    BY <1>2, <1>7, <1>13 DEF server_handles
  <2>2. m = "login" /\ ModeAfter(p) = "configuration"
    BY <1>6, <1>13 DEF LoginPackets, PacketOf, ModeAfter
  <2>3. SP!IInv'
    BY <1>3, <2>1, ServerTakes
  <2>4. /\ server_mode' = [server_mode EXCEPT !["login"] = "configuration"]
        /\ UNCHANGED <<server_link, login_expecting, display_name>>
    BY <2>1 DEF Server!packet_login_acknowledged
  <2>5. server_mode'["login"] = "configuration" /\ server_mode'["status"] = server_mode["status"]
    BY <1>3, <1>8, <2>4
  <2>6. Known(v)
    BY <1>1, <1>4, <2>2 DEF IInv, Versions
  <2>7. ToClient(s \o <<>>, c, "configuration", l, x, begun)
    BY <1>4, <1>5, <1>10, <2>2, ServerMoves
  <2>8. Stages(c, "configuration", x, name, begun)
    BY <1>5 DEF Stages, LoginModes
  <2>9. ToServer(IF l = "lost" THEN <<>> ELSE rest, "configuration", Said, v, l)
    BY <1>6, <2>2
  <2> QED
    BY <1>1, <1>4, <1>9, <2>1, <2>3, <2>4, <2>5, <2>6, <2>7, <2>8, <2>9, ServerLoginStep
<1>14. CASE p.name = "finish_configuration"
  <2>1. PICK q : q = PacketOf("finish_configuration", "configuration", None)
    OBVIOUS
  <2>2. /\ Server!packet_finish_configuration("login")
        /\ ServerStep("login", rest,
             <<[FromServer("login", "finish_configuration", None) EXCEPT !.mode = "configuration"]>>)
    BY <1>2, <1>7, <1>14 DEF server_handles
  <2>3. ServerStep("login", rest, <<q>>)
    BY <2>1, <2>2 DEF FromServer, PacketOf, server_tables
  <2>4. m = "configuration" /\ ModeAfter(p) = "play"
    BY <1>6, <1>14 DEF LoginPackets, PacketOf, ModeAfter
  <2>5. SP!IInv'
    BY <1>3, <2>2, ServerTakes
  <2>6. /\ server_mode' = [server_mode EXCEPT !["login"] = "play"]
        /\ UNCHANGED <<server_link, login_expecting, display_name, in_game>>
    BY <2>2 DEF Server!packet_finish_configuration
  <2>7. server_mode'["login"] = "play" /\ server_mode'["status"] = server_mode["status"]
    BY <1>3, <1>8, <2>6
  <2>8. c = "play" /\ begun
    BY <1>1, <1>5, <1>6, <2>4, Reached DEF Stages
  <2>9. ToClient(s \o <<q>>, c, "play", l, x, begun)
    <3>1. \A w, i, h : Meant(w, i, h, c, m, l, x, begun) => Meant(w, i, h + 1, c, "play", l, x, begun)
      BY <1>4, <2>8 DEF Meant
    <3>2. \A h \in Nat : h = Len(s) => Meant(q, h + 1, h + 1, c, "play", l, x, begun)
      BY <2>1, <2>8 DEF Meant
    <3>3. q \in Packet
      BY <2>1, LatestSupported DEF PacketOf, Packet, Versioned, Client!Modes
    <3> QED
      BY <1>5, <3>1, <3>2, <3>3, ServerWrites
  <2>10. Stages(c, "play", x, name, begun)
    BY <1>5 DEF Stages, LoginModes
  <2>11. ToServer(IF l = "lost" THEN <<>> ELSE rest, "play", Said, v, l)
    BY <1>6, <2>4
  <2>12. in_game'["login"] => Known(v)
    BY <1>1, <2>6 DEF IInv, Versions
  <2> QED
    BY <1>1, <1>4, <1>9, <2>3, <2>5, <2>6, <2>7, <2>9, <2>10, <2>11, <2>12, ServerLoginStep
<1>15. CASE p.name = "data"
  <2>1. Server!packet_other("login") /\ ServerStep("login", rest, <<>>)
    BY <1>2, <1>7, <1>15 DEF server_handles
  <2>2. ModeAfter(p) = m
    BY <1>6, <1>15 DEF ModeAfter
  <2>3. SP!IInv'
    BY <1>3, <2>1, ServerTakes
  <2>4. UNCHANGED <<server_mode, server_link, login_expecting, display_name, in_game>>
    BY <2>1 DEF Server!packet_other
  <2>5. ToClient(s \o <<>>, c, m, l, x, begun)
    BY <1>5, <1>10
  <2>6. ToServer(IF l = "lost" THEN <<>> ELSE rest, m, Said, v, l)
    BY <1>6, <2>2
  <2>7. /\ m = "login" /\ l = "open" => Known(v)
        /\ in_game'["login"] => Known(v)
    BY <1>1, <2>4 DEF IInv, Versions
  <2> QED
    BY <1>1, <1>4, <1>5, <1>9, <2>1, <2>3, <2>4, <2>5, <2>6, <2>7, ServerLoginStep
<1> QED
  BY <1>6, <1>11, <1>12, <1>13, <1>14, <1>15 DEF LoginPackets, PacketOf

-----------------------------------------------------------------------------
(* Steps of the applications                                               *)

LEMMA ClientSends == ASSUME IInv, client_sends PROVE IInv'
<1>1. PICK s, c, m, l, v : /\ s = to_server["login"] /\ c = client_mode["login"]
                           /\ m = server_mode["login"] /\ l = server_link["login"]
                           /\ v = protocol_version
  OBVIOUS
<1>2. PICK p : p = PacketOf("data", c, None)
  OBVIOUS
<1>3. "login" \in Role /\ "status" \in Role /\ "login" # "status"
  BY DEF Role
<1>4. /\ c \in {"configuration", "play"} /\ l # "lost"
      /\ to_server' = [to_server EXCEPT !["login"] = Append(s, p)]
      /\ UNCHANGED <<client_vars, server_vars, settings, to_client, started, strays>>
  BY <1>1, <1>2 DEF client_sends, FromClient, PacketOf, client_tables
<1>5. /\ UNCHANGED <<sent, client_mode, protocol_version, forced, server_mode, server_link,
                     login_expecting, display_name, in_game, server_forced>>
      /\ UNCHANGED <<client_vars, server_vars, to_client, started, strays>>
  BY <1>4 DEF client_vars, server_vars, settings
<1>6. v \in Version /\ ToServer(s, m, c, v, l) /\ sent # <<>>
  BY <1>1, <1>4, ClientFacts DEF IInv, LoginStreams, Said
<1>7. p \in LoginPackets(v) /\ p.mode = c /\ ModeAfter(p) = c
  BY <1>2, <1>4 DEF LoginPackets, PacketOf, ModeAfter
<1>8. ToServer(Append(s, p), m, c, v, l)
  BY <1>4, <1>6, <1>7, ClientWrites
<1>9. /\ to_server'["login"] = Append(s, p) /\ to_server'["status"] = to_server["status"]
      /\ to_server' \in [Role -> Seq(Packet)]
  <2>1. Append(s, p) \in Seq(Packet)
    BY <1>8 DEF ToServer
  <2> QED
    BY <1>3, <1>4, <2>1 DEF IInv
<1>10. LoginStreams'
  <2>1. Said' = c
    BY <1>1, <1>5, <1>6 DEF Said
  <2> QED
    BY <1>1, <1>5, <1>8, <1>9, <2>1 DEF IInv, LoginStreams
<1>11. Versions' /\ ReadAsWritten'
  BY <1>5 DEF IInv, Versions, Known, ReadAsWritten
<1>12. StatusStreams'
  BY <1>5, <1>9, StatusKept DEF IInv
<1>13. CP!IInv' /\ SP!IInv'
  BY <1>3, <1>5, ClientTakes, ServerTakes DEF IInv
<1> QED
  BY <1>5, <1>9, <1>10, <1>11, <1>12, <1>13 DEF IInv

(* A packet that the application of a server in mode m sends, or the end   *)
(* of the configuration.                                                   *)
LEMMA ServerSays ==
  ASSUME IInv, NEW m, m = server_mode["login"], server_link["login"] = "open",
         NEW p \in Packet, ServerStep("login", to_server["login"], <<p>>),
         UNCHANGED <<server_vars, strays>>,
         \/ /\ p = PacketOf("data", m, None) /\ UNCHANGED started
            /\ m = "play" \/ (m = "configuration" /\ ~started)
         \/ /\ p = PacketOf("finish_configuration", "configuration", None)
            /\ m = "configuration" /\ ~started /\ started' = TRUE
  PROVE  IInv'
<1>1. PICK s, c, l, x, name, begun, v :
        /\ s = to_client["login"] /\ c = client_mode["login"]
        /\ l = server_link["login"] /\ x = login_expecting["login"]
        /\ name = display_name["login"] /\ begun = started /\ v = protocol_version
  OBVIOUS
<1>2. /\ "login" \in Role /\ SP!IInv /\ l = "open" /\ m \in {"configuration", "play"}
      /\ UNCHANGED <<server_mode, server_link, login_expecting, display_name, in_game>>
  BY <1>1 DEF IInv, Role, server_vars
<1>3. /\ ToServer(to_server["login"], m, Said, v, l)
      /\ ToClient(s, c, m, l, x, begun) /\ Stages(c, m, x, name, begun)
  BY <1>1 DEF IInv, LoginStreams
<1>4. m \in Upto(Said)
  BY <1>3 DEF ToServer
<1>5. c = m
  BY <1>1, <1>2, <1>3, <1>4, Reached DEF Stages
<1>6. SP!IInv'
  BY <1>2, ServerTakes
<1>7. ReadAsWritten' /\ started' \in BOOLEAN
  BY DEF IInv, ReadAsWritten
<1>8. PICK done : done = started'
  OBVIOUS
<1>9. ToClient(s \o <<p>>, c, m, l, x, done)
  <2>1. \A q, i, h : /\ i \in 1..h
                     /\ Meant(q, i, h, c, m, l, x, begun)
                     => Meant(q, i, h + 1, c, m, l, x, done)
    BY <1>1, <1>2, <1>5, <1>8 DEF Meant
  <2>2. \A h \in Nat : h = Len(s) => Meant(p, h + 1, h + 1, c, m, l, x, done)
    BY <1>1, <1>2, <1>5, <1>8 DEF Meant
  <2> QED
    BY <1>3, <2>1, <2>2, ServerWrites
<1>10. Stages(c, m, x, name, done)
  BY <1>1, <1>2, <1>3, <1>5, <1>8 DEF Stages
<1>11. /\ m = "login" /\ l = "open" => Known(v)
       /\ in_game["login"] => Known(v)
  BY <1>1, <1>2 DEF IInv, Versions
<1>12. ToServer(IF l = "lost" THEN <<>> ELSE to_server["login"], m, Said, v, l)
  BY <1>2, <1>3
<1> QED
  BY <1>1, <1>2, <1>6, <1>7, <1>8, <1>9, <1>10, <1>11, <1>12, ServerLoginStep

LEMMA ServerSends == ASSUME IInv, server_sends \/ server_starts PROVE IInv'
<1>1. PICK m : m = server_mode["login"]
  OBVIOUS
<1>2. PICK d, f : /\ d = PacketOf("data", m, None)
                  /\ f = PacketOf("finish_configuration", "configuration", None)
  OBVIOUS
<1>3. /\ server_link["login"] = "open" /\ UNCHANGED <<server_vars, strays>>
      /\ m = "play" \/ (m = "configuration" /\ ~started)
  BY <1>1 DEF server_sends, server_starts, ServerMaySend
<1>4. d \in Packet /\ f \in Packet
  BY <1>2, <1>3, LatestSupported DEF PacketOf, Packet, Versioned, Client!Modes
<1>5. server_mode'["login"] = m
  BY <1>1, <1>3 DEF server_vars
<1>6. CASE server_sends
  <2>1. ServerStep("login", to_server["login"], <<d>>) /\ UNCHANGED started
    BY <1>2, <1>5, <1>6 DEF server_sends, FromServer, PacketOf, server_tables
  <2> QED
    BY <1>1, <1>2, <1>3, <1>4, <2>1, ServerSays
<1>7. CASE server_starts
  <2>1. /\ started' = TRUE /\ m = "configuration"
        /\ ServerStep("login", to_server["login"], <<f>>)
    BY <1>1, <1>2, <1>5, <1>7 DEF server_starts, FromServer, PacketOf, server_tables
  <2> QED
    BY <1>1, <1>2, <1>3, <1>4, <2>1, ServerSays
<1> QED
  BY <1>6, <1>7

-----------------------------------------------------------------------------
(* The invariant                                                           *)

LEMMA IInvInit == Init => IInv
<1> SUFFICES ASSUME Init PROVE IInv
  OBVIOUS
<1>1. CP!IInv
  <2>1. CP!Init
    BY DEF Init, Client!Init, CP!Init, Client!Role, CP!Role, Client!Profile!Init,
       CP!Profile!Init, Client!Join, CP!Join, Client!Profile!Requests, CP!Profile!Requests
  <2> QED
    BY <2>1, CP!IInvInit, LatestSupported, NoneIsNone
<1>2. SP!IInv
  <2>1. SP!Init
    BY DEF Init, Server!Init, SP!Init
  <2> QED
    BY <2>1, RoleFinite, SP!IInvInit, NoneIsNone
<1>3. "login" \in Role /\ "status" \in Role
  BY DEF Role
<1>4. /\ to_server \in [Role -> Seq(Packet)] /\ to_client \in [Role -> Seq(Packet)]
      /\ to_server["login"] = <<>> /\ to_client["login"] = <<>>
      /\ to_server["status"] = <<>> /\ to_client["status"] = <<>>
      /\ started = FALSE /\ strays = {} /\ sent = <<>>
      /\ client_mode["login"] = "handshaking" /\ client_mode["status"] = "handshaking"
      /\ server_mode["login"] = "handshaking" /\ server_mode["status"] = "handshaking"
      /\ login_expecting["login"] = 0 /\ ~in_game["login"]
      /\ server_forced \in Version \cup {None}
  BY <1>3 DEF Init, Client!Init, Server!Init, Client!Role, Role
<1>5. LoginStreams
  BY <1>4, ClientLost DEF LoginStreams, ToServer, Chain, Upto, Said, Stages, LoginModes
<1>6. Versions
  BY <1>4 DEF Versions
<1>7. StatusStreams
  <2>1. StatusTold(<<>>, announced)
    BY DEF StatusTold
  <2> QED
    BY <1>4, <2>1 DEF StatusStreams, StatusAsked
<1>8. ReadAsWritten
  BY <1>4 DEF ReadAsWritten
<1> QED
  BY <1>1, <1>2, <1>4, <1>5, <1>6, <1>7, <1>8 DEF IInv

LEMMA StutterStep == ASSUME IInv, UNCHANGED vars PROVE IInv'
<1>1. /\ UNCHANGED <<client_vars, server_vars, settings, to_server, to_client, started, strays>>
      /\ "login" \in Role
  BY DEF vars, Role
<1>2. UNCHANGED <<sent, client_mode, protocol_version, forced, server_mode, server_link,
                  login_expecting, display_name, in_game, server_forced>>
  BY <1>1 DEF client_vars, server_vars, settings
<1>3. CP!IInv' /\ SP!IInv'
  BY <1>1, ClientTakes, ServerTakes DEF IInv
<1>4. LoginStreams' /\ Versions' /\ StatusStreams'
  BY <1>1, <1>2, LoginKept, StatusKept DEF IInv
<1> QED
  BY <1>1, <1>3, <1>4 DEF IInv, ReadAsWritten

LEMMA IInvNext == IInv /\ [Next]_vars => IInv'
<1> SUFFICES ASSUME IInv, [Next]_vars PROVE IInv'
  OBVIOUS
<1>1. ASSUME NEW r \in Role, client_reads(r) PROVE IInv'
  BY <1>1, ClientReadsLogin, ClientReadsStatus DEF Role
<1>2. ASSUME NEW r \in Role, server_reads(r) PROVE IInv'
  BY <1>2, ServerReadsLogin, ServerReadsStatus DEF Role
<1>3. ASSUME NEW r \in Role, client_else(r) PROVE IInv'
  BY <1>3, ClientElseStep
<1>4. ASSUME NEW r \in Role, server_else(r) PROVE IInv'
  BY <1>4, ServerElseStep
<1>5. CASE client_sends
  BY <1>5, ClientSends
<1>6. CASE server_sends \/ server_starts
  BY <1>6, ServerSends
<1>7. CASE UNCHANGED vars
  BY <1>7, StutterStep
<1> QED
  BY <1>1, <1>2, <1>3, <1>4, <1>5, <1>6, <1>7 DEF Next

LEMMA Invariance == Spec => []IInv
BY IInvInit, IInvNext, PTL DEF Spec

(* Neither end leaves the states that its own module gives it, and streams *)
(* hold packets of tables that there are.                                  *)
THEOREM TypeCorrect == Spec => []TypeOK
<1>1. IInv => TypeOK
  <2> SUFFICES ASSUME IInv PROVE TypeOK
    OBVIOUS
  <2>1. Client!TypeOK
    BY DEF IInv, CP!IInv, CP!TypeOK, Client!TypeOK, CP!Role, Client!Role, CP!Links,
       Client!Links, CP!Modes, Client!Modes, CP!Join, Client!Join, CP!Packet, Client!Packet,
       CP!Profile!TypeOK, Client!Profile!TypeOK, CP!Profile!Requests,
       Client!Profile!Requests, CP!Profile!RequestStates, Client!Profile!RequestStates
  <2>2. Server!TypeOK
    BY DEF IInv, SP!IInv, SP!TypeOK, Server!TypeOK, SP!Links, Server!Links, SP!Modes,
       Server!Modes
  <2> QED
    BY <2>1, <2>2 DEF IInv, TypeOK
<1> QED
  BY Invariance, <1>1, PTL

(* Each end reads a packet with the tables and in the mode it was written  *)
(* with, but for the two packets of the server that ReadAsWritten names,   *)
(* for any versions and any number of packets under way.                   *)
THEOREM ReadAsWrittenHolds == Spec => []ReadAsWritten
<1>1. IInv => ReadAsWritten
  BY DEF IInv
<1> QED
  BY Invariance, <1>1, PTL

(* The server's login never gets ahead of the client's: whoever joined has *)
(* a name, and plays only with a client that plays, which it does only     *)
(* after the application ended the configuration.                          *)
THEOREM ServerBehindHolds == Spec => []ServerBehind
<1>1. IInv => ServerBehind
  <2> SUFFICES ASSUME IInv PROVE ServerBehind
    OBVIOUS
  <2>1. server_mode["login"] \in Upto(Said)
    BY DEF IInv, LoginStreams, ToServer
  <2>2. in_game["login"] <=> server_mode["login"] \in {"configuration", "play"}
    BY ServerFacts DEF IInv, Role
  <2>3. Stages(client_mode["login"], server_mode["login"], login_expecting["login"],
               display_name["login"], started)
    BY DEF IInv, LoginStreams
  <2> QED
    BY <2>1, <2>2, <2>3, Reached DEF ServerBehind, Stages
<1> QED
  BY Invariance, <1>1, PTL

(* A client that asked for the server's version is not refused for it, and *)
(* whoever joins the game announced a version that the server accepts.     *)
THEOREM VersionAgreedHolds == Spec => []VersionAgreed
<1>1. IInv => VersionAgreed
  <2> SUFFICES ASSUME IInv PROVE VersionAgreed
    OBVIOUS
  <2>1. in_game["login"] => Known(protocol_version)
    BY DEF IInv, Versions
  <2>2. ASSUME forced = None, NEW i \in DOMAIN to_server["login"],
               to_server["login"][i].name = "set_protocol"
        PROVE  Known(to_server["login"][i].with)
    <3>1. PICK p : p = to_server["login"][i]
      OBVIOUS
    <3>2. p \in LoginPackets(protocol_version) /\ ModeAfter(p) \in Upto(Said)
      <4>1. i \in 1..Len(to_server["login"])
        BY DEF IInv, Role
      <4> QED
        BY <3>1, <4>1 DEF IInv, LoginStreams, ToServer
    <3>3. p.with = protocol_version /\ ModeAfter(p) = "login"
      BY <2>2, <3>1, <3>2 DEF LoginPackets, PacketOf, ModeAfter
    <3>4. sent # <<>>
      BY <3>2, <3>3, Reached
    <3> QED
      BY <2>2, <3>1, <3>3, <3>4 DEF IInv, Versions
  <2> QED
    BY <2>1, <2>2 DEF VersionAgreed
<1> QED
  BY Invariance, <1>1, PTL

-----------------------------------------------------------------------------
(* A session is a behaviour of each of the modules it is composed of.      *)

LEMMA ClientSteps == ASSUME IInv, [Next]_vars PROVE [Client!Next]_client_vars
<1> USE DEF Role, Client!Role
<1>1. ASSUME NEW r \in Role, client_reads(r) PROVE [Client!Next]_client_vars
  <2>1. PICK p : p = Head(to_client[r])
    OBVIOUS
  <2>2. p \in Packet /\ client_link[r] = "open"
    <3>1. to_client[r] \in Seq(Packet) /\ to_client[r] # <<>> /\ client_link[r] = "open"
      BY <1>1 DEF client_reads, IInv
    <3> QED
      BY <2>1, <3>1, TailOf
  <2>3. \/ Client!packet_other(r) \/ UNCHANGED client_vars \/ Client!drop(r)
        \/ p.name = "server_info" /\ Client!packet_server_info(p.with)
        \/ Client!packet_success \/ Client!packet_finish_configuration
        \/ Client!packet_disconnect
    BY <1>1, <2>1 DEF client_reads
  <2>4. p.name = "server_info" => p.with \in Version
    BY <2>2 DEF Packet
  <2>5. Client!drop(r) => Client!connection_lost(r)
    BY <2>2 DEF Client!connection_lost
  <2> QED
    BY <2>3, <2>4, <2>5 DEF Client!Next
<1>2. ASSUME NEW r \in Role, client_else(r) PROVE [Client!Next]_client_vars
  BY <1>2 DEF client_else, Client!Next
<1>3. ASSUME NEW r \in Role, server_reads(r) \/ server_else(r) PROVE UNCHANGED client_vars
  BY <1>3 DEF server_reads, server_handles, server_else, ServerStep
<1>4. CASE client_sends \/ server_sends \/ server_starts \/ UNCHANGED vars
  BY <1>4 DEF client_sends, server_sends, server_starts, ServerStep, vars
<1> QED
  BY <1>1, <1>2, <1>3, <1>4 DEF Next

LEMMA ServerSteps == ASSUME [Next]_vars PROVE [Server!Next]_server_vars
<1>1. ASSUME NEW r \in Role, server_reads(r) PROVE [Server!Next]_server_vars
  <2>1. PICK p : p = Head(to_server[r])
    OBVIOUS
  <2>2. \/ UNCHANGED server_vars \/ (server_link[r] = "open" /\ Server!drop(r))
        \/ Server!packet_set_protocol(r, r, Known(p.with))
        \/ Server!packet_other(r) \/ Server!packet_login_start(r, "player")
        \/ Server!packet_login_acknowledged(r) \/ Server!packet_finish_configuration(r)
    BY <1>1, <2>1 DEF server_reads, server_handles
  <2>3. Server!packet_set_protocol(r, r, Known(p.with)) =>
          \E known \in BOOLEAN : Server!packet_set_protocol(r, r, known)
    BY KnownOrNot
  <2>4. server_link[r] = "open" /\ Server!drop(r) => Server!connection_lost(r)
    BY DEF Server!connection_lost
  <2> QED
    BY <2>2, <2>3, <2>4 DEF Server!packet_received, Server!Next, Server!NextStates, Role
<1>2. ASSUME NEW r \in Role, server_else(r) PROVE [Server!Next]_server_vars
  BY <1>2 DEF server_else, Server!Next
<1>3. ASSUME NEW r \in Role, client_reads(r) \/ client_else(r) PROVE UNCHANGED server_vars
  BY <1>3 DEF client_reads, client_else, ClientStep
<1>4. CASE client_sends \/ server_sends \/ server_starts \/ UNCHANGED vars
  BY <1>4 DEF client_sends, server_sends, server_starts, vars
<1> QED
  BY <1>1, <1>2, <1>3, <1>4 DEF Next

(* The client of a session is a client as ClientLogin has it, whatever the *)
(* server of the session sends: what is proved of every client is true of  *)
(* it.                                                                     *)
THEOREM ClientConforms == Spec => Client!Spec
<1>1. Init => Client!Init
  BY DEF Init
<1>2. IInv /\ [Next]_vars => [Client!Next]_client_vars
  BY ClientSteps
<1>3. UNCHANGED client_vars => UNCHANGED Client!vars
  BY DEF client_vars, Client!vars, Client!settings, Client!login_vars, Client!profile_vars
<1>4. IInv /\ [Next]_vars => [Client!Next]_Client!vars
  BY <1>2, <1>3
<1> QED
  BY Invariance, <1>1, <1>4, PTL DEF Spec, Client!Spec

(* The server of a session is a server as ServerProtocol has it: composing *)
(* it with a client adds no step that it does not have.                    *)
THEOREM ServerConforms == Spec => Server!Spec
<1>1. Init => Server!Init
  BY DEF Init
<1>2. [Next]_vars => [Server!Next]_Server!vars
  BY ServerSteps DEF server_vars, Server!vars
<1> QED
  BY <1>1, <1>2, PTL DEF Spec, Server!Spec

(* Against this library's client nobody joins before he has said who he    *)
(* is, although the server alone does not see to it.                       *)
THEOREM JoinedNamedHolds == Spec => []Server!JoinedNamed
<1>1. IInv => Server!JoinedNamed
  <2> SUFFICES ASSUME IInv, NEW r \in Role, in_game[r] PROVE display_name[r] # None
    BY DEF Server!JoinedNamed
  <2>1. in_game[r] <=> server_mode[r] \in {"configuration", "play"}
    BY ServerFacts DEF IInv
  <2>2. r = "login"
    BY <2>1 DEF IInv, StatusStreams, Role
  <2>3. /\ server_mode["login"] \in Upto(Said)
        /\ Stages(client_mode["login"], server_mode["login"], login_expecting["login"],
                  display_name["login"], started)
    BY DEF IInv, LoginStreams, ToServer
  <2> QED
    BY <2>1, <2>2, <2>3, Reached DEF Stages
<1> QED
  BY Invariance, <1>1, PTL
=============================================================================
