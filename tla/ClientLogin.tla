---------------------------- MODULE ClientLogin ----------------------------
(***************************************************************************)
(* A client connection from connect() to play: quarryng/net/client.py over *)
(* quarryng/net/protocol.py.  Unless a version is forced it first opens a  *)
(* second connection, a PingClientProtocol, to the same server, and waits  *)
(* for the Deferred that the server's status fires; an online login then   *)
(* waits for the Deferred of Profile.join (ProfileJoin).                   *)
(*                                                                         *)
(* The two connections share their code and are told apart by the          *)
(* factory's protocol_mode_next, "login" or "status".  As in               *)
(* ServerProtocol a handler is one action, and an exception from a packet  *)
(* handler drops the transport.  The server is anybody: it may send any    *)
(* packet of the mode the client is in, and may never answer.              *)
(***************************************************************************)
EXTENDS Integers, Sequences, FiniteSets

CONSTANTS
  Version,      \* the protocol versions a server may announce
  Supported,    \* factory.minecraft_versions
  Latest,       \* LATEST_PROTOCOL_VERSION
  None,         \* Python's None
  IdleLimit,    \* updates of connection_timer from a restart until it fires
  MaxJoins      \* bound: encryption_begin packets the server sends

ASSUME LatestSupported == Latest \in Supported /\ Supported \subseteq Version
ASSUME IdleLimitPositive == IdleLimit \in Nat \ {0}
ASSUME MaxJoinsNat == MaxJoins \in Nat
ASSUME NoneIsNoVersion == None \notin Version

VARIABLES
  link,         \* the transports of both connections
  mode,         \* protocol_mode of both
  idle,         \* updates of connection_timer since its last restart, of both
  forced,       \* factory.force_protocol_version; constant
  online,       \* profile.online; constant
  protocol_version,
  detected,     \* how often detected_protocol_version was fired
  secrets,      \* encryption_begin packets so far: shared_secret is the last
  cipher,       \* the secret the cipher was enabled with, or None
  sent,         \* history: packets of the login written to the transport
  request,      \* of ProfileJoin
  deferred      \* of ProfileJoin

login_vars == <<protocol_version, detected, secrets, cipher, sent>>
profile_vars == <<request, deferred>>
settings == <<forced, online>>
vars == <<link, mode, idle, settings, login_vars, profile_vars>>

Role == {"login", "status"}
Join == 1..MaxJoins
Profile == INSTANCE ProfileJoin

Links == {"none", "connecting", "open", "closing", "lost"}
Modes == {"handshaking", "status", "login", "configuration", "play"}
Packet ==
  [name : {"set_protocol"}, key : {None}, with : Version]
    \cup [name : {"encryption_begin"}, key : Join \cup {None}, with : Join]
    \cup [name : {"login_start", "login_acknowledged", "finish_configuration"},
          key : Join \cup {None}, with : {None}]

TypeOK ==
  /\ link \in [Role -> Links]
  /\ mode \in [Role -> Modes]
  /\ idle \in [Role -> 0..IdleLimit]
  /\ forced \in Version \cup {None}
  /\ online \in BOOLEAN
  /\ protocol_version \in Version
  /\ detected \in Nat
  /\ secrets \in 0..MaxJoins
  /\ cipher \in Join \cup {None}
  /\ sent \in Seq(Packet)
  /\ Profile!TypeOK

-----------------------------------------------------------------------------
(* Sending, closing, losing, timing out                                    *)

(* send_packet and pack_bytes: nothing is written once `closed' is set;    *)
(* what is written goes through the cipher.                                *)
Written_even_closed(ps) == sent \o ps
Written(ps) == IF link["login"] = "open" THEN sent \o ps ELSE sent
PacketOf(name, with) == [name |-> name, key |-> cipher, with |-> with]

(* connection_lost.  in_game only tells it to call player_left, which here *)
(* just logs.                                                              *)
drop(r) ==
  /\ link' = [link EXCEPT ![r] = "lost"]
  /\ UNCHANGED <<mode, idle, settings, login_vars, profile_vars>>

connection_lost(r) ==
  /\ link[r] \in {"open", "closing"}
  /\ drop(r)

(* close() by the application or by packet_disconnect.                     *)
close(r) ==
  /\ link[r] = "open"
  /\ link' = [link EXCEPT ![r] = "closing"]
  /\ UNCHANGED <<mode, idle, settings, login_vars, profile_vars>>

timed_out_in_login(r) == mode[r] # "handshaking" /\ idle[r] + 1 >= IdleLimit
timed_out(r) == idle[r] + 1 >= IdleLimit

tick(r) ==
  /\ link[r] = "open"
  /\ idle' = [idle EXCEPT ![r] = IF @ < IdleLimit THEN @ + 1 ELSE @]
  /\ link' = [link EXCEPT ![r] = IF timed_out(r) THEN "closing" ELSE @]
  /\ UNCHANGED <<mode, settings, login_vars, profile_vars>>

-----------------------------------------------------------------------------
(* Connecting and finding the version                                      *)

(* switch_protocol_mode("login"), announcing version v.                    *)
switch_to_login(v) ==
  /\ protocol_version' = v
  /\ mode' = [mode EXCEPT !["login"] = "login"]
  /\ sent' = Written(<<PacketOf("set_protocol", v), PacketOf("login_start", None)>>)

(* connection_made: a login without a forced version opens the ping.       *)
connection_made(r) ==
  /\ link[r] = "connecting"
  /\ \/ /\ r = "status"
        /\ link' = [link EXCEPT ![r] = "open"]
        /\ mode' = [mode EXCEPT ![r] = "status"]
        /\ UNCHANGED <<protocol_version, sent>>
     \/ /\ r = "login" /\ forced # None
        /\ link' = [link EXCEPT ![r] = "open"]
        /\ protocol_version' = forced
        /\ mode' = [mode EXCEPT ![r] = "login"]
        /\ sent' = <<PacketOf("set_protocol", forced), PacketOf("login_start", None)>>
     \/ /\ r = "login" /\ forced = None
        /\ link' = [link EXCEPT ![r] = "open", !["status"] = "connecting"]
        /\ UNCHANGED <<mode, protocol_version, sent>>
  /\ UNCHANGED <<idle, settings, detected, secrets, cipher, profile_vars>>

Receiving_any_mode(r, m) == link[r] = "open"
Receiving(r, m) == link[r] = "open" /\ mode[r] = m
restart_timer(r) == idle' = [idle EXCEPT ![r] = 0]

(* PingClientProtocol.status_server_info closes the ping and then fires    *)
(* the Deferred; the login continues in the same step, whatever became of  *)
(* its transport while it waited.  An unsupported version fails the        *)
(* Deferred, and with it connection_made, of which nobody hears.           *)
detectable(v) == v \in Supported

ping_closes_never == UNCHANGED link
ping_closes == link' = [link EXCEPT !["status"] = "closing"]

packet_server_info(v) ==
  /\ Receiving("status", "status")
  /\ ping_closes
  /\ restart_timer("status")
  /\ detected' = detected + 1
  /\ IF detectable(v) /\ detected = 0
     THEN switch_to_login(v)
     ELSE UNCHANGED <<protocol_version, mode, sent>>
  /\ UNCHANGED <<settings, secrets, cipher, profile_vars>>

(* The status is no JSON, or has no version in it.                         *)
packet_server_info_unreadable ==
  /\ Receiving("status", "status")
  /\ drop("status")

-----------------------------------------------------------------------------
(* Logging in                                                              *)

packet_encryption_begin ==
  /\ Receiving("login", "login")
  /\ IF ~online
     THEN drop("login")
     ELSE /\ secrets < MaxJoins
          /\ secrets' = secrets + 1
          /\ Profile!join(secrets + 1)
          /\ restart_timer("login")
          /\ UNCHANGED <<link, mode, settings, protocol_version, detected, cipher, sent>>

(* Called when the Deferred of a join fires.  The response carries what is *)
(* shared_secret by then.  In a mode that has no encryption_begin packet   *)
(* send_packet raises PackingError and the cipher stays as it is; on a     *)
(* closed connection it does nothing and the cipher is enabled for nobody. *)
auth_ok_enabling_anyway ==
  /\ sent' = IF mode["login"] = "login"
             THEN Written(<<PacketOf("encryption_begin", secrets)>>) ELSE sent
  /\ cipher' = secrets
  /\ UNCHANGED link
auth_ok ==
  /\ IF link["login"] = "open" /\ mode["login"] # "login"
     THEN UNCHANGED <<sent, cipher>>
     ELSE /\ sent' = Written(<<PacketOf("encryption_begin", secrets)>>)
          /\ cipher' = secrets
  /\ UNCHANGED link

(* Called when the Deferred of a join fails.  logger.warning is no method  *)
(* of twisted's Logger: the AttributeError leaves auth_failed before its   *)
(* close(), nobody hears of it, and the connection stays as it is.         *)
auth_failed_answering ==
  /\ sent' = Written(<<PacketOf("encryption_begin", secrets)>>)
  /\ cipher' = secrets
  /\ UNCHANGED link
auth_failed == UNCHANGED <<link, sent, cipher>>

(* A request of a join ends, and perhaps the join with it.                 *)
answer(j, r, outcome) ==
  /\ Profile!answer(j, r, outcome)
  /\ IF deferred'[j] = deferred[j] THEN UNCHANGED <<link, sent, cipher>>
     ELSE IF deferred'[j] = "ok" THEN auth_ok
     ELSE auth_failed
  /\ UNCHANGED <<mode, idle, settings, protocol_version, detected, secrets>>

packet_success_not_switching ==
  /\ Receiving("login", "login")
  /\ sent' = Written(<<PacketOf("login_acknowledged", None)>>)
  /\ UNCHANGED <<link, mode, idle, settings, protocol_version, detected, secrets, cipher,
                 profile_vars>>
packet_success ==
  /\ Receiving("login", "login")
  /\ sent' = Written(<<PacketOf("login_acknowledged", None)>>)
  /\ mode' = [mode EXCEPT !["login"] = "configuration"]
  /\ restart_timer("login")
  /\ UNCHANGED <<link, settings, protocol_version, detected, secrets, cipher, profile_vars>>

packet_finish_configuration ==
  /\ Receiving("login", "configuration")
  /\ sent' = Written(<<PacketOf("finish_configuration", None)>>)
  /\ mode' = [mode EXCEPT !["login"] = "play"]
  /\ restart_timer("login")
  /\ UNCHANGED <<link, settings, protocol_version, detected, secrets, cipher, profile_vars>>

(* packet_disconnect; "play" has no packet of that name.                   *)
packet_disconnect ==
  /\ mode["login"] \in {"login", "configuration"}
  /\ link["login"] = "open"
  /\ link' = [link EXCEPT !["login"] = "closing"]
  /\ restart_timer("login")
  /\ UNCHANGED <<mode, settings, login_vars, profile_vars>>

(* Packets that are discarded, answered in kind (packet_select_known_packs)*)
(* or only concern the framing (packet_compress).  While handshaking no    *)
(* frame is a packet of the mode, so none restarts the timer.              *)
packet_other(r) ==
  /\ link[r] = "open"
  /\ mode[r] # "handshaking"
  /\ restart_timer(r)
  /\ UNCHANGED <<link, mode, settings, login_vars, profile_vars>>

-----------------------------------------------------------------------------
Init ==
  /\ link = [r \in Role |-> IF r = "login" THEN "connecting" ELSE "none"]
  /\ mode = [r \in Role |-> "handshaking"]
  /\ idle = [r \in Role |-> 0]
  /\ forced \in Version \cup {None}
  /\ online \in BOOLEAN
  /\ protocol_version = Latest
  /\ detected = 0
  /\ secrets = 0
  /\ cipher = None
  /\ sent = <<>>
  /\ Profile!Init

Next ==
  \/ \E r \in Role :
       connection_made(r) \/ connection_lost(r) \/ close(r) \/ tick(r) \/ packet_other(r)
  \/ \E v \in Version : packet_server_info(v)
  \/ packet_server_info_unreadable
  \/ packet_encryption_begin
  \/ packet_success
  \/ packet_finish_configuration
  \/ packet_disconnect
  \/ \E j \in Join, r \in Profile!Requests, outcome \in Profile!Outcomes :
       answer(j, r, outcome)

Spec == Init /\ [][Next]_vars

(* The reactor runs the ticker of an open connection.  Nothing is assumed  *)
(* of the server or of Mojang's, not even that they answer.                *)
FairSpec == Spec /\ \A r \in Role : WF_vars(tick(r))

-----------------------------------------------------------------------------
(* Properties                                                              *)

(* What the client writes stays readable for the server: every packet is   *)
(* encrypted with the secret of the latest encryption_begin response       *)
(* before it, the response itself still as before.  This must survive a    *)
(* late answer of the session server, after `success' or after the end.    *)
KeyAfter(i) ==
  IF i = 0 THEN None
  ELSE IF sent[i].name = "encryption_begin" THEN sent[i].with ELSE sent[i].key

CipherInStep == \A i \in DOMAIN sent : sent[i].key = KeyAfter(i - 1)

(* The packets of the login go out in the order of the login, each once    *)
(* but for encryption responses, which come between start and end of the   *)
(* login mode, whatever the server, the ping and Mojang do when.           *)
Follows(name) ==
  CASE name = "set_protocol" -> {"login_start"}
    [] name \in {"login_start", "encryption_begin"} -> {"encryption_begin", "login_acknowledged"}
    [] name = "login_acknowledged" -> {"finish_configuration"}
    [] OTHER -> {}

LoginOrder ==
  \A i \in DOMAIN sent :
    sent[i].name \in IF i = 1 THEN {"set_protocol"} ELSE Follows(sent[i - 1].name)

(* Nothing is written on a connection that was closed: not by a version    *)
(* that is detected late, not by a session server that answers late.       *)
SilentOnceClosed == [][link["login"] # "open" /\ link["login"] # "connecting" => sent' = sent]_vars

(* No encryption_begin is answered for a join that failed, nor a join      *)
(* answered twice: there are no more responses than joins reported as      *)
(* successful.  A failed join leaves the connection open, and its refresh  *)
(* and retry may still end well or badly while later joins go on.          *)
Responses == {i \in DOMAIN sent : sent[i].name = "encryption_begin"}
Successes == {j \in Join : deferred[j] = "ok"}

ResponsesEarned == Cardinality(Responses) <= Cardinality(Successes)

(* The Deferred of the ping is fired at most once: a second status from    *)
(* the server finds the ping closed, not an AlreadyCalledError.            *)
DetectedOnce == detected <= 1

(* The chain of Deferreds under Profile.join; see ProfileJoin.             *)
JoinSettled == Profile!Settled
JoinFailureIsReal == Profile!FailureIsReal

(* A client that waits for a version that is never detected gives up       *)
(* (ping refused, silent, lost or unreadable, version unsupported).        *)
GivesUp ==
  (link["login"] = "open" /\ mode["login"] = "handshaking")
    ~> (link["login"] # "open" \/ mode["login"] # "handshaking")

(* auth_ok is "called if the Mojang session server responds to our query", *)
(* says its docstring.  A refresh that succeeds before the second join is  *)
(* answered calls it too.                                                  *)
AuthOkAnswered ==
  \A j \in Join : deferred[j] = "ok" => "ok" \in {request[j]["join"], request[j]["retry"]}
=============================================================================
