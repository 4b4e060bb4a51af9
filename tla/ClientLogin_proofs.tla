------------------------- MODULE ClientLogin_proofs -------------------------
(***************************************************************************)
(* Proofs about ClientLogin, with the ProfileJoin under it, for any        *)
(* versions, any timeout and any number of encryption_begin packets.  None *)
(* of its invariants is inductive by itself: what may still be written     *)
(* depends on the mode, the cipher and the last packet while the transport *)
(* is open, and only then; an answer of the session server that comes      *)
(* later leaves these out of step, which is why nothing may be written.    *)
(***************************************************************************)
EXTENDS ClientLogin, SequenceTheorems, FiniteSetTheorems, TLAPS

(* The ping is opened by a login that waits for a version, and fires the   *)
(* Deferred when it closes.                                                *)
PingState ==
  /\ link["login"] # "none"
  /\ link["login"] = "connecting" \/ forced # None => link["status"] = "none"
  /\ link["status"] \in {"none", "connecting", "open"} => detected = 0
  /\ mode["status"] \in {"handshaking", "status"}

(* The login starts when the version is known, and not before.             *)
NotStarted ==
  /\ link["login"] = "connecting" => mode["login"] = "handshaking"
  /\ forced = None /\ detected = 0 => mode["login"] = "handshaking"
  /\ mode["login"] = "handshaking" => sent = <<>> /\ cipher = None /\ secrets = 0

(* While the transport is open, the mode says what was written last, and   *)
(* the cipher is the one that was announced last.                          *)
Written_in(m) ==
  CASE m = "handshaking" -> sent = <<>>
    [] m = "login" -> sent # <<>> /\ sent[Len(sent)].name \in {"login_start", "encryption_begin"}
    [] m = "configuration" -> sent # <<>> /\ sent[Len(sent)].name = "login_acknowledged"
    [] m = "play" -> sent # <<>>
    [] OTHER -> FALSE
OpenInStep ==
  link["login"] = "open" => Written_in(mode["login"]) /\ cipher = KeyAfter(Len(sent))

(* Calls of Profile.join: none before its packet, and a refresh and retry  *)
(* only after the first request failed.                                    *)
JoinState ==
  \A j \in Join :
    /\ j > secrets => /\ \A r \in Profile!Requests : request[j][r] = "unsent"
                      /\ deferred[j] = "none"
    /\ request[j]["join"] # "failed" =>
         request[j]["refresh"] = "unsent" /\ request[j]["retry"] = "unsent"

(* What JoinSettled and JoinFailureIsReal say of one call.                 *)
Waits(j) ==
  \/ Profile!Awaited(j, "join")
  \/ request[j]["join"] = "failed" /\ Profile!Awaited(j, "refresh") /\ Profile!Awaited(j, "retry")
Failed(j) ==
  request[j]["join"] = "failed" /\ "failed" \in {request[j]["refresh"], request[j]["retry"]}

History == CipherInStep /\ LoginOrder
Joins == JoinSettled /\ JoinFailureIsReal /\ JoinState

IInv ==
  /\ TypeOK
  /\ History
  /\ DetectedOnce
  /\ Joins
  /\ PingState
  /\ NotStarted
  /\ OpenInStep

-----------------------------------------------------------------------------
LEMMA IInvInit == Init => IInv
<1> SUFFICES ASSUME Init PROVE IInv
  OBVIOUS
<1> USE DEF Init
<1>1. TypeOK
  BY LatestSupported, IdleLimitPositive, MaxJoinsNat
     DEF TypeOK, Role, Links, Modes, Profile!Init, Profile!TypeOK, Profile!RequestStates
<1>2. History
  BY DEF History, CipherInStep, LoginOrder
<1>3. DetectedOnce
  BY DEF DetectedOnce
<1>4. Joins
  BY DEF Joins, JoinSettled, JoinFailureIsReal, JoinState, Profile!Init,
         Profile!Settled, Profile!FailureIsReal, Profile!Requests
<1>5. PingState /\ NotStarted /\ OpenInStep
  BY DEF PingState, NotStarted, OpenInStep, Role
<1> QED
  BY <1>1, <1>2, <1>3, <1>4, <1>5 DEF IInv

-----------------------------------------------------------------------------
(* What is written.                                                        *)

LEMMA HistoryKept ==
  ASSUME History, UNCHANGED sent PROVE History'
  BY DEF History, CipherInStep, KeyAfter, LoginOrder

(* One more packet keeps the history if it goes with the packet before it. *)
LEMMA OneMore ==
  ASSUME TypeOK, History, sent # <<>>,
         NEW p \in Packet, sent' = sent \o <<p>>,
         p.key = KeyAfter(Len(sent)),
         p.name \in Follows(sent[Len(sent)].name)
  PROVE  History' /\ sent' \in Seq(Packet) /\ Len(sent') = Len(sent) + 1
         /\ sent'[Len(sent')] = p
<1>1. /\ sent \in Seq(Packet) /\ sent' \in Seq(Packet)
      /\ Len(sent') = Len(sent) + 1 /\ Len(sent) \in Nat /\ Len(sent) > 0
      /\ \A i \in 1..Len(sent) : sent'[i] = sent[i]
      /\ sent'[Len(sent) + 1] = p
  BY DEF TypeOK
<1>2. ASSUME NEW i \in 0..Len(sent) PROVE KeyAfter(i)' = KeyAfter(i)
  <2>1. CASE i = 0
    BY <2>1 DEF KeyAfter
  <2>2. CASE i # 0
    <3>1. i \in 1..Len(sent)
      BY <2>2
    <3> QED
      BY <1>1, <2>2, <3>1 DEF KeyAfter
  <2> QED
    BY <2>1, <2>2
<1>3. ASSUME NEW i \in 1..Len(sent) PROVE sent'[i].key = KeyAfter(i - 1)'
  <2>1. sent'[i].key = KeyAfter(i - 1)
    BY <1>1 DEF History, CipherInStep
  <2>2. i - 1 \in 0..Len(sent)
    BY <1>1
  <2> QED
    BY <2>1, <2>2, <1>2
<1>4. CipherInStep'
  <2> SUFFICES ASSUME NEW i \in DOMAIN sent' PROVE sent'[i].key = KeyAfter(i - 1)'
    BY DEF CipherInStep
  <2>1. CASE i \in 1..Len(sent)
    BY <2>1, <1>3
  <2>2. CASE i = Len(sent) + 1
    <3>1. i - 1 = Len(sent)
      BY <1>1, <2>2
    <3>2. KeyAfter(i - 1)' = KeyAfter(i - 1)
      BY <3>1, <1>1, <1>2
    <3> QED
      BY <1>1, <2>2, <3>1, <3>2
  <2> QED
    BY <1>1, <2>1, <2>2
<1>5. LoginOrder'
  <2> SUFFICES ASSUME NEW i \in DOMAIN sent'
               PROVE sent'[i].name \in IF i = 1 THEN {"set_protocol"} ELSE Follows(sent'[i - 1].name)
    BY DEF LoginOrder
  <2>1. CASE i \in 1..Len(sent)
    <3>1. sent[i].name \in IF i = 1 THEN {"set_protocol"} ELSE Follows(sent[i - 1].name)
      <4>1. i \in DOMAIN sent
        BY <1>1, <2>1
      <4> QED
        BY <4>1 DEF History, LoginOrder
    <3>2. i # 1 => i - 1 \in 1..Len(sent)
      BY <1>1, <2>1
    <3> QED
      BY <1>1, <2>1, <3>1, <3>2
  <2>2. CASE i = Len(sent) + 1
    <3>1. i # 1 /\ i - 1 = Len(sent)
      BY <1>1, <2>2
    <3> QED
      BY <1>1, <2>2, <3>1
  <2> QED
    BY <1>1, <2>1, <2>2
<1> QED
  BY <1>1, <1>4, <1>5 DEF History

(* The login begins with two packets, neither of them encrypted.           *)
LEMMA LoginBegins ==
  ASSUME sent = <<>>, cipher = None, NEW v \in Version,
         sent' = sent \o <<PacketOf("set_protocol", v), PacketOf("login_start", None)>>
  PROVE  /\ History' /\ sent' \in Seq(Packet) /\ sent' # <<>>
         /\ sent'[Len(sent')].name = "login_start"
         /\ KeyAfter(Len(sent))' = None
<1>1. PacketOf("set_protocol", v) \in Packet /\ PacketOf("login_start", None) \in Packet
  BY DEF PacketOf, Packet
<1>2. /\ sent' = <<PacketOf("set_protocol", v), PacketOf("login_start", None)>>
      /\ Len(sent') = 2 /\ sent' \in Seq(Packet)
      /\ sent'[1] = PacketOf("set_protocol", v) /\ sent'[2] = PacketOf("login_start", None)
  BY <1>1
<1>3. CipherInStep' /\ LoginOrder'
  BY <1>2 DEF PacketOf, CipherInStep, KeyAfter, LoginOrder, Follows
<1>4. KeyAfter(Len(sent))' = None
  BY <1>2 DEF KeyAfter, PacketOf
<1>5. sent' # <<>> /\ sent'[Len(sent')].name = "login_start"
  BY <1>2 DEF PacketOf
<1> QED
  BY <1>2, <1>3, <1>4, <1>5 DEF History

-----------------------------------------------------------------------------
(* Steps that write nothing                                                *)

LEMMA JoinsKept ==
  ASSUME Joins, UNCHANGED <<secrets, profile_vars>> PROVE Joins'
  BY DEF Joins, JoinSettled, JoinFailureIsReal, JoinState, profile_vars,
         Profile!Settled, Profile!Awaited, Profile!FailureIsReal

LEMMA ProfileTypeKept ==
  ASSUME TypeOK, UNCHANGED profile_vars PROVE Profile!TypeOK'
  BY DEF TypeOK, profile_vars, Profile!TypeOK

(* A step of a transport: losing, closing, a timer.                        *)
LEMMA LinkStep ==
  ASSUME IInv, NEW r \in Role, NEW l \in {"closing", "lost"},
         link[r] # "none", link[r] # "connecting",
         link' = [link EXCEPT ![r] = l] \/ UNCHANGED link,
         idle' \in [Role -> 0..IdleLimit],
         UNCHANGED <<mode, settings, login_vars, profile_vars>>
  PROVE  IInv'
<1> USE DEF IInv, settings, login_vars
<1>1. TypeOK'
  BY ProfileTypeKept DEF TypeOK, Links
<1>2. History' /\ Joins'
  BY HistoryKept, JoinsKept
<1>3. DetectedOnce'
  BY DEF DetectedOnce
<1>4. PingState'
  BY DEF PingState, TypeOK, Role
<1>5. NotStarted'
  BY DEF NotStarted, TypeOK, Role
<1>6. OpenInStep'
  BY DEF OpenInStep, TypeOK, Role, Written_in, KeyAfter
<1> QED
  BY <1>1, <1>2, <1>3, <1>4, <1>5, <1>6

LEMMA ConnectionLostStep ==
  ASSUME IInv, NEW r \in Role, connection_lost(r) PROVE IInv'
  BY LinkStep DEF connection_lost, drop, IInv, TypeOK

LEMMA CloseStep == ASSUME IInv, NEW r \in Role, close(r) PROVE IInv'
  BY LinkStep DEF close, IInv, TypeOK

LEMMA TickStep == ASSUME IInv, NEW r \in Role, tick(r) PROVE IInv'
<1>1. idle' \in [Role -> 0..IdleLimit]
  BY IdleLimitPositive DEF tick, IInv, TypeOK
<1>2. link' = [link EXCEPT ![r] = "closing"] \/ UNCHANGED link
  BY DEF tick, IInv, TypeOK
<1> QED
  BY <1>1, <1>2, LinkStep DEF tick

LEMMA UnreadableStep == ASSUME IInv, packet_server_info_unreadable PROVE IInv'
  BY LinkStep DEF packet_server_info_unreadable, Receiving, drop, Role, IInv, TypeOK

LEMMA RestartType ==
  ASSUME TypeOK, NEW r \in Role, restart_timer(r) PROVE idle' \in [Role -> 0..IdleLimit]
  BY IdleLimitPositive DEF TypeOK, restart_timer

LEMMA DisconnectStep == ASSUME IInv, packet_disconnect PROVE IInv'
  BY LinkStep, RestartType DEF packet_disconnect, Role, IInv

LEMMA OtherStep == ASSUME IInv, NEW r \in Role, packet_other(r) PROVE IInv'
  BY LinkStep, RestartType DEF packet_other, IInv

-----------------------------------------------------------------------------
(* Connecting                                                              *)

LEMMA ConnectionMadeStep ==
  ASSUME IInv, NEW r \in Role, connection_made(r) PROVE IInv'
<1> USE DEF IInv, settings
<1>1. UNCHANGED <<idle, settings, detected, secrets, cipher, profile_vars>> /\ link[r] = "connecting"
  BY DEF connection_made
<1>2. Joins' /\ DetectedOnce' /\ Profile!TypeOK'
  BY <1>1, JoinsKept, ProfileTypeKept DEF DetectedOnce
<1>3. CASE r = "status"
  <2>1. /\ link' = [link EXCEPT !["status"] = "open"]
        /\ mode' = [mode EXCEPT !["status"] = "status"]
        /\ UNCHANGED <<protocol_version, sent>>
    BY <1>3 DEF connection_made
  <2>2. TypeOK'
    BY <1>1, <1>2, <2>1 DEF TypeOK, Links, Modes, Role
  <2>3. History'
    BY <1>1, <2>1, HistoryKept
  <2>4. PingState' /\ NotStarted'
    BY <1>1, <1>3, <2>1 DEF PingState, NotStarted, TypeOK, Role
  <2>5. OpenInStep'
    BY <1>1, <2>1 DEF OpenInStep, Written_in, KeyAfter, TypeOK, Role
  <2> QED
    BY <1>2, <2>2, <2>3, <2>4, <2>5
<1>4. CASE r = "login"
  <2>1. sent = <<>> /\ cipher = None /\ secrets = 0 /\ mode["login"] = "handshaking"
    BY <1>1, <1>4 DEF NotStarted
  <2>2. CASE forced # None
    <3>1. /\ link' = [link EXCEPT !["login"] = "open"]
          /\ protocol_version' = forced
          /\ mode' = [mode EXCEPT !["login"] = "login"]
          /\ sent' = sent \o <<PacketOf("set_protocol", forced), PacketOf("login_start", None)>>
      BY <1>4, <2>1, <2>2 DEF connection_made, PacketOf
    <3>2. History' /\ sent' \in Seq(Packet) /\ sent' # <<>>
          /\ sent'[Len(sent')].name = "login_start" /\ KeyAfter(Len(sent))' = None
      BY <1>1, <2>1, <2>2, <3>1, LoginBegins DEF TypeOK
    <3>3. TypeOK'
      BY <1>1, <1>2, <2>2, <3>1, <3>2 DEF TypeOK, Links, Modes, Role
    <3>4. PingState' /\ NotStarted'
      BY <1>1, <2>2, <3>1 DEF PingState, NotStarted, TypeOK, Role
    <3>5. OpenInStep'
      BY <1>1, <2>1, <3>1, <3>2 DEF OpenInStep, Written_in, TypeOK, Role
    <3> QED
      BY <1>2, <3>2, <3>3, <3>4, <3>5
  <2>3. CASE forced = None
    <3>1. /\ link' = [link EXCEPT !["login"] = "open", !["status"] = "connecting"]
          /\ UNCHANGED <<mode, protocol_version, sent>>
      BY <1>4, <2>3 DEF connection_made
    <3>2. TypeOK'
      BY <1>1, <1>2, <3>1 DEF TypeOK, Links, Role
    <3>3. History'
      BY <1>1, <3>1, HistoryKept
    <3>4. PingState' /\ NotStarted'
      BY <1>1, <1>4, <2>1, <2>3, <3>1 DEF PingState, NotStarted, TypeOK, Role
    <3>5. OpenInStep'
      BY <1>1, <2>1, <3>1 DEF OpenInStep, Written_in, KeyAfter, TypeOK, Role
    <3> QED
      BY <1>2, <3>2, <3>3, <3>4, <3>5
  <2> QED
    BY <2>2, <2>3
<1> QED
  BY <1>3, <1>4 DEF Role

(* The version is detected: the login begins, on whatever is left of its   *)
(* transport.                                                              *)
LEMMA ServerInfoStep ==
  ASSUME IInv, NEW v \in Version, packet_server_info(v) PROVE IInv'
<1> USE DEF IInv, settings
<1>1. /\ link["status"] = "open" /\ mode["status"] = "status"
      /\ link' = [link EXCEPT !["status"] = "closing"]
      /\ detected' = detected + 1
      /\ restart_timer("status")
      /\ UNCHANGED <<settings, secrets, cipher, profile_vars>>
  BY DEF packet_server_info, Receiving, ping_closes
<1>2. detected = 0 /\ forced = None /\ link["login"] # "connecting"
      /\ mode["login"] = "handshaking" /\ sent = <<>> /\ cipher = None /\ secrets = 0
  BY <1>1 DEF PingState, NotStarted
<1>3. Joins' /\ DetectedOnce' /\ Profile!TypeOK' /\ idle' \in [Role -> 0..IdleLimit]
  BY <1>1, <1>2, JoinsKept, ProfileTypeKept, RestartType DEF DetectedOnce, Role
<1>4. CASE detectable(v)
  <2>1. /\ protocol_version' = v
        /\ mode' = [mode EXCEPT !["login"] = "login"]
        /\ sent' = Written(<<PacketOf("set_protocol", v), PacketOf("login_start", None)>>)
    BY <1>2, <1>4 DEF packet_server_info, switch_to_login
  <2>2. /\ History' /\ sent' \in Seq(Packet)
        /\ link["login"] = "open" => /\ sent' # <<>> /\ sent'[Len(sent')].name = "login_start"
                                     /\ KeyAfter(Len(sent))' = None
    BY <1>1, <1>2, <2>1, LoginBegins, HistoryKept DEF Written, TypeOK
  <2>3. TypeOK'
    BY <1>1, <1>2, <1>3, <2>1, <2>2 DEF TypeOK, Links, Modes, Role
  <2>4. PingState' /\ NotStarted'
    BY <1>1, <1>2, <2>1 DEF PingState, NotStarted, TypeOK, Role
  <2>5. OpenInStep'
    BY <1>1, <1>2, <2>1, <2>2 DEF OpenInStep, Written_in, TypeOK, Role
  <2> QED
    BY <1>3, <2>2, <2>3, <2>4, <2>5
<1>5. CASE ~detectable(v)
  <2>1. UNCHANGED <<protocol_version, mode, sent>>
    BY <1>5 DEF packet_server_info
  <2>2. TypeOK'
    BY <1>1, <1>2, <1>3, <2>1 DEF TypeOK, Links, Role
  <2>3. History'
    BY <1>1, <2>1, HistoryKept
  <2>4. PingState' /\ NotStarted'
    BY <1>1, <1>2, <2>1 DEF PingState, NotStarted, TypeOK, Role
  <2>5. OpenInStep'
    BY <1>1, <1>2, <2>1 DEF OpenInStep, Written_in, KeyAfter, TypeOK, Role
  <2> QED
    BY <1>3, <2>2, <2>3, <2>4, <2>5
<1> QED
  BY <1>4, <1>5

-----------------------------------------------------------------------------
(* Logging in                                                              *)

(* One packet goes out in the clear or under the cipher of the moment, and *)
(* the mode moves on.                                                      *)
LEMMA NextModeStep ==
  ASSUME IInv, link["login"] = "open", NEW m \in {"configuration", "play"},
         mode["login"] = IF m = "play" THEN "configuration" ELSE "login",
         NEW name, name = IF m = "play" THEN "finish_configuration" ELSE "login_acknowledged",
         sent' = Written(<<PacketOf(name, None)>>),
         mode' = [mode EXCEPT !["login"] = m],
         restart_timer("login"),
         UNCHANGED <<link, settings, protocol_version, detected, secrets, cipher, profile_vars>>
  PROVE  IInv'
<1> USE DEF IInv, settings
<1> DEFINE p == PacketOf(name, None)
<1>1. /\ sent # <<>> /\ cipher = KeyAfter(Len(sent))
      /\ m = "play" => sent[Len(sent)].name = "login_acknowledged"
      /\ m # "play" => sent[Len(sent)].name \in {"login_start", "encryption_begin"}
  BY DEF OpenInStep, Written_in
<1>2. p \in Packet /\ p.key = KeyAfter(Len(sent)) /\ p.name = name
  BY <1>1 DEF PacketOf, Packet, TypeOK
<1>3. name \in Follows(sent[Len(sent)].name)
  BY <1>1 DEF Follows
<1>4. sent' = sent \o <<p>>
  BY DEF Written
<1> HIDE DEF p
<1>5. History' /\ sent' \in Seq(Packet) /\ Len(sent') = Len(sent) + 1 /\ sent'[Len(sent')] = p
  BY <1>1, <1>2, <1>3, <1>4, OneMore
<1>6. Joins' /\ DetectedOnce' /\ Profile!TypeOK' /\ idle' \in [Role -> 0..IdleLimit]
  BY JoinsKept, ProfileTypeKept, RestartType DEF DetectedOnce, Role
<1>7. TypeOK'
  BY <1>5, <1>6 DEF TypeOK, Modes, Role
<1>8. PingState' /\ NotStarted'
  BY DEF PingState, NotStarted, TypeOK, Role
<1>9. KeyAfter(Len(sent))' = cipher
  <2>1. Len(sent') # 0 /\ Len(sent) \in Nat
    BY <1>5 DEF TypeOK
  <2>2. name # "encryption_begin" /\ p.key = cipher
    BY <1>1, <1>2
  <2> QED
    BY <1>2, <1>5, <2>1, <2>2 DEF KeyAfter
<1>10. OpenInStep'
  <2>1. sent' # <<>> /\ (m # "play" => sent'[Len(sent')].name = "login_acknowledged")
    BY <1>2, <1>5 DEF TypeOK
  <2> QED
    BY <1>9, <2>1 DEF OpenInStep, Written_in, TypeOK, Role
<1> QED
  BY <1>5, <1>6, <1>7, <1>8, <1>10

LEMMA SuccessStep == ASSUME IInv, packet_success PROVE IInv'
  BY NextModeStep DEF packet_success, Receiving

LEMMA FinishStep == ASSUME IInv, packet_finish_configuration PROVE IInv'
  BY NextModeStep DEF packet_finish_configuration, Receiving

(* A digest is sent to Mojang's session server.                            *)
LEMMA EncryptionStep == ASSUME IInv, packet_encryption_begin PROVE IInv'
<1> USE DEF IInv
<1>1. CASE ~online
  BY <1>1, LinkStep DEF packet_encryption_begin, Receiving, drop, Role, TypeOK
<1>2. CASE online
  <2> DEFINE j == secrets + 1
  <2>1. /\ mode["login"] = "login" /\ secrets < MaxJoins /\ secrets' = j
        /\ request' = [request EXCEPT ![j]["join"] = "sent"]
        /\ deferred' = [deferred EXCEPT ![j] = "waiting"]
        /\ restart_timer("login")
        /\ UNCHANGED <<link, mode, settings, protocol_version, detected, cipher, sent>>
    BY <1>2 DEF packet_encryption_begin, Receiving, Profile!join
  <2>2. j \in Join /\ secrets \in Nat /\ j > secrets
    BY <2>1, MaxJoinsNat DEF TypeOK, Join
  <2>3. /\ request \in [Join -> [Profile!Requests -> Profile!RequestStates]]
        /\ deferred \in [Join -> {"none", "waiting", "ok", "failed"}]
    BY DEF TypeOK, Profile!TypeOK
  <2>4. \A k \in Join : k # j => request'[k] = request[k] /\ deferred'[k] = deferred[k]
    BY <2>1, <2>2, <2>3
  <2>5. /\ request[j]["refresh"] = "unsent" /\ request[j]["retry"] = "unsent"
        /\ request'[j] = [request[j] EXCEPT !["join"] = "sent"]
        /\ deferred'[j] = "waiting"
    BY <2>1, <2>2, <2>3 DEF Joins, JoinState, Profile!Requests
  <2>6. /\ request'[j]["join"] = "sent"
        /\ request'[j]["refresh"] = "unsent" /\ request'[j]["retry"] = "unsent"
    BY <2>2, <2>3, <2>5 DEF Profile!Requests
  <2>7. Profile!TypeOK'
    BY <2>1, <2>2, <2>3 DEF Profile!TypeOK, Profile!Requests, Profile!RequestStates
  <2>8. Joins'
    <3>1. JoinSettled' /\ JoinFailureIsReal'
      <4> SUFFICES ASSUME NEW k \in Join
                   PROVE  /\ deferred'[k] # "failed" \/ Failed(k)'
                          /\ deferred'[k] # "waiting" \/ Waits(k)'
        BY DEF JoinSettled, JoinFailureIsReal, Profile!Settled, Profile!FailureIsReal, Failed, Waits
      <4>1. CASE k = j
        BY <4>1, <2>5, <2>6 DEF Waits, Profile!Awaited
      <4>2. CASE k # j
        BY <4>2, <2>4 DEF Joins, JoinSettled, JoinFailureIsReal,
           Profile!Settled, Profile!Awaited, Profile!FailureIsReal, Waits, Failed
      <4> QED
        BY <4>1, <4>2
    <3>2. JoinState'
      <4> SUFFICES ASSUME NEW k \in Join
                   PROVE  /\ k > secrets' => /\ \A r \in Profile!Requests : request'[k][r] = "unsent"
                                             /\ deferred'[k] = "none"
                          /\ request'[k]["join"] # "failed" =>
                               request'[k]["refresh"] = "unsent" /\ request'[k]["retry"] = "unsent"
        BY DEF JoinState
      <4>1. k \in Int
        BY DEF Join
      <4>2. CASE k = j
        BY <4>1, <4>2, <2>1, <2>2, <2>6
      <4>3. CASE k # j
        BY <4>1, <4>3, <2>1, <2>2, <2>4 DEF Joins, JoinState
      <4> QED
        BY <4>2, <4>3
    <3> QED
      BY <3>1, <3>2 DEF Joins
  <2>9. TypeOK'
    <3>1. idle' \in [Role -> 0..IdleLimit]
      BY <2>1, RestartType DEF Role
    <3> QED
      BY <2>1, <2>2, <2>7, <3>1 DEF TypeOK, settings, Join
  <2>10. History'
    BY <2>1, HistoryKept DEF settings
  <2>11. DetectedOnce' /\ PingState' /\ NotStarted' /\ OpenInStep'
    BY <2>1 DEF settings, DetectedOnce, PingState, NotStarted, OpenInStep, Written_in, KeyAfter
  <2> QED
    BY <2>8, <2>9, <2>10, <2>11
<1> QED
  BY <1>1, <1>2 DEF TypeOK

(* A request ends: the chain of Deferreds under Profile.join stays sound.  *)
LEMMA ChainKept ==
  ASSUME IInv, NEW j \in Join, NEW r \in Profile!Requests, NEW outcome \in Profile!Outcomes,
         Profile!answer(j, r, outcome), UNCHANGED secrets
  PROVE  Joins' /\ Profile!TypeOK' /\ j <= secrets
<1> USE DEF IInv
<1>1. /\ request \in [Join -> [Profile!Requests -> Profile!RequestStates]]
      /\ deferred \in [Join -> {"none", "waiting", "ok", "failed"}]
      /\ request[j][r] = "sent" /\ secrets \in Nat /\ j \in Nat
  BY DEF TypeOK, Profile!TypeOK, Profile!answer, Join
<1>2. j <= secrets /\ (r # "join" => request[j]["join"] = "failed")
  <2>1. j <= secrets
    BY <1>1 DEF Joins, JoinState
  <2>2. r # "join" => request[j]["join"] = "failed"
    BY <1>1 DEF Joins, JoinState, Profile!Requests
  <2> QED
    BY <2>1, <2>2
<1>3. /\ deferred[j] # "waiting" \/ Waits(j)
      /\ deferred[j] # "failed" \/ Failed(j)
  BY DEF Joins, JoinSettled, JoinFailureIsReal, Profile!Settled, Profile!FailureIsReal, Waits, Failed
<1>4. /\ Profile!TypeOK'
      /\ \A k \in Join : k # j => request'[k] = request[k] /\ deferred'[k] = deferred[k]
      /\ deferred'[j] # "waiting" \/ Waits(j)'
      /\ deferred'[j] # "failed" \/ Failed(j)'
      /\ request'[j]["join"] # "failed" =>
           request'[j]["refresh"] = "unsent" /\ request'[j]["retry"] = "unsent"
  <2>1. CASE Profile!Retries(r, outcome)
    <3>1. /\ request' = [request EXCEPT ![j] =
                [q \in Profile!Requests |-> IF q \in Profile!RetriedBy THEN "sent" ELSE outcome]]
          /\ deferred' = deferred /\ outcome = "failed"
      BY <2>1 DEF Profile!answer, Profile!Retries
    <3>2. /\ request'[j]["join"] = "failed"
          /\ request'[j]["refresh"] = "sent" /\ request'[j]["retry"] = "sent"
      BY <1>1, <3>1 DEF Profile!Requests, Profile!RetriedBy
    <3>3. deferred[j] # "failed"
      BY <1>1, <1>3, <2>1 DEF Failed, Profile!Retries
    <3>4. request' \in [Join -> [Profile!Requests -> Profile!RequestStates]]
      BY <1>1, <3>1 DEF Profile!Requests, Profile!RetriedBy, Profile!RequestStates
    <3> QED
      BY <1>1, <3>1, <3>2, <3>3, <3>4 DEF Profile!TypeOK, Waits, Failed, Profile!Awaited
  <2>2. CASE ~Profile!Retries(r, outcome)
    <3>1. /\ request' = [request EXCEPT ![j][r] = outcome]
          /\ deferred' = [deferred EXCEPT ![j] =
               IF @ = "waiting" /\ outcome # "lost" THEN outcome ELSE @]
      BY <2>2 DEF Profile!answer, Profile!fire
    <3>2. /\ request'[j] = [request[j] EXCEPT ![r] = outcome]
          /\ deferred'[j] = IF deferred[j] = "waiting" /\ outcome # "lost"
                            THEN outcome ELSE deferred[j]
      BY <1>1, <3>1
    <3>3. request'[j][r] = outcome /\ \A q \in Profile!Requests : q # r => request'[j][q] = request[j][q]
      BY <1>1, <3>2
    <3>4. Profile!TypeOK'
      BY <1>1, <3>1 DEF Profile!TypeOK, Profile!Requests, Profile!Outcomes, Profile!RequestStates
    <3>5. deferred'[j] # "waiting" \/ Waits(j)'
      BY <1>1, <1>3, <3>2, <3>3 DEF Waits, Profile!Awaited, Profile!Requests, Profile!Outcomes
    <3>6. deferred'[j] # "failed" \/ Failed(j)'
      <4>1. CASE deferred[j] = "failed"
        BY <4>1, <1>1, <1>3, <3>3 DEF Failed, Profile!Requests
      <4>2. CASE deferred[j] # "failed" /\ deferred'[j] = "failed"
        <5>1. outcome = "failed" /\ r # "join" /\ request[j]["join"] = "failed"
          BY <1>2, <2>2, <3>2, <4>2 DEF Profile!Retries
        <5> QED
          BY <3>3, <5>1 DEF Failed, Profile!Requests
      <4> QED
        BY <4>1, <4>2
    <3>7. request'[j]["join"] # "failed" =>
            request'[j]["refresh"] = "unsent" /\ request'[j]["retry"] = "unsent"
      <4>1. CASE r = "join"
        BY <1>1, <3>3, <4>1 DEF Joins, JoinState, Profile!Requests
      <4>2. CASE r # "join"
        BY <1>2, <3>3, <4>2 DEF Profile!Requests
      <4> QED
        BY <4>1, <4>2
    <3> QED
      BY <1>1, <3>1, <3>4, <3>5, <3>6, <3>7
  <2> QED
    BY <2>1, <2>2
<1>5. JoinSettled' /\ JoinFailureIsReal'
  <2> SUFFICES ASSUME NEW k \in Join
               PROVE  /\ deferred'[k] # "failed" \/ Failed(k)'
                      /\ deferred'[k] # "waiting" \/ Waits(k)'
    BY DEF JoinSettled, JoinFailureIsReal, Profile!Settled, Profile!FailureIsReal, Failed, Waits
  <2>1. CASE k = j
    BY <2>1, <1>4
  <2>2. CASE k # j
    BY <2>2, <1>4 DEF Joins, JoinSettled, JoinFailureIsReal,
       Profile!Settled, Profile!Awaited, Profile!FailureIsReal, Waits, Failed
  <2> QED
    BY <2>1, <2>2
<1>6. JoinState'
  <2> SUFFICES ASSUME NEW k \in Join
               PROVE  /\ k > secrets' => /\ \A q \in Profile!Requests : request'[k][q] = "unsent"
                                         /\ deferred'[k] = "none"
                      /\ request'[k]["join"] # "failed" =>
                           request'[k]["refresh"] = "unsent" /\ request'[k]["retry"] = "unsent"
    BY DEF JoinState
  <2>1. CASE k = j
    BY <2>1, <1>1, <1>2, <1>4
  <2>2. CASE k # j
    BY <2>2, <1>4 DEF Joins, JoinState
  <2> QED
    BY <2>1, <2>2
<1> QED
  BY <1>2, <1>4, <1>5, <1>6 DEF Joins

(* Nothing is written, and the cipher is enabled for nobody if at all.     *)
LEMMA AnswerUnheard ==
  ASSUME IInv, Joins', Profile!TypeOK', NEW k \in Join, secrets > 0,
         UNCHANGED <<link, mode, idle, settings, protocol_version, detected, secrets, sent>>,
         cipher' = cipher \/ (cipher' = k /\ link["login"] # "open")
  PROVE  IInv'
<1> USE DEF IInv, settings
<1>1. TypeOK'
  BY DEF TypeOK, Links
<1>2. History'
  BY HistoryKept
<1>3. DetectedOnce' /\ PingState' /\ NotStarted'
  BY DEF DetectedOnce, PingState, NotStarted, TypeOK, Role
<1>4. OpenInStep'
  <2>1. link'["login"] = "open" => link["login"] = "open" /\ cipher' = cipher
    BY DEF TypeOK, Role
  <2> QED
    BY <2>1 DEF OpenInStep, Written_in, KeyAfter
<1> QED
  BY <1>1, <1>2, <1>3, <1>4

(* The response to the last encryption_begin goes out, and the cipher with *)
(* it.                                                                     *)
LEMMA ResponseStep ==
  ASSUME IInv, Joins', Profile!TypeOK', secrets \in Join,
         link["login"] = "open", mode["login"] = "login",
         sent' = sent \o <<PacketOf("encryption_begin", secrets)>>, cipher' = secrets,
         UNCHANGED <<link, mode, idle, settings, protocol_version, detected, secrets>>
  PROVE  IInv'
<1> USE DEF IInv, settings
<1> DEFINE p == PacketOf("encryption_begin", secrets)
<1>1. /\ sent # <<>> /\ cipher = KeyAfter(Len(sent))
      /\ sent[Len(sent)].name \in {"login_start", "encryption_begin"}
  BY DEF OpenInStep, Written_in
<1>2. /\ p \in Packet /\ p.key = KeyAfter(Len(sent)) /\ sent' = sent \o <<p>>
      /\ p.name = "encryption_begin" /\ p.with = secrets
  BY <1>1 DEF PacketOf, Packet, TypeOK
<1>3. p.name \in Follows(sent[Len(sent)].name)
  BY <1>1, <1>2 DEF Follows
<1> HIDE DEF p
<1>4. History' /\ sent' \in Seq(Packet) /\ Len(sent') = Len(sent) + 1 /\ sent'[Len(sent')] = p
  BY <1>1, <1>2, <1>3, OneMore
<1>5. TypeOK'
  BY <1>4 DEF TypeOK
<1>6. DetectedOnce' /\ PingState' /\ NotStarted'
  BY DEF DetectedOnce, PingState, NotStarted
<1>7. OpenInStep'
  <2>1. Len(sent') # 0 /\ sent' # <<>>
    BY <1>4 DEF TypeOK
  <2>2. KeyAfter(Len(sent))' = secrets
    BY <1>2, <1>4, <2>1 DEF KeyAfter
  <2> QED
    BY <1>2, <1>4, <2>1, <2>2 DEF OpenInStep, Written_in
<1> QED
  BY <1>4, <1>5, <1>6, <1>7

LEMMA AnswerStep ==
  ASSUME IInv, NEW j \in Join, NEW r \in Profile!Requests, NEW outcome \in Profile!Outcomes,
         answer(j, r, outcome)
  PROVE  IInv'
<1>1. /\ Profile!answer(j, r, outcome)
      /\ UNCHANGED <<mode, idle, settings, protocol_version, detected, secrets>>
  BY DEF answer
<1>2. Joins' /\ Profile!TypeOK' /\ j <= secrets
  BY <1>1, ChainKept
<1>3. secrets \in Join /\ secrets > 0
  BY <1>2, MaxJoinsNat DEF IInv, TypeOK, Join
<1>4. CASE link["login"] = "open" /\ mode["login"] = "login" /\ auth_ok
  BY <1>1, <1>2, <1>3, <1>4, ResponseStep DEF auth_ok, Written
<1>5. CASE ~(link["login"] = "open" /\ mode["login"] = "login") /\ auth_ok
  BY <1>1, <1>2, <1>3, <1>5, AnswerUnheard DEF auth_ok, Written
<1>6. CASE auth_failed \/ UNCHANGED <<link, sent, cipher>>
  BY <1>1, <1>2, <1>3, <1>6, AnswerUnheard DEF auth_failed
<1>7. auth_ok \/ auth_failed \/ UNCHANGED <<link, sent, cipher>>
  BY DEF answer
<1> QED
  BY <1>4, <1>5, <1>6, <1>7

LEMMA StutterStep == ASSUME IInv, UNCHANGED vars PROVE IInv'
<1> USE DEF IInv, vars, settings, login_vars
<1>1. TypeOK' /\ Joins' /\ History'
  BY ProfileTypeKept, JoinsKept, HistoryKept DEF TypeOK
<1>2. DetectedOnce' /\ PingState' /\ NotStarted' /\ OpenInStep'
  BY DEF DetectedOnce, PingState, NotStarted, OpenInStep, Written_in, KeyAfter
<1> QED
  BY <1>1, <1>2

-----------------------------------------------------------------------------
LEMMA IInvNext == IInv /\ [Next]_vars => IInv'
<1> SUFFICES ASSUME IInv, [Next]_vars PROVE IInv'
  OBVIOUS
<1>1. CASE UNCHANGED vars
  BY <1>1, StutterStep
<1>2. ASSUME NEW r \in Role,
             connection_made(r) \/ connection_lost(r) \/ close(r) \/ tick(r) \/ packet_other(r)
      PROVE  IInv'
  BY <1>2, ConnectionMadeStep, ConnectionLostStep, CloseStep, TickStep, OtherStep
<1>3. ASSUME NEW v \in Version, packet_server_info(v) PROVE IInv'
  BY <1>3, ServerInfoStep
<1>4. CASE \/ packet_server_info_unreadable \/ packet_encryption_begin \/ packet_success
           \/ packet_finish_configuration \/ packet_disconnect
  BY <1>4, UnreadableStep, EncryptionStep, SuccessStep, FinishStep, DisconnectStep
<1>5. ASSUME NEW j \in Join, NEW r \in Profile!Requests, NEW outcome \in Profile!Outcomes,
             answer(j, r, outcome)
      PROVE  IInv'
  BY <1>5, AnswerStep
<1> QED
  BY <1>1, <1>2, <1>3, <1>4, <1>5 DEF Next

LEMMA Invariance == Spec => []IInv
<1>1. Init => IInv
  BY IInvInit
<1>2. IInv /\ [Next]_vars => IInv'
  BY IInvNext
<1> QED
  BY <1>1, <1>2, PTL DEF Spec

-----------------------------------------------------------------------------
(* Responses and the joins that earned them.  ResponsesEarned is kept by   *)
(* every step between states of IInv: only auth_ok writes a response, in   *)
(* the step that turns one more Deferred to "ok".                          *)

LEMMA FiniteCount ==
  ASSUME NEW n \in Nat, NEW S \in SUBSET (1..n) PROVE IsFiniteSet(S) /\ Cardinality(S) \in Nat
<1>1. IsFiniteSet(1..n)
  BY FS_Interval
<1>2. IsFiniteSet(S)
  BY <1>1, FS_Subset
<1> QED
  BY <1>2, FS_CardinalityType

LEMMA CountsFinite ==
  ASSUME IInv, IInv'
  PROVE  /\ IsFiniteSet(Responses) /\ Cardinality(Responses) \in Nat
         /\ IsFiniteSet(Responses') /\ Cardinality(Responses') \in Nat
         /\ IsFiniteSet(Successes) /\ Cardinality(Successes) \in Nat
         /\ IsFiniteSet(Successes') /\ Cardinality(Successes') \in Nat
<1>1. /\ sent \in Seq(Packet) /\ Len(sent) \in Nat /\ DOMAIN sent = 1..Len(sent)
      /\ sent' \in Seq(Packet) /\ Len(sent') \in Nat /\ DOMAIN sent' = 1..Len(sent')
  BY DEF IInv, TypeOK
<1>2. Responses \in SUBSET (1..Len(sent)) /\ Responses' \in SUBSET (1..Len(sent'))
  BY <1>1 DEF Responses
<1>3. Successes \in SUBSET (1..MaxJoins) /\ Successes' \in SUBSET (1..MaxJoins)
  BY DEF Successes, Join
<1> QED
  BY <1>1, <1>2, <1>3, MaxJoinsNat, FiniteCount

LEMMA EarnedKept ==
  ASSUME IInv, IInv', ResponsesEarned, Responses' = Responses, Successes \subseteq Successes'
  PROVE  ResponsesEarned'
<1>1. /\ Cardinality(Responses) \in Nat /\ Cardinality(Successes) \in Nat
      /\ IsFiniteSet(Successes') /\ Cardinality(Successes') \in Nat
  BY CountsFinite
<1>2. Cardinality(Successes) <= Cardinality(Successes')
  BY <1>1, FS_Subset
<1> QED
  BY <1>1, <1>2 DEF ResponsesEarned

LEMMA EarnedByJoin ==
  ASSUME IInv, IInv', ResponsesEarned, NEW i, Responses' \subseteq Responses \cup {i},
         NEW j, j \notin Successes, Successes' = Successes \cup {j}
  PROVE  ResponsesEarned'
<1>1. /\ IsFiniteSet(Responses) /\ Cardinality(Responses) \in Nat
      /\ IsFiniteSet(Successes) /\ Cardinality(Successes) \in Nat
      /\ Cardinality(Responses') \in Nat
  BY CountsFinite
<1>2. Cardinality(Successes') = Cardinality(Successes) + 1
  BY <1>1, FS_AddElement
<1> DEFINE Most == Responses \cup {i}
<1>3. /\ IsFiniteSet(Most)
      /\ Cardinality(Most) = Cardinality(Responses) \/ Cardinality(Most) = Cardinality(Responses) + 1
  <2>1. /\ IsFiniteSet(Responses \cup {i})
        /\ Cardinality(Responses \cup {i}) =
             IF i \in Responses THEN Cardinality(Responses) ELSE Cardinality(Responses) + 1
    BY <1>1, FS_AddElement
  <2> QED
    BY <2>1
<1>4. Responses' \in SUBSET Most
  OBVIOUS
<1> HIDE DEF Most
<1>5. Cardinality(Responses') <= Cardinality(Most)
  BY <1>3, <1>4, FS_Subset
<1> QED
  BY <1>1, <1>2, <1>3, <1>5 DEF ResponsesEarned

(* Other packets are no responses.                                         *)
LEMMA WritingOthers ==
  ASSUME TypeOK, NEW ps \in Seq(Packet), sent' = sent \o ps,
         \A i \in 1..Len(ps) : ps[i].name # "encryption_begin"
  PROVE  Responses' = Responses
<1>1. /\ sent \in Seq(Packet) /\ Len(sent) \in Nat /\ Len(ps) \in Nat
      /\ sent' \in Seq(Packet) /\ Len(sent') = Len(sent) + Len(ps)
      /\ \A i \in 1..Len(sent) : sent'[i] = sent[i]
  BY DEF TypeOK
<1>2. ASSUME NEW i \in 1..Len(sent'), i \notin 1..Len(sent)
      PROVE  sent'[i].name # "encryption_begin"
  <2>1. sent'[i] = ps[i - Len(sent)] /\ i - Len(sent) \in 1..Len(ps)
    BY <1>1, <1>2
  <2> QED
    BY <2>1
<1>3. DOMAIN sent = 1..Len(sent) /\ DOMAIN sent' = 1..Len(sent')
  BY <1>1
<1>4. 1..Len(sent) \subseteq 1..Len(sent')
  BY <1>1
<1> QED
  BY <1>1, <1>2, <1>3, <1>4 DEF Responses

LEMMA EarnedWriting ==
  ASSUME IInv, IInv', ResponsesEarned, NEW ps \in Seq(Packet),
         \A i \in 1..Len(ps) : ps[i].name # "encryption_begin",
         sent' = sent \/ sent' = sent \o ps,
         UNCHANGED profile_vars
  PROVE  ResponsesEarned'
<1>1. Responses' = Responses
  BY WritingOthers DEF IInv, Responses
<1>2. Successes' = Successes
  BY DEF Successes, profile_vars
<1> QED
  BY <1>1, <1>2, EarnedKept

LEMMA LoginPackets ==
  ASSUME IInv, mode["login"] = "handshaking", NEW v \in Version
  PROVE  LET ps == <<PacketOf("set_protocol", v), PacketOf("login_start", None)>>
         IN  ps \in Seq(Packet) /\ \A i \in 1..Len(ps) : ps[i].name # "encryption_begin"
<1> DEFINE p == PacketOf("set_protocol", v)
           q == PacketOf("login_start", None)
<1>1. p \in Packet /\ q \in Packet /\ p.name # "encryption_begin" /\ q.name # "encryption_begin"
  <2>1. cipher \in Join \cup {None} /\ cipher = None
    BY DEF IInv, TypeOK, NotStarted
  <2> QED
    BY <2>1 DEF PacketOf, Packet
<1> HIDE DEF p, q
<1>2. LET ps == <<p, q>> IN ps \in Seq(Packet) /\ \A i \in 1..Len(ps) : ps[i].name # "encryption_begin"
  BY <1>1
<1> QED
  BY <1>2 DEF p, q

LEMMA OnePacket ==
  ASSUME IInv, NEW name \in {"login_acknowledged", "finish_configuration"}
  PROVE  LET ps == <<PacketOf(name, None)>>
         IN  ps \in Seq(Packet) /\ \A i \in 1..Len(ps) : ps[i].name # "encryption_begin"
  BY DEF IInv, TypeOK, PacketOf, Packet

LEMMA EarnedSilent ==
  ASSUME IInv, IInv', ResponsesEarned, UNCHANGED <<sent, profile_vars>>
  PROVE  ResponsesEarned'
  BY DEF ResponsesEarned, Responses, Successes, profile_vars

LEMMA EarnedConnecting ==
  ASSUME IInv, IInv', ResponsesEarned, NEW r \in Role, connection_made(r)
  PROVE  ResponsesEarned'
<1>1. UNCHANGED profile_vars /\ link[r] = "connecting"
  BY DEF connection_made
<1>2. CASE r = "login" /\ forced # None
  <2>1. forced \in Version /\ sent = <<>> /\ mode["login"] = "handshaking"
    BY <1>1, <1>2 DEF IInv, TypeOK, NotStarted
  <2>2. sent' = sent \o <<PacketOf("set_protocol", forced), PacketOf("login_start", None)>>
    BY <1>2, <2>1 DEF connection_made, PacketOf
  <2> QED
    BY <1>1, <2>1, <2>2, LoginPackets, EarnedWriting
<1>3. CASE ~(r = "login" /\ forced # None)
  <2>1. sent' = sent
    BY <1>3 DEF connection_made
  <2> QED
    BY <1>1, <2>1, EarnedSilent
<1> QED
  BY <1>2, <1>3

LEMMA EarnedDetecting ==
  ASSUME IInv, IInv', ResponsesEarned, NEW v \in Version, packet_server_info(v)
  PROVE  ResponsesEarned'
<1> DEFINE ps == <<PacketOf("set_protocol", v), PacketOf("login_start", None)>>
<1>1. UNCHANGED profile_vars /\ (sent' = sent \/ sent' = sent \o ps)
  BY DEF packet_server_info, switch_to_login, Written
<1>2. mode["login"] = "handshaking"
  BY DEF packet_server_info, Receiving, IInv, PingState, NotStarted
<1>3. ps \in Seq(Packet) /\ \A i \in 1..Len(ps) : ps[i].name # "encryption_begin"
  BY <1>2, LoginPackets
<1> HIDE DEF ps
<1> QED
  BY <1>1, <1>3, EarnedWriting

LEMMA EarnedMoving ==
  ASSUME IInv, IInv', ResponsesEarned, packet_success \/ packet_finish_configuration
  PROVE  ResponsesEarned'
<1>1. PICK name \in {"login_acknowledged", "finish_configuration"} :
        sent' = Written(<<PacketOf(name, None)>>) /\ UNCHANGED profile_vars
  BY DEF packet_success, packet_finish_configuration
<1> DEFINE ps == <<PacketOf(name, None)>>
<1>2. sent' = sent \/ sent' = sent \o ps
  BY <1>1 DEF Written
<1>3. ps \in Seq(Packet) /\ \A i \in 1..Len(ps) : ps[i].name # "encryption_begin"
  BY OnePacket
<1> HIDE DEF ps
<1> QED
  BY <1>1, <1>2, <1>3, EarnedWriting

(* A new join waits: it has neither succeeded nor brought a response.      *)
LEMMA EarnedAsking ==
  ASSUME IInv, IInv', ResponsesEarned, packet_encryption_begin
  PROVE  ResponsesEarned'
<1>1. CASE ~online
  BY <1>1, EarnedSilent DEF packet_encryption_begin, drop, login_vars
<1>2. CASE online
  <2> DEFINE j == secrets + 1
  <2>1. sent' = sent /\ secrets < MaxJoins /\ deferred' = [deferred EXCEPT ![j] = "waiting"]
    BY <1>2 DEF packet_encryption_begin, Profile!join
  <2>2. j \in Join /\ j > secrets
    BY <2>1, MaxJoinsNat DEF IInv, TypeOK, Join
  <2>3. deferred[j] = "none"
    BY <2>2 DEF IInv, Joins, JoinState
  <2>4. deferred \in [Join -> {"none", "waiting", "ok", "failed"}]
    BY DEF IInv, TypeOK, Profile!TypeOK
  <2>5. Successes \subseteq Successes'
    BY <2>1, <2>2, <2>3, <2>4 DEF Successes
  <2>6. Responses' = Responses
    BY <2>1 DEF Responses
  <2> QED
    BY <2>5, <2>6, EarnedKept
<1> QED
  BY <1>1, <1>2

LEMMA EarnedAnswering ==
  ASSUME IInv, IInv', ResponsesEarned,
         NEW j \in Join, NEW r \in Profile!Requests, NEW outcome \in Profile!Outcomes,
         answer(j, r, outcome)
  PROVE  ResponsesEarned'
<1>1. deferred \in [Join -> {"none", "waiting", "ok", "failed"}]
  BY DEF IInv, TypeOK, Profile!TypeOK
<1>2. \/ deferred' = deferred
      \/ deferred[j] = "waiting" /\ deferred' = [deferred EXCEPT ![j] = outcome]
  BY <1>1 DEF answer, Profile!answer, Profile!fire
<1>3. CASE deferred'[j] = "ok" /\ deferred'[j] # deferred[j]
  <2>1. Successes' = Successes \cup {j} /\ j \notin Successes
    BY <1>1, <1>2, <1>3 DEF Successes
  <2>2. auth_ok
    BY <1>3 DEF answer
  <2>3. sent \in Seq(Packet) /\ sent' \in Seq(Packet) /\ Len(sent) \in Nat
    BY DEF IInv, TypeOK
  <2>4. sent' = sent \/ sent' = sent \o <<PacketOf("encryption_begin", secrets)>>
    BY <2>2 DEF auth_ok, Written
  <2> DEFINE p == PacketOf("encryption_begin", secrets)
  <2> HIDE DEF p
  <2>5. ASSUME sent' = sent \o <<p>>
        PROVE  /\ DOMAIN sent' = (DOMAIN sent) \cup {Len(sent) + 1}
               /\ \A i \in DOMAIN sent : sent'[i] = sent[i]
    BY <2>3, <2>5
  <2>6. Responses' \subseteq Responses \cup {Len(sent) + 1}
    BY <2>4, <2>5 DEF Responses, p
  <2> QED
    BY <2>1, <2>6, EarnedByJoin
<1>4. CASE ~(deferred'[j] = "ok" /\ deferred'[j] # deferred[j])
  <2>1. deferred'[j] = deferred[j] => UNCHANGED <<link, sent, cipher>>
    BY DEF answer
  <2>2. deferred'[j] # deferred[j] /\ deferred'[j] # "ok" => auth_failed
    BY DEF answer
  <2>3. sent' = sent
    BY <1>4, <2>1, <2>2 DEF auth_failed
  <2>4. Successes \subseteq Successes'
    BY <1>1, <1>2 DEF Successes
  <2>5. Responses' = Responses
    BY <2>3 DEF Responses
  <2> QED
    BY <2>4, <2>5, EarnedKept
<1> QED
  BY <1>3, <1>4

LEMMA EarnedNext ==
  ASSUME IInv, IInv', ResponsesEarned, [Next]_vars PROVE ResponsesEarned'
<1>1. CASE UNCHANGED vars
  BY <1>1, EarnedSilent DEF vars, login_vars
<1>2. ASSUME NEW r \in Role,
             connection_lost(r) \/ close(r) \/ tick(r) \/ packet_other(r)
      PROVE  ResponsesEarned'
  BY <1>2, EarnedSilent DEF connection_lost, drop, close, tick, packet_other, login_vars
<1>3. CASE packet_server_info_unreadable \/ packet_disconnect
  BY <1>3, EarnedSilent DEF packet_server_info_unreadable, packet_disconnect, drop, login_vars
<1> QED
  BY <1>1, <1>2, <1>3, EarnedConnecting, EarnedDetecting, EarnedMoving, EarnedAsking,
     EarnedAnswering DEF Next

-----------------------------------------------------------------------------
(* Every variable of the client keeps its type: secrets never exceed the   *)
(* packets that brought them, and nothing but packets of the login is      *)
(* written.                                                                *)
THEOREM TypeCorrect == Spec => []TypeOK
  BY Invariance, PTL DEF IInv

(* What the client writes stays readable: for any number of encryption     *)
(* requests and in any order of the answers of the session server, every   *)
(* packet is encrypted with the secret announced last before it.  This     *)
(* includes what is written after a join failed, which closes nothing.     *)
THEOREM CipherInStepHolds == Spec => []CipherInStep
<1>1. IInv => CipherInStep
  BY DEF IInv, History
<1> QED
  BY <1>1, Invariance, PTL

(* The packets of the login go out in the order of the login, whatever the *)
(* server, the ping and the session server do when, and go on in it when a *)
(* join fails.                                                             *)
THEOREM LoginOrderHolds == Spec => []LoginOrder
<1>1. IInv => LoginOrder
  BY DEF IInv, History
<1> QED
  BY <1>1, Invariance, PTL

(* For any number of encryption requests: no response goes out for a join  *)
(* that failed, and none twice for one join, though a failed join leaves   *)
(* the connection open (auth_failed raises before it closes) and the three *)
(* requests of a join end in any order.                                    *)
THEOREM ResponsesEarnedHolds == Spec => []ResponsesEarned
<1>1. Init => ResponsesEarned
  <2> SUFFICES ASSUME Init PROVE ResponsesEarned
    OBVIOUS
  <2>1. Responses = {} /\ Successes = {}
    BY DEF Init, Profile!Init, Responses, Successes
  <2> QED
    BY <2>1, FS_EmptySet DEF ResponsesEarned
<1>2. IInv /\ IInv' /\ ResponsesEarned /\ [Next]_vars => ResponsesEarned'
  BY EarnedNext
<1> QED
  BY <1>1, <1>2, Invariance, PTL DEF Spec

(* detected_protocol_version is fired at most once: status_server_info     *)
(* closes the ping before it fires, and no ping is opened twice.           *)
THEOREM DetectedOnceHolds == Spec => []DetectedOnce
  BY Invariance, PTL DEF IInv

(* Whoever waits for the Deferred of Profile.join waits for a request that *)
(* is still to end, or was answered in a way that never fires it: no order *)
(* of the three outcomes forgets one.                                      *)
THEOREM JoinSettledHolds == Spec => []JoinSettled
<1>1. IInv => JoinSettled
  BY DEF IInv, Joins
<1> QED
  BY <1>1, Invariance, PTL

(* auth_failed is called only for a join that failed and whose refresh or  *)
(* retry failed too.                                                       *)
THEOREM JoinFailureIsRealHolds == Spec => []JoinFailureIsReal
<1>1. IInv => JoinFailureIsReal
  BY DEF IInv, Joins
<1> QED
  BY <1>1, Invariance, PTL

(* Nothing is written on a connection that was closed: neither a version   *)
(* that is detected late nor a session server that answers late does.      *)
THEOREM SilentOnceClosedHolds == Spec => SilentOnceClosed
<1>1. [Next]_vars =>
        [link["login"] # "open" /\ link["login"] # "connecting" => sent' = sent]_vars
  <2> SUFFICES ASSUME Next, link["login"] # "open", link["login"] # "connecting"
               PROVE  sent' = sent
    OBVIOUS
  <2>1. CASE \E r \in Role :
               connection_made(r) \/ connection_lost(r) \/ close(r) \/ tick(r) \/ packet_other(r)
    BY <2>1 DEF Role, connection_made, connection_lost, drop, close, tick, packet_other, login_vars
  <2>2. CASE \E v \in Version : packet_server_info(v)
    BY <2>2 DEF packet_server_info, switch_to_login, Written
  <2>3. CASE \/ packet_server_info_unreadable \/ packet_encryption_begin \/ packet_success
             \/ packet_finish_configuration \/ packet_disconnect
    BY <2>3 DEF packet_server_info_unreadable, packet_encryption_begin, packet_success,
       packet_finish_configuration, packet_disconnect, drop, Receiving, login_vars
  <2>4. CASE \E j \in Join, r \in Profile!Requests, outcome \in Profile!Outcomes :
               answer(j, r, outcome)
    BY <2>4 DEF answer, auth_ok, auth_failed, Written
  <2> QED
    BY <2>1, <2>2, <2>3, <2>4 DEF Next
<1> QED
  BY <1>1, PTL DEF Spec, SilentOnceClosed
=============================================================================
