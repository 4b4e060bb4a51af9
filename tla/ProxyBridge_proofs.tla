------------------------- MODULE ProxyBridge_proofs -------------------------
(***************************************************************************)
(* Proofs about ProxyBridge.  Its invariants are not inductive by          *)
(* themselves: that a packet is read in the mode it was written in depends *)
(* on how the four modes go together with the transports and with          *)
(* forwarding, and an orphan is made long before it is opened.             *)
(***************************************************************************)
EXTENDS ProxyBridge, TLAPS

(* The proxy follows the client in step, and the server while it is there. *)
ProxyInStep ==
  /\ down_mode = client_mode
  /\ up = "open" => up_mode = server_mode

(* The upstream is made after the downstream's login, and its own login    *)
(* comes after that.                                                       *)
UpstreamAfter ==
  /\ up = "none" <=> client_mode = "login"
  /\ up \in {"none", "connecting"} => up_mode = "login" /\ server_mode = "login"

(* Forwarding goes with the end of the upstream's login, and from then on  *)
(* the two ends are in the same mode.                                      *)
EndsInStep ==
  /\ forwarding <=> up_mode # "login"
  /\ server_mode # "login" => forwarding
  /\ up = "open" /\ forwarding => client_mode = server_mode

(* The server says once that the configuration ends, the client answers    *)
(* once.                                                                   *)
Acknowledged ==
  /\ told => server_mode # "login"
  /\ client_mode = "play" => told
  /\ acks = 1 => client_mode = "play"

(* A client lost before there was an upstream is on record.                *)
OrphansInTheMaking == up \in {"none", "connecting"} /\ down = "lost" => orphaned

IInv ==
  /\ TypeOK
  /\ ReadAsWritten
  /\ Orphans
  /\ ProxyInStep
  /\ UpstreamAfter
  /\ EndsInStep
  /\ Acknowledged
  /\ OrphansInTheMaking

-----------------------------------------------------------------------------
LEMMA IInvInit == Init => IInv
<1> SUFFICES ASSUME Init PROVE IInv
  OBVIOUS
<1> USE DEF Init
<1>1. TypeOK
  <2>1. strays \subseteq (Kinds \X {"proxy", "client", "server"})
    OBVIOUS
  <2>2. forwarding \in BOOLEAN /\ told \in BOOLEAN /\ orphaned \in BOOLEAN
    OBVIOUS
  <2> QED
    BY <2>1, <2>2 DEF TypeOK, Modes
<1>2. ReadAsWritten
  BY DEF ReadAsWritten
<1>3. Orphans /\ OrphansInTheMaking
  BY DEF Orphans, OrphansInTheMaking
<1>4. ProxyInStep /\ UpstreamAfter /\ EndsInStep /\ Acknowledged
  BY DEF ProxyInStep, UpstreamAfter, EndsInStep, Acknowledged
<1> QED
  BY <1>1, <1>2, <1>3, <1>4 DEF IInv

(* What is in step goes astray nowhere, what is passed on late or early is *)
(* no "packet".                                                            *)
LEMMA InStepIsNoStray ==
  ASSUME NEW kind, NEW where, NEW mode PROVE Stray(kind, where, mode, mode) = {}
  BY DEF Stray

LEMMA StrayType ==
  ASSUME NEW kind \in Kinds, NEW where \in {"proxy", "client", "server"},
         NEW written, NEW read
  PROVE  /\ Stray(kind, where, written, read) \subseteq Kinds \X {"proxy", "client", "server"}
         /\ \A s \in Stray(kind, where, written, read) : s[1] = kind
  BY DEF Stray

(* So what reaches the other end is of the right type, and a "packet" only *)
(* where the modes of the ends differ while the link is open.              *)
LEMMA PassedOn ==
  ASSUME NEW kind \in Kinds, NEW link, NEW where \in {"client", "server"},
         NEW written, NEW read, kind = "packet" /\ link = "open" => written = read
  PROVE  /\ passed_on(kind, link, where, written, read)
                \subseteq Kinds \X {"proxy", "client", "server"}
         /\ \A s \in passed_on(kind, link, where, written, read) : s[1] # "packet"
<1>1. CASE link = "open"
  <2>1. CASE kind = "packet"
    BY <1>1, <2>1, InStepIsNoStray DEF passed_on
  <2>2. CASE kind # "packet"
    BY <1>1, <2>2, StrayType DEF passed_on
  <2> QED
    BY <2>1, <2>2
<1>2. CASE link = "closing"
  BY <1>2, StrayType DEF passed_on, Kinds
<1>3. CASE link \notin {"open", "closing"}
  BY <1>3 DEF passed_on
<1> QED
  BY <1>1, <1>2, <1>3

-----------------------------------------------------------------------------
(* Each action preserves the invariant.                                    *)

LEMMA StraysKept == ASSUME IInv, UNCHANGED strays PROVE ReadAsWritten'
  BY DEF IInv, ReadAsWritten

LEMMA DownstreamReadyStep == ASSUME IInv, downstream_ready PROVE IInv'
<1> USE DEF IInv, downstream_ready
<1>1. TypeOK'
  BY DEF TypeOK, Modes
<1>2. Orphans' /\ OrphansInTheMaking'
  BY DEF Orphans, OrphansInTheMaking
<1>3. ProxyInStep' /\ UpstreamAfter' /\ EndsInStep' /\ Acknowledged'
  BY DEF ProxyInStep, UpstreamAfter, EndsInStep, Acknowledged, TypeOK
<1> QED
  BY <1>1, <1>2, <1>3, StraysKept

LEMMA UpstreamMadeStep == ASSUME IInv, upstream_made PROVE IInv'
<1> USE DEF IInv, upstream_made, proxy_modes, peers
<1>1. TypeOK'
  BY DEF TypeOK
<1>2. Orphans' /\ OrphansInTheMaking'
  BY DEF Orphans, OrphansInTheMaking
<1>3. ProxyInStep' /\ UpstreamAfter' /\ EndsInStep' /\ Acknowledged'
  BY DEF ProxyInStep, UpstreamAfter, EndsInStep, Acknowledged
<1> QED
  BY <1>1, <1>2, <1>3, StraysKept

LEMMA UpstreamReadyStep == ASSUME IInv, upstream_ready PROVE IInv'
<1> USE DEF IInv, upstream_ready
<1>1. TypeOK'
  BY DEF TypeOK, Modes
<1>2. Orphans' /\ OrphansInTheMaking'
  BY DEF Orphans, OrphansInTheMaking
<1>3. ProxyInStep' /\ UpstreamAfter' /\ EndsInStep' /\ Acknowledged'
  BY DEF ProxyInStep, UpstreamAfter, EndsInStep, Acknowledged, TypeOK, Modes
<1> QED
  BY <1>1, <1>2, <1>3, StraysKept

LEMMA LoseDownstreamStep == ASSUME IInv, lose_downstream PROVE IInv'
<1> USE DEF IInv, lose_downstream, downstream_disconnected, closed, proxy_modes, peers
<1>1. TypeOK'
  BY DEF TypeOK
<1>2. Orphans' /\ OrphansInTheMaking'
  BY DEF Orphans, OrphansInTheMaking
<1>3. ProxyInStep' /\ UpstreamAfter' /\ EndsInStep' /\ Acknowledged'
  BY DEF ProxyInStep, UpstreamAfter, EndsInStep, Acknowledged
<1> QED
  BY <1>1, <1>2, <1>3, StraysKept

LEMMA LoseUpstreamStep ==
  ASSUME IInv, up \in {"open", "closing"}, lose_upstream
  PROVE  IInv'
<1> USE DEF IInv, lose_upstream, upstream_disconnected, closed, proxy_modes, peers
<1>1. TypeOK'
  BY DEF TypeOK
<1>2. Orphans' /\ OrphansInTheMaking'
  BY DEF Orphans, OrphansInTheMaking
<1>3. ProxyInStep' /\ UpstreamAfter' /\ EndsInStep' /\ Acknowledged'
  BY DEF ProxyInStep, UpstreamAfter, EndsInStep, Acknowledged
<1> QED
  BY <1>1, <1>2, <1>3, StraysKept

LEMMA CloseStep == ASSUME IInv, close PROVE IInv'
<1> USE DEF IInv, close, proxy_modes, peers
<1>1. TypeOK'
  BY DEF TypeOK
<1>2. Orphans' /\ OrphansInTheMaking'
  BY DEF Orphans, OrphansInTheMaking
<1>3. ProxyInStep' /\ UpstreamAfter' /\ EndsInStep' /\ Acknowledged'
  BY DEF ProxyInStep, UpstreamAfter, EndsInStep, Acknowledged
<1> QED
  BY <1>1, <1>2, <1>3, StraysKept

(* Steps that only add strays, none of them a "packet".                    *)
LEMMA MoreStrays ==
  ASSUME IInv, NEW more, strays' = strays \cup more,
         more \subseteq Kinds \X {"proxy", "client", "server"},
         \A s \in more : s[1] # "packet"
  PROVE  /\ strays' \subseteq (Kinds \X {"proxy", "client", "server"})
         /\ ReadAsWritten'
  BY DEF IInv, TypeOK, ReadAsWritten

LEMMA OnlyStrays ==
  ASSUME IInv, UNCHANGED <<down, up, proxy_modes, forwarding, peers, orphaned>>,
         strays' \subseteq (Kinds \X {"proxy", "client", "server"}), ReadAsWritten'
  PROVE  IInv'
<1> USE DEF IInv, proxy_modes, peers
<1>1. TypeOK'
  BY DEF TypeOK
<1>2. Orphans' /\ OrphansInTheMaking'
  BY DEF Orphans, OrphansInTheMaking
<1>3. ProxyInStep' /\ UpstreamAfter' /\ EndsInStep' /\ Acknowledged'
  BY DEF ProxyInStep, UpstreamAfter, EndsInStep, Acknowledged
<1> QED
  BY <1>1, <1>2, <1>3

(* A packet passed on while it is forwarded is read as it was written, and *)
(* an early one is none.                                                   *)
LEMMA ToServer ==
  ASSUME IInv, down = "open", client_mode # "login"
  PROVE  LET kind == IF forwarding THEN "packet" ELSE "early" IN
         /\ to_server(kind) \subseteq (Kinds \X {"proxy", "client", "server"})
         /\ \A s \in to_server(kind) : s[1] # "packet"
  BY PassedOn DEF to_server, IInv, EndsInStep, Kinds

LEMMA ToClient ==
  ASSUME IInv, up = "open"
  PROVE  LET kind == IF forwarding THEN "packet" ELSE "early" IN
         /\ to_client(kind) \subseteq (Kinds \X {"proxy", "client", "server"})
         /\ \A s \in to_client(kind) : s[1] # "packet"
  BY PassedOn DEF to_client, IInv, EndsInStep, Kinds

LEMMA ClientPacketStep == ASSUME IInv, client_packet PROVE IInv'
<1> DEFINE more == Stray("packet", "proxy", client_mode, down_mode)
                     \cup (IF forwarding THEN to_server("packet") ELSE {})
<1>1. Stray("packet", "proxy", client_mode, down_mode) = {}
  BY InStepIsNoStray DEF IInv, ProxyInStep
<1>2. /\ more \subseteq (Kinds \X {"proxy", "client", "server"})
      /\ \A s \in more : s[1] # "packet"
  BY <1>1, ToServer DEF client_packet
<1>3. strays' = strays \cup more
  BY DEF client_packet
<1> QED
  BY <1>2, <1>3, MoreStrays, OnlyStrays DEF client_packet

LEMMA ClientUndecodableStep == ASSUME IInv, client_undecodable PROVE IInv'
<1>1. CASE UpstreamSet
  BY <1>1, ToServer, MoreStrays, OnlyStrays DEF client_undecodable
<1>2. CASE ~UpstreamSet
  BY <1>2, LoseDownstreamStep DEF client_undecodable
<1> QED
  BY <1>1, <1>2

LEMMA ClientFinishConfigurationStep ==
  ASSUME IInv, client_finish_configuration
  PROVE  IInv'
<1> USE DEF IInv, client_finish_configuration, both_play, finish_sent
<1>1. strays' = strays
  BY InStepIsNoStray DEF ProxyInStep
<1>2. TypeOK'
  BY <1>1 DEF TypeOK, Modes, Acknowledged
<1>3. Orphans' /\ OrphansInTheMaking'
  BY DEF Orphans, OrphansInTheMaking
<1>4. ProxyInStep' /\ UpstreamAfter' /\ EndsInStep' /\ Acknowledged'
  BY DEF ProxyInStep, UpstreamAfter, EndsInStep, Acknowledged, TypeOK, Modes
<1> QED
  BY <1>1, <1>2, <1>3, <1>4, StraysKept

LEMMA ServerPacketStep == ASSUME IInv, server_packet PROVE IInv'
<1> DEFINE more == Stray("packet", "proxy", server_mode, up_mode)
                     \cup (IF forwarding THEN to_client("packet") ELSE {})
<1>1. Stray("packet", "proxy", server_mode, up_mode) = {}
  BY InStepIsNoStray DEF IInv, ProxyInStep, server_packet, ServerWrites
<1>2. /\ more \subseteq (Kinds \X {"proxy", "client", "server"})
      /\ \A s \in more : s[1] # "packet"
  BY <1>1, ToClient DEF server_packet, ServerWrites
<1>3. strays' = strays \cup more
  BY DEF server_packet
<1> QED
  BY <1>2, <1>3, MoreStrays, OnlyStrays DEF server_packet

LEMMA ServerUndecodableStep == ASSUME IInv, server_undecodable PROVE IInv'
  BY ToClient, MoreStrays, OnlyStrays DEF server_undecodable, ServerWrites

LEMMA ServerFinishConfigurationStep ==
  ASSUME IInv, server_finish_configuration
  PROVE  IInv'
<1> USE DEF server_finish_configuration, ServerWrites
<1> DEFINE more == Stray("packet", "proxy", server_mode, up_mode) \cup to_client("packet")
<1>1. Stray("packet", "proxy", server_mode, up_mode) = {}
  BY InStepIsNoStray DEF IInv, ProxyInStep
<1>2. forwarding
  BY DEF IInv, EndsInStep
<1>3. /\ more \subseteq (Kinds \X {"proxy", "client", "server"})
      /\ \A s \in more : s[1] # "packet"
  BY <1>1, <1>2, ToClient
<1>4. strays' = strays \cup more
  OBVIOUS
<1>5. strays' \subseteq (Kinds \X {"proxy", "client", "server"}) /\ ReadAsWritten'
  BY <1>3, <1>4, MoreStrays
<1> USE DEF IInv, proxy_modes
<1>6. TypeOK'
  BY <1>5 DEF TypeOK
<1>7. Orphans' /\ OrphansInTheMaking'
  BY DEF Orphans, OrphansInTheMaking
<1>8. ProxyInStep' /\ UpstreamAfter' /\ EndsInStep' /\ Acknowledged'
  BY DEF ProxyInStep, UpstreamAfter, EndsInStep, Acknowledged
<1> QED
  BY <1>5, <1>6, <1>7, <1>8

LEMMA StutterStep == ASSUME IInv, UNCHANGED vars PROVE IInv'
  BY OnlyStrays DEF vars, IInv, TypeOK, ReadAsWritten

LEMMA IInvNext == IInv /\ [Next]_vars => IInv'
<1> SUFFICES ASSUME IInv, [Next]_vars PROVE IInv'
  OBVIOUS
<1>1. CASE downstream_ready \/ upstream_made \/ upstream_ready
  BY <1>1, DownstreamReadyStep, UpstreamMadeStep, UpstreamReadyStep
<1>2. CASE connection_lost \/ close
  BY <1>2, LoseDownstreamStep, LoseUpstreamStep, CloseStep DEF connection_lost
<1>3. CASE client_packet \/ client_undecodable \/ client_finish_configuration
  BY <1>3, ClientPacketStep, ClientUndecodableStep, ClientFinishConfigurationStep
<1>4. CASE server_packet \/ server_undecodable \/ server_finish_configuration
  BY <1>4, ServerPacketStep, ServerUndecodableStep, ServerFinishConfigurationStep
<1>5. CASE UNCHANGED vars
  BY <1>5, StutterStep
<1> QED
  BY <1>1, <1>2, <1>3, <1>4, <1>5 DEF Next

-----------------------------------------------------------------------------
(* What holds in every behaviour                                           *)

LEMMA Invariance == Spec => []IInv
  BY IInvInit, IInvNext, PTL DEF Spec

(* Transports, modes and strays keep to their types; at most one packet    *)
(* that ends the configuration ever reaches the server.                    *)
THEOREM TypeCorrect == Spec => []TypeOK
<1>1. IInv => TypeOK
  BY DEF IInv
<1> QED
  BY <1>1, Invariance, PTL

(* Every packet is read in the mode it was written in, wherever the two    *)
(* logins are, but for two kinds: packets that the proxy cannot decode and *)
(* passes on while the upstream is still logging in, and packets, decodable*)
(* or not, that it passes on to a side that is being closed.               *)
THEOREM ReadAsWrittenHolds == Spec => []ReadAsWritten
<1>1. IInv => ReadAsWritten
  BY DEF IInv
<1> QED
  BY <1>1, Invariance, PTL

(* A server connection outlives the client only if it was still being made *)
(* when the client was lost.                                               *)
THEOREM OrphansHolds == Spec => []Orphans
<1>1. IInv => Orphans
  BY DEF IInv
<1> QED
  BY <1>1, Invariance, PTL
=============================================================================
