---------------------------- MODULE ProxyBridge ----------------------------
(***************************************************************************)
(* quarryng/net/proxy.py: one Bridge between a client (downstream) and the *)
(* server it wants (upstream), from the end of the downstream's login on.  *)
(* The Downstream before that is ServerProtocol's, the Upstream's login in *)
(* detail ClientLogin's.                                                   *)
(*                                                                         *)
(* The client and the server outside are taken to follow the protocol:     *)
(* each writes in a mode of its own, and the configuration ends when the   *)
(* server says so and the client acknowledges it.  Their packets may   *)
(* still be undecodable for the proxy, whose tables need not know them     *)
(* all.  There is one configuration: the server starts no second one.      *)
(* Each direction is in order, and a mode changes with a packet in it, so  *)
(* a packet is written and read in one step.                               *)
(***************************************************************************)
EXTENDS Integers

VARIABLES
  down,         \* the transport to the client
  up,           \* the transport to the server; from "open" on bridge.upstream is set
  down_mode,    \* protocol_mode of the Downstream
  up_mode,      \* protocol_mode of the Upstream
  forwarding,   \* both packet_received are patched
  client_mode,  \* the mode the client writes in and reads in
  server_mode,  \* the mode the server writes in and reads in
  told,         \* finish_configuration of the server has reached the client
  acks,         \* history: finish_configuration packets that reached the server
  orphaned,     \* history: the client was lost before bridge.upstream was set
  strays        \* history: <<what, where>> was read in a mode it was not written in

proxy_modes == <<down_mode, up_mode>>
peers == <<client_mode, server_mode, told, acks>>
vars == <<down, up, proxy_modes, forwarding, peers, orphaned, strays>>

Modes == {"login", "configuration", "play"}

(* "early": bytes the proxy could not decode and passed on before          *)
(* forwarding was enabled; "late": passed on to a side that was being      *)
(* closed; "packet": all others.                                           *)
Kinds == {"packet", "early", "late"}

TypeOK ==
  /\ down \in {"open", "closing", "lost"}
  /\ up \in {"none", "connecting", "open", "closing", "lost"}
  /\ down_mode \in Modes
  /\ up_mode \in Modes
  /\ forwarding \in BOOLEAN
  /\ client_mode \in Modes
  /\ server_mode \in Modes
  /\ told \in BOOLEAN
  /\ acks \in 0..1
  /\ orphaned \in BOOLEAN
  /\ strays \subseteq (Kinds \X {"proxy", "client", "server"})

Stray(kind, where, written, read) ==
  IF written = read THEN {} ELSE {<<kind, where>>}

-----------------------------------------------------------------------------
(* Connections                                                             *)

(* The client's login_acknowledged: player_joined, downstream_ready and    *)
(* connect.                                                                *)
downstream_ready ==
  /\ down = "open"
  /\ down_mode = "login"
  /\ client_mode' = "configuration"
  /\ down_mode' = "configuration"
  /\ up' = "connecting"
  /\ UNCHANGED <<down, up_mode, forwarding, server_mode, told, acks, orphaned, strays>>

(* buildProtocol sets bridge.upstream; with a forced version the login     *)
(* starts at once.  A connection that cannot be made stays "connecting":   *)
(* nobody is told.                                                         *)
upstream_made ==
  /\ up = "connecting"
  /\ up' = "open"
  /\ UNCHANGED <<down, proxy_modes, forwarding, peers, orphaned, strays>>

(* The server's success: packet_success, then player_joined, which is      *)
(* upstream_ready and enables forwarding, whatever became of the client.   *)
upstream_ready ==
  /\ up = "open"
  /\ up_mode = "login"
  /\ up_mode' = "configuration"
  /\ server_mode' = "configuration"
  /\ forwarding' = TRUE
  /\ UNCHANGED <<down, up, down_mode, client_mode, told, acks, orphaned, strays>>

(* downstream_disconnected and upstream_disconnected: what the loss of one *)
(* side does to the other.                                                 *)
closed(link) == IF link = "open" THEN "closing" ELSE link

downstream_disconnected_forwarding == IF forwarding THEN closed(up) ELSE up
downstream_disconnected == closed(up)
upstream_disconnected_forwarding == IF forwarding THEN closed(down) ELSE down
upstream_disconnected == closed(down)

lose_downstream ==
  /\ down' = "lost"
  /\ up' = downstream_disconnected
  /\ orphaned' = (up \in {"none", "connecting"})
  /\ UNCHANGED <<proxy_modes, forwarding, peers, strays>>

lose_upstream ==
  /\ up' = "lost"
  /\ down' = upstream_disconnected
  /\ UNCHANGED <<proxy_modes, forwarding, peers, orphaned, strays>>

connection_lost ==
  \/ down \in {"open", "closing"} /\ lose_downstream
  \/ up \in {"open", "closing"} /\ lose_upstream

(* The connection timer or the application closes one side.                *)
close ==
  /\ \/ down = "open" /\ down' = "closing" /\ UNCHANGED up
     \/ up = "open" /\ up' = "closing" /\ UNCHANGED down
  /\ UNCHANGED <<proxy_modes, forwarding, peers, orphaned, strays>>

-----------------------------------------------------------------------------
(* Packets.  send_packet writes nothing once `closed' is set; send_bytes   *)
(* does not look at it, and Twisted still writes until the transport is    *)
(* lost.                                                                   *)

UpstreamSet == up \in {"open", "closing", "lost"}

passed_on(kind, link, where, written, read) ==
  CASE link = "open"    -> Stray(kind, where, written, read)
    [] link = "closing" -> Stray("late", where, written, read)
    [] OTHER            -> {}

to_server(kind) == passed_on(kind, up, "server", client_mode, server_mode)
to_client(kind) == passed_on(kind, down, "client", server_mode, client_mode)

(* A packet of the client that the Bridge has no handler for is passed on; *)
(* before forwarding the Downstream's packet_unhandled discards it.        *)
client_packet ==
  /\ down = "open"
  /\ client_mode # "login"
  /\ strays' = strays
       \cup Stray("packet", "proxy", client_mode, down_mode)
       \cup (IF forwarding THEN to_server("packet") ELSE {})
  /\ UNCHANGED <<down, up, proxy_modes, forwarding, peers, orphaned>>

(* An undecodable one is passed on by Downstream.unpack_failed, forwarding *)
(* or not; while there is no upstream this raises AttributeError.          *)
client_undecodable ==
  /\ down = "open"
  /\ client_mode # "login"
  /\ IF UpstreamSet
     THEN /\ strays' = strays \cup to_server(IF forwarding THEN "packet" ELSE "early")
          /\ UNCHANGED <<down, up, orphaned, proxy_modes, forwarding, peers>>
     ELSE lose_downstream

(* The modes that packet_upstream_finish_configuration switches, from the  *)
(* configuration both ends are in.                                         *)
both_play_downstream_late == down_mode' = down_mode /\ up_mode' = "play"
both_play == down_mode' = "play" /\ up_mode' = "play"

(* How many of them reach an open upstream: the handler sends one and      *)
(* returns None, and as the packet was dispatched no second is passed on.  *)
finish_sent_twice == 2
finish_sent == 1

client_finish_configuration ==
  /\ down = "open"
  /\ client_mode = "configuration"
  /\ told
  /\ client_mode' = "play"
  /\ strays' = strays \cup Stray("packet", "proxy", client_mode, down_mode)
  /\ both_play
  /\ IF up = "open"
     THEN acks' = acks + finish_sent /\ server_mode' = "play"
     ELSE UNCHANGED <<acks, server_mode>>
  /\ UNCHANGED <<down, up, forwarding, told, orphaned>>

(* A packet of the server; between its finish_configuration and the answer *)
(* it sends none.                                                          *)
ServerWrites == up = "open" /\ (told => server_mode = "play")

server_packet ==
  /\ ServerWrites
  /\ strays' = strays
       \cup Stray("packet", "proxy", server_mode, up_mode)
       \cup (IF forwarding THEN to_client("packet") ELSE {})
  /\ UNCHANGED <<down, up, proxy_modes, forwarding, peers, orphaned>>

server_undecodable ==
  /\ ServerWrites
  /\ strays' = strays \cup to_client(IF forwarding THEN "packet" ELSE "early")
  /\ UNCHANGED <<down, up, proxy_modes, forwarding, peers, orphaned>>

server_finish_configuration ==
  /\ ServerWrites
  /\ server_mode = "configuration"
  /\ told' = TRUE
  /\ strays' = strays
       \cup Stray("packet", "proxy", server_mode, up_mode) \cup to_client("packet")
  /\ UNCHANGED <<down, up, proxy_modes, forwarding, client_mode, server_mode, acks, orphaned>>

-----------------------------------------------------------------------------
Init ==
  /\ down = "open"
  /\ up = "none"
  /\ down_mode = "login"
  /\ up_mode = "login"
  /\ forwarding = FALSE
  /\ client_mode = "login"
  /\ server_mode = "login"
  /\ told = FALSE
  /\ acks = 0
  /\ orphaned = FALSE
  /\ strays = {}

Next ==
  \/ downstream_ready \/ upstream_made \/ upstream_ready
  \/ connection_lost \/ close
  \/ client_packet \/ client_undecodable \/ client_finish_configuration
  \/ server_packet \/ server_undecodable \/ server_finish_configuration

Spec == Init /\ [][Next]_vars

(* A close that was asked for completes, as in ServerProtocol.             *)
FairSpec ==
  /\ Spec
  /\ WF_vars(down = "closing" /\ lose_downstream)
  /\ WF_vars(up = "closing" /\ lose_upstream)

-----------------------------------------------------------------------------
(* Properties                                                              *)

(* Across the bridge every packet is read in the mode it was written in:   *)
(* by the proxy, which follows two conversations with one mode each, and,  *)
(* when it is passed on, by the other end.  What may go astray is only     *)
(* what the proxy could not decode and passed on while the upstream was    *)
(* logging in, and what it passed on to a side that was being closed, to   *)
(* which it no longer sends the packet that switches the mode.             *)
ReadAsWritten == \A s \in strays : s[1] # "packet"

(* The only server connection that is left open when the client is gone is *)
(* one that was still being made when the client was lost.                 *)
Orphans == up = "open" /\ down = "lost" => orphaned

(* Neither side outlives the other, but for that one.                      *)
LostTogether ==
  /\ up = "lost" ~> down = "lost"
  /\ (down = "lost" /\ ~orphaned) ~> up = "lost"
=============================================================================
