----------------------------- MODULE RecvBuffer -----------------------------
(***************************************************************************)
(* How bytes become packets: Protocol.data_received, unpack_data,          *)
(* save_failed_packet, set_compression and the Buffer operations they use  *)
(* (quarryng/net/protocol.py, quarryng/types/buffer.py).                   *)
(*                                                                         *)
(* `recv_buff' is an attribute of the class Protocol, so all connections   *)
(* of the process share one Buffer.  The reactor is single threaded: one   *)
(* data_received runs at a time, to its end; its loop is modelled one      *)
(* iteration per step.                                                     *)
(*                                                                         *)
(* A byte is known by the connection it was sent on, its frame, and its    *)
(* place in the frame; byte 0 stands for the length prefix.                *)
(***************************************************************************)
EXTENDS Integers, Sequences, SequencesExt

CONSTANTS
  Conn,         \* the connections of the process
  None,         \* no data_received is running
  MaxFrames,    \* bound: frames sent on a connection
  MaxBody       \* bound: bytes of a frame after its length prefix

ASSUME MaxFramesNat == MaxFrames \in Nat
ASSUME MaxBodyNat == MaxBody \in Nat \ {0}
ASSUME NoneIsNoConn == None \notin Conn

VARIABLES
  sent,         \* the frames the remote sends, in order; never changes
  wire,         \* the bytes sent on each connection that have not arrived
  recv_buff,    \* Protocol.recv_buff from pos on
  running,      \* the connection whose data_received is in its loop, or None
  compressed,   \* compression_threshold >= 0
  closed,
  can_save,     \* the directory save_failed_packet writes to exists; constant
  log           \* history: what was passed to packet_received and unpack_failed

vars == <<sent, wire, recv_buff, running, compressed, closed, can_save, log>>

(* What handling a frame does: an ordinary packet, one whose handler calls *)
(* set_compression, one whose handler calls close(), one whose handler     *)
(* raises, a frame "packet" cannot be unpacked from (or not to its end),   *)
(* and a frame that cannot be decompressed or is empty.                    *)
Kinds == {"packet", "compress", "close", "raise", "undecodable", "corrupt"}

Frame == [kind : Kinds, len : 1..MaxBody] \cup [kind : {"corrupt"}, len : {0}]

Byte == [conn : Conn, frame : 1..MaxFrames, at : 0..MaxBody]

TypeOK ==
  /\ \A c \in Conn : sent[c] \in Seq(Frame) /\ wire[c] \in Seq(Byte)
  /\ recv_buff \in Seq(Byte)
  /\ running \in Conn \cup {None}
  /\ compressed \in [Conn -> BOOLEAN]
  /\ closed \in [Conn -> BOOLEAN]
  /\ can_save \in BOOLEAN
  /\ \A c \in Conn :
       /\ Len(log[c]) <= MaxFrames
       /\ log[c] \in Seq([conn : Conn, frame : 1..MaxFrames, how : {"received", "failed"}])

-----------------------------------------------------------------------------
(* The remote                                                              *)

(* The remote compresses every frame after the one that says so.           *)
WrittenCompressed(c, i) == \E j \in 1..(i - 1) : sent[c][j].kind = "compress"

BytesOf(c, s) ==
  FlattenSeq([i \in DOMAIN s |->
    [k \in 1..(s[i].len + 1) |-> [conn |-> c, frame |-> i, at |-> k - 1]]])

-----------------------------------------------------------------------------
(* unpack_data                                                             *)

First == recv_buff[1]
FirstFrame == sent[First.conn][First.frame]

(* What the first byte reads as a length prefix; a byte that is none reads *)
(* as any length.                                                          *)
Lengths == IF First.at = 0 THEN {FirstFrame.len} ELSE 0..MaxBody

(* unpack_bytes(length) does not raise BufferUnderrun.                     *)
Whole(l) == Len(recv_buff) >= 1 + l

(* The l bytes after the prefix are those that were sent with it.          *)
Intact(l) ==
  /\ First.at = 0
  /\ \A k \in 1..l : recv_buff[k + 1] = [First EXCEPT !.at = k]

(* How connection c reads the first l bytes as a frame.  A frame that      *)
(* cannot be decompressed is only that to a receiver that decompresses.    *)
(* Anything may come of bytes that are not one frame, or of a frame read   *)
(* in the format it was not written in.                                    *)
Readings(c, l) ==
  IF Intact(l) /\ WrittenCompressed(First.conn, First.frame) = compressed[c]
  THEN {IF FirstFrame.kind = "corrupt" /\ ~compressed[c] THEN "undecodable"
                                                         ELSE FirstFrame.kind}
  ELSE Kinds

-----------------------------------------------------------------------------
(* data_received                                                           *)

(* A chunk of n bytes arrives, is decrypted and appended.  Twisted does    *)
(* not deliver data to a transport it was told to close.                   *)
data_received(c, n) ==
  /\ running = None
  /\ ~closed[c]
  /\ recv_buff' = recv_buff \o SubSeq(wire[c], 1, n)
  /\ wire' = [wire EXCEPT ![c] = SubSeq(@, n + 1, Len(@))]
  /\ running' = c
  /\ UNCHANGED <<sent, compressed, closed, can_save, log>>

Looping(c) == running = c /\ ~closed[c]

(* unpack_data took a frame of l bytes: the next save() drops it.          *)
take_without_save(l) == recv_buff # <<>> /\ l \in Lengths /\ Whole(l) /\ UNCHANGED recv_buff
take(l) ==
  /\ recv_buff # <<>>
  /\ l \in Lengths
  /\ Whole(l)
  /\ recv_buff' = SubSeq(recv_buff, 2 + l, Len(recv_buff))

Logged(c, how) ==
  log' = [log EXCEPT
    ![c] = Append(@, [conn |-> First.conn, frame |-> First.frame, how |-> how])]

set_compression_never(c) == UNCHANGED compressed
set_compression(c) == compressed' = [compressed EXCEPT ![c] = TRUE]

(* The frame unpacks as a packet: packet_received.  After a handler that   *)
(* raised, Twisted drops the connection.                                   *)
packet_received(c, l, kind) ==
  /\ kind \in {"packet", "compress", "close", "raise"}
  /\ Looping(c)
  /\ take(l)
  /\ kind \in Readings(c, l)
  /\ Logged(c, "received")
  /\ IF kind = "compress" THEN set_compression(c) ELSE UNCHANGED compressed
  /\ closed' = [closed EXCEPT ![c] = kind \in {"close", "raise"}]
  /\ running' = IF kind = "raise" THEN None ELSE running
  /\ UNCHANGED <<sent, wire, can_save>>

(* It does not: save_failed_packet, then unpack_failed.  When the dump     *)
(* cannot be opened the error escapes from data_received, unpack_failed is *)
(* not called, and Twisted drops the connection.                           *)
unpack_failed(c, l) ==
  /\ Looping(c)
  /\ take(l)
  /\ "undecodable" \in Readings(c, l)
  /\ IF can_save
     THEN Logged(c, "failed") /\ UNCHANGED <<closed, running>>
     ELSE /\ closed' = [closed EXCEPT ![c] = TRUE]
          /\ running' = None
          /\ UNCHANGED log
  /\ UNCHANGED <<sent, wire, compressed, can_save>>

(* The loop ends: closed, BufferUnderrun before the frame is whole, or     *)
(* BufferUnderrun or zlib.error inside it; restore() keeps the bytes.      *)
MustWait(c) ==
  recv_buff # <<>> => \E l \in Lengths : Whole(l) => "corrupt" \in Readings(c, l)

leave_loop_any_time(c) ==
  running = c /\ running' = None /\ UNCHANGED <<sent, wire, recv_buff, compressed, closed, can_save, log>>
leave_loop(c) ==
  /\ running = c
  /\ closed[c] \/ MustWait(c)
  /\ running' = None
  /\ UNCHANGED <<sent, wire, recv_buff, compressed, closed, can_save, log>>

(* close() called by a timer or the application, or the connection lost.   *)
close(c) ==
  /\ running = None
  /\ ~closed[c]
  /\ closed' = [closed EXCEPT ![c] = TRUE]
  /\ UNCHANGED <<sent, wire, recv_buff, running, compressed, can_save, log>>

-----------------------------------------------------------------------------
Init ==
  /\ sent \in [Conn -> SeqOf(Frame, MaxFrames)]
  /\ wire = [c \in Conn |-> BytesOf(c, sent[c])]
  /\ recv_buff = <<>>
  /\ running = None
  /\ compressed = [c \in Conn |-> FALSE]
  /\ closed = [c \in Conn |-> FALSE]
  /\ can_save \in BOOLEAN
  /\ log = [c \in Conn |-> <<>>]

iteration(c) ==
  \/ \E l \in 0..MaxBody, kind \in Kinds : packet_received(c, l, kind)
  \/ \E l \in 0..MaxBody : unpack_failed(c, l)
  \/ leave_loop(c)

Next ==
  \E c \in Conn :
    \/ \E n \in 1..Len(wire[c]) : data_received(c, n)
    \/ iteration(c)
    \/ close(c)

Spec == Init /\ [][Next]_vars

(* A loop that was entered runs to its end.  Nothing is assumed of the     *)
(* arrival of bytes.                                                       *)
FairSpec == Spec /\ \A c \in Conn : WF_vars(iteration(c))

-----------------------------------------------------------------------------
(* Properties                                                              *)

(* However the stream is cut into chunks, each frame is handed on exactly  *)
(* once, in the order it was sent, and as what it is: what was sent as a   *)
(* packet is received as one, what fails to unpack was none.  Frames are   *)
(* read in the format they were written in even when the packet that       *)
(* switches compression on shares a chunk with them.                       *)
InOrder ==
  \A c \in Conn : \A i \in DOMAIN log[c] :
    /\ log[c][i].frame = i
    /\ log[c][i].how = "received" <=> sent[c][i].kind \notin {"undecodable", "corrupt"}

(* Between chunks no whole frame of an open connection waits in the buffer,*)
(* unless the first one cannot be decompressed.                            *)
Drained ==
  running = None =>
    \A c \in Conn :
      \/ closed[c]
      \/ recv_buff = <<>>
      \/ First.conn # c
      \/ Whole(FirstFrame.len) => (FirstFrame.kind = "corrupt" /\ compressed[c])

(* A frame that arrived whole, with nothing in its way, is handed on       *)
(* unless the connection closes: data_received finds every frame.          *)
InTheWay(c, i) ==
  \E j \in 1..i : sent[c][j].kind \in {"close", "raise", "corrupt"}

ArrivedWhole(c, i) ==
  i \in DOMAIN sent[c] /\ \A k \in DOMAIN wire[c] : wire[c][k].frame > i

HandedOn ==
  \A c \in Conn : \A i \in 1..MaxFrames :
    (ArrivedWhole(c, i) /\ ~InTheWay(c, i)) ~> (closed[c] \/ Len(log[c]) >= i)

(* Claimed by the docstring of packet_received ("Called when a packet is   *)
(* received from the remote"): what a connection hands on was sent on that *)
(* connection.  The shared recv_buff breaks it.                            *)
OwnPackets == \A c \in Conn : \A i \in DOMAIN log[c] : log[c][i].conn = c

(* Claimed by the docstring of unpack_failed ("Called when bytes unpacked  *)
(* but packet unpacked failed"): a connection in whose loop nothing is     *)
(* going on has handed on every frame that is neither on the wire nor in   *)
(* the buffer.  save_failed_packet raising breaks it.                      *)
FailedReported ==
  running = None =>
    \A c \in Conn : \A i \in DOMAIN sent[c] :
      \/ i <= Len(log[c])
      \/ \E k \in DOMAIN wire[c] : wire[c][k].frame = i
      \/ \E k \in DOMAIN recv_buff : recv_buff[k].conn = c /\ recv_buff[k].frame = i
=============================================================================
