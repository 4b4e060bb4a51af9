------------------------- MODULE RecvBuffer_proofs -------------------------
(***************************************************************************)
(* Proofs about RecvBuffer, for any stream of frames and any chunks.  As   *)
(* all connections share the buffer, they need that a chunk arrives only   *)
(* when the buffer holds nothing of another connection (ApartChunks); one  *)
(* connection alone always gives that, several do not (OwnPackets).  The   *)
(* base is what a stream is: while a connection is open, what it has in    *)
(* the buffer and its wire behind it are the bytes of the frames not yet   *)
(* handed on, and nothing else.                                            *)
(***************************************************************************)
EXTENDS RecvBuffer, SequenceTheorems, NumberLemmas

(* data_received starts on an empty buffer, or on one with the beginning   *)
(* of a frame of its own connection.                                       *)
Apart ==
  running' # running /\ running' # None =>
    \A k \in 1..Len(recv_buff) : recv_buff[k].conn = running'
ApartChunks == [][Apart]_vars

OneConn == \E c : Conn = {c}

ByteOf(c, f, k) == [conn |-> c, frame |-> f, at |-> k]

(* Byte i of b, a byte of the frames s, is followed by the rest of its     *)
(* frame and then by the next frame, up to frame m, with which b ends.     *)
Continues(c, s, b, i, m) ==
  \E f \in 1..m : \E k \in 0..s[f].len :
    /\ \A d \in 0..s[f].len - k : i + d <= Len(b) /\ b[i + d] = ByteOf(c, f, k + d)
    /\ IF f < m
       THEN i + (s[f].len - k) + 1 <= Len(b) /\ b[i + (s[f].len - k) + 1] = ByteOf(c, f + 1, 0)
       ELSE i + (s[f].len - k) = Len(b)

(* b is made of the frames n + 1 to m of s, as sent on c.                  *)
Stream(c, s, b, n, m) ==
  /\ b \in Seq(Byte)
  /\ n = m => b = <<>>
  /\ n < m => b # <<>> /\ b[1] = ByteOf(c, n + 1, 0)
  /\ \A i \in 1..Len(b) : Continues(c, s, b, i, m)

OwnedBy(b, c) == \A k \in 1..Len(b) : b[k].conn = c

(* What connection c has in the buffer, if it is its turn.                 *)
Mine(c) == IF recv_buff # <<>> /\ First.conn = c THEN recv_buff ELSE <<>>

(* What is not yet handed on.                                              *)
Ahead(c) ==
  /\ Len(sent[c]) <= MaxFrames
  /\ closed[c] \/ /\ Len(log[c]) <= Len(sent[c])
                  /\ Stream(c, sent[c], Mine(c) \o wire[c], Len(log[c]), Len(sent[c]))
                  /\ compressed[c] = WrittenCompressed(c, Len(log[c]) + 1)

IInv ==
  /\ TypeOK
  /\ DOMAIN wire = Conn /\ DOMAIN log = Conn
  /\ \A c \in Conn : Ahead(c)
  /\ \A c \in Conn : running = c => OwnedBy(recv_buff, c)
  /\ InOrder
  /\ Drained
  /\ OwnPackets

-----------------------------------------------------------------------------
(* FlattenSeq concatenates one sequence after the other.                   *)
LEMMA FlattenSteps ==
  ASSUME NEW q, Len(q) \in Nat \ {0}
  PROVE  \E g : /\ g[Len(q)] = FlattenSeq(q)
                /\ \A i \in 1..Len(q) : g[i] = IF i = 1 THEN q[i] ELSE g[i - 1] \o q[i]
<1> DEFINE n == Len(q)
           Rule(g, m) == g = [i \in 1..m |-> IF i = 1 THEN q[i] ELSE g[i - 1] \o q[i]]
           S == {m \in Nat : \E g : Rule(g, m)}
<1>1. 0 \in S
  <2> DEFINE g == [i \in 1..0 |-> q]
  <2>1. Rule(g, 0)
    OBVIOUS
  <2> QED
    BY <2>1
<1>2. ASSUME NEW m \in Nat, m \in S PROVE m + 1 \in S
  <2>1. PICK g : Rule(g, m)
    BY <1>2
  <2> DEFINE h == [i \in 1..m + 1 |->
                     IF i <= m THEN g[i] ELSE IF i = 1 THEN q[i] ELSE g[m] \o q[i]]
  <2>2. ASSUME NEW i \in 1..m + 1 PROVE h[i] = IF i = 1 THEN q[i] ELSE h[i - 1] \o q[i]
    <3>1. CASE i <= m
      <4>1. i \in 1..m /\ h[i] = g[i] /\ (i # 1 => i - 1 \in 1..m + 1 /\ h[i - 1] = g[i - 1])
        BY <3>1
      <4> QED
        BY <2>1, <4>1
    <3>2. CASE ~(i <= m)
      <4>1. i = m + 1 /\ (i # 1 => i - 1 = m /\ m \in 1..m + 1 /\ h[m] = g[m])
        BY <3>2
      <4> QED
        BY <3>2, <4>1
    <3> QED
      BY <3>1, <3>2
  <2>3. Rule(h, m + 1)
    BY <2>2
  <2> HIDE DEF h, Rule
  <2> QED
    BY <2>3
<1>3. n \in S
  <2> HIDE DEF S
  <2> QED
    BY <1>1, <1>2, SetInduction
<1> DEFINE G == CHOOSE g : Rule(g, n)
<1>4. Rule(G, n)
  BY <1>3
<1>5. FlattenSeq(q) = G[n]
  BY DEF FlattenSeq
<1> HIDE DEF G
<1>6. \A i \in 1..n : G[i] = IF i = 1 THEN q[i] ELSE G[i - 1] \o q[i]
  BY <1>4
<1> QED
  BY <1>5, <1>6

-----------------------------------------------------------------------------
(* Streams                                                                 *)

LEMMA FrameLen ==
  ASSUME NEW s \in Seq(Frame), NEW f \in 1..Len(s) PROVE s[f].len \in 0..MaxBody
<1>1. s[f] \in Frame
  OBVIOUS
<1> QED
  BY <1>1, MaxBodyNat DEF Frame

LEMMA FrameBytes ==
  ASSUME NEW c \in Conn, NEW s \in Seq(Frame), Len(s) <= MaxFrames, NEW f \in 1..Len(s)
  PROVE  [k \in 1..s[f].len + 1 |-> ByteOf(c, f, k - 1)] \in Seq(Byte)
<1>1. s[f].len \in 0..MaxBody /\ f \in 1..MaxFrames
  BY FrameLen, MaxFramesNat
<1>2. \A k \in 1..s[f].len + 1 : ByteOf(c, f, k - 1) \in Byte
  BY <1>1, MaxBodyNat DEF ByteOf, Byte
<1> QED
  BY <1>1, <1>2

(* One more frame makes a stream longer.                                   *)
LEMMA StreamGrows ==
  ASSUME NEW c \in Conn, NEW s \in Seq(Frame), Len(s) <= MaxFrames,
         NEW m \in Nat, m < Len(s), NEW b, Stream(c, s, b, 0, m),
         NEW w, w = [k \in 1..s[m + 1].len + 1 |-> ByteOf(c, m + 1, k - 1)]
  PROVE  Stream(c, s, b \o w, 0, m + 1)
<1> DEFINE L == s[m + 1].len
           bb == b \o w
<1>1. L \in 0..MaxBody /\ m + 1 \in 1..MaxFrames
  BY FrameLen, MaxFramesNat
<1>2. b \in Seq(Byte) /\ Len(b) \in Nat
  BY DEF Stream
<1>3. w \in Seq(Byte) /\ Len(w) = L + 1
  <2>1. m + 1 \in 1..Len(s)
    OBVIOUS
  <2> QED
    BY <1>1, <2>1, FrameBytes
<1>4. /\ bb \in Seq(Byte) /\ Len(bb) = Len(b) + (L + 1)
      /\ \A i \in 1..Len(b) : bb[i] = b[i]
      /\ \A d \in 0..L : bb[(Len(b) + 1) + d] = ByteOf(c, m + 1, d)
  <2>1. /\ bb \in Seq(Byte) /\ Len(bb) = Len(b) + Len(w)
        /\ \A i \in 1..Len(b) + Len(w) : bb[i] = IF i <= Len(b) THEN b[i] ELSE w[i - Len(b)]
    BY <1>2, <1>3, ConcatProperties
  <2>2. ASSUME NEW i \in 1..Len(b) PROVE bb[i] = b[i]
    BY <1>1, <1>2, <1>3, <2>1
  <2>3. ASSUME NEW d \in 0..L PROVE bb[(Len(b) + 1) + d] = ByteOf(c, m + 1, d)
    <3>1. /\ (Len(b) + 1) + d \in 1..Len(b) + Len(w) /\ ~((Len(b) + 1) + d <= Len(b))
          /\ ((Len(b) + 1) + d) - Len(b) = d + 1 /\ d + 1 \in 1..L + 1 /\ (d + 1) - 1 = d
      BY <1>1, <1>2, <1>3
    <3>2. bb[(Len(b) + 1) + d] = w[d + 1]
      BY <2>1, <3>1
    <3>3. w[d + 1] = ByteOf(c, m + 1, (d + 1) - 1)
      BY <3>1
    <3> QED
      BY <3>1, <3>2, <3>3
  <2> QED
    BY <1>3, <2>1, <2>2, <2>3
<1> HIDE DEF L, bb

<1>5. bb # <<>> /\ bb[1] = ByteOf(c, 1, 0)
  <2>1. CASE m = 0
    <3>1. Len(b) = 0
      BY <2>1 DEF Stream
    <3>2. 0 \in 0..L /\ (Len(b) + 1) + 0 = 1
      BY <1>1, <3>1
    <3>3. bb[1] = ByteOf(c, m + 1, 0)
      BY <1>4, <3>2
    <3> QED
      BY <1>1, <1>4, <2>1, <3>1, <3>3
  <2>2. CASE m # 0
    <3>1. b # <<>> /\ b[1] = ByteOf(c, 1, 0)
      BY <2>2 DEF Stream
    <3>2. 1 \in 1..Len(b)
      BY <1>2, <3>1
    <3> QED
      BY <1>1, <1>4, <3>1, <3>2
  <2> QED
    BY <2>1, <2>2
<1>6. ASSUME NEW i \in 1..Len(bb) PROVE Continues(c, s, bb, i, m + 1)
  <2>1. CASE i \in 1..Len(b)
    <3>0. PICK f \in 1..m : \E k \in 0..s[f].len :
            /\ \A d \in 0..s[f].len - k : i + d <= Len(b) /\ b[i + d] = ByteOf(c, f, k + d)
            /\ IF f < m
               THEN /\ i + (s[f].len - k) + 1 <= Len(b)
                    /\ b[i + (s[f].len - k) + 1] = ByteOf(c, f + 1, 0)
               ELSE i + (s[f].len - k) = Len(b)
      BY <2>1 DEF Stream, Continues
    <3>1. PICK k \in 0..s[f].len :
            /\ \A d \in 0..s[f].len - k : i + d <= Len(b) /\ b[i + d] = ByteOf(c, f, k + d)
            /\ IF f < m
               THEN /\ i + (s[f].len - k) + 1 <= Len(b)
                    /\ b[i + (s[f].len - k) + 1] = ByteOf(c, f + 1, 0)
               ELSE i + (s[f].len - k) = Len(b)
      BY <3>0
    <3> DEFINE e == s[f].len - k
    <3>2. f \in 1..Len(s) /\ e \in Nat /\ f \in 1..m + 1 /\ f < m + 1
      <4>1. f \in 1..Len(s)
        OBVIOUS
      <4> QED
        BY <4>1, FrameLen
    <3> HIDE DEF e
    <3>3. ASSUME NEW d \in 0..e PROVE i + d <= Len(bb) /\ bb[i + d] = ByteOf(c, f, k + d)
      <4>1. i + d <= Len(b) /\ b[i + d] = ByteOf(c, f, k + d)
        BY <3>1 DEF e
      <4>2. i + d \in 1..Len(b)
        BY <1>2, <4>1
      <4> QED
        BY <1>1, <1>2, <1>4, <4>1, <4>2
    <3>4. i + e + 1 <= Len(bb) /\ bb[i + e + 1] = ByteOf(c, f + 1, 0)
      <4>1. CASE f < m
        <5>1. i + e + 1 <= Len(b) /\ b[i + e + 1] = ByteOf(c, f + 1, 0)
          BY <3>1, <4>1 DEF e
        <5>2. i + e + 1 \in 1..Len(b)
          BY <1>2, <3>2, <5>1
        <5> QED
          BY <1>1, <1>2, <1>4, <5>1, <5>2
      <4>2. CASE ~(f < m)
        <5>1. i + e = Len(b) /\ f = m
          BY <3>1, <4>2 DEF e
        <5>2. i + e + 1 = (Len(b) + 1) + 0 /\ 0 \in 0..L
          BY <1>1, <1>2, <5>1
        <5>3. bb[(Len(b) + 1) + 0] = ByteOf(c, m + 1, 0)
          BY <1>4, <5>2
        <5> QED
          BY <1>1, <1>2, <1>4, <5>1, <5>2, <5>3
      <4> QED
        BY <4>1, <4>2
    <3> QED
      BY <3>2, <3>3, <3>4 DEF Continues, e
  <2>2. CASE i \notin 1..Len(b)
    <3> DEFINE k == i - (Len(b) + 1)
    <3>1. k \in 0..L /\ i = (Len(b) + 1) + k /\ L - k \in Nat /\ i + (L - k) = Len(bb)
      BY <1>1, <1>2, <1>4, <2>2
    <3> HIDE DEF k
    <3>2. ASSUME NEW d \in 0..L - k PROVE i + d <= Len(bb) /\ bb[i + d] = ByteOf(c, m + 1, k + d)
      <4>1. k + d \in 0..L /\ i + d = (Len(b) + 1) + (k + d) /\ i + d <= Len(bb)
        BY <1>1, <1>2, <1>4, <3>1
      <4> QED
        BY <1>4, <4>1
    <3> QED
      BY <3>1, <3>2 DEF Continues, L
  <2> QED
    BY <2>1, <2>2
<1>7. 0 + 1 = 1 /\ 0 < m + 1 /\ ~(0 = m + 1)
  OBVIOUS
<1>8. Stream(c, s, bb, 0, m + 1)
  BY <1>4, <1>5, <1>6, <1>7 DEF Stream
<1> QED
  BY <1>8 DEF bb

(* What the remote sends is a stream of all its frames.                    *)
LEMMA BytesStream ==
  ASSUME NEW c \in Conn, NEW s \in Seq(Frame), Len(s) <= MaxFrames
  PROVE  Stream(c, s, BytesOf(c, s), 0, Len(s))
<1> DEFINE W(i) == [k \in 1..s[i].len + 1 |-> ByteOf(c, i, k - 1)]
           q == [i \in 1..Len(s) |-> W(i)]
<1>1. Len(s) \in Nat /\ DOMAIN s = 1..Len(s)
  OBVIOUS
<1>2. BytesOf(c, s) = FlattenSeq(q)
  BY <1>1 DEF BytesOf, ByteOf
<1>3. Len(q) = Len(s) /\ \A i \in 1..Len(s) : q[i] = W(i)
  BY <1>1
<1> HIDE DEF q
<1>4. Stream(c, s, <<>>, 0, 0)
  BY DEF Stream
<1>5. CASE Len(s) = 0
  <2>1. FlattenSeq(q) = q /\ q = <<>>
    BY <1>1, <1>3, <1>5 DEF FlattenSeq, q
  <2> QED
    BY <1>2, <1>4, <1>5, <2>1
<1>6. CASE Len(s) # 0
  <2>1. PICK g : /\ g[Len(s)] = FlattenSeq(q)
                 /\ \A i \in 1..Len(s) : g[i] = IF i = 1 THEN q[i] ELSE g[i - 1] \o q[i]
    <3>1. Len(q) \in Nat \ {0}
      BY <1>1, <1>3, <1>6
    <3> QED
      BY <1>3, <3>1, FlattenSteps
  <2> DEFINE B(m) == IF m = 0 THEN <<>> ELSE g[m]
             S == {m \in Nat : m <= Len(s) => Stream(c, s, B(m), 0, m)}
  <2>2. 0 \in S
    BY <1>4
  <2>3. ASSUME NEW m \in Nat, m \in S PROVE m + 1 \in S
    <3> SUFFICES ASSUME m < Len(s) PROVE Stream(c, s, B(m + 1), 0, m + 1)
      BY <1>1
    <3>1. m + 1 \in 1..Len(s) /\ (m + 1) - 1 = m /\ m + 1 # 0
      BY <1>1
    <3>2. Stream(c, s, B(m), 0, m)
      BY <1>1, <2>3
    <3>3. B(m + 1) = B(m) \o W(m + 1)
      <4>1. CASE m = 0
        <5>1. W(m + 1) \in Seq(Byte)
          BY <3>1, FrameBytes
        <5> QED
          BY <1>3, <2>1, <3>1, <4>1, <5>1, ConcatEmptySeq
      <4>2. CASE m # 0
        <5>1. ASSUME NEW n \in 1..Len(s), n # 1 PROVE g[n] = g[n - 1] \o W(n)
          BY <1>3, <2>1, <5>1
        <5>2. g[m + 1] = g[m] \o W(m + 1)
          <6>1. m + 1 \in 1..Len(s) /\ m + 1 # 1 /\ (m + 1) - 1 = m
            BY <3>1, <4>2
          <6> HIDE DEF W
          <6>2. g[m + 1] = g[(m + 1) - 1] \o W(m + 1)
            BY <5>1, <6>1
          <6> QED
            BY <6>1, <6>2
        <5> QED
          BY <3>1, <4>2, <5>2
      <4> QED
        BY <4>1, <4>2
    <3> HIDE DEF B
    <3> QED
      BY <3>2, <3>3, StreamGrows
  <2> HIDE DEF S
  <2>4. Len(s) \in S
    BY <1>1, <2>2, <2>3, SetInduction
  <2> QED
    BY <1>1, <1>2, <1>6, <2>1, <2>4 DEF S
<1> QED
  BY <1>5, <1>6

(* What is left of a sequence without its first elements.                  *)
IsRest(r, b, a) ==
  /\ r \in Seq(Byte) /\ Len(r) \in Nat /\ Len(r) + a = Len(b)
  /\ \A i \in 1..Len(r) : r[i] = b[i + a]

LEMMA Rest ==
  ASSUME NEW b \in Seq(Byte), NEW a \in Nat, a <= Len(b)
  PROVE  IsRest(SubSeq(b, a + 1, Len(b)), b, a)
<1>1. PICK r : r = SubSeq(b, a + 1, Len(b))
  OBVIOUS
<1>2. PICK l \in Nat : l = Len(b)
  OBVIOUS
<1>3. /\ r \in Seq(Byte)
      /\ Len(r) = IF a + 1 <= l THEN l - (a + 1) + 1 ELSE 0
      /\ \A i \in 1..l - (a + 1) + 1 : r[i] = b[(a + 1) + i - 1]
  <2>1. \A i \in a + 1..l : b[i] \in Byte
    BY <1>2
  <2> QED
    BY <1>1, <1>2, <2>1, SubSeqProperties
<1>4. PICK n : n = Len(r)
  OBVIOUS
<1>5. n \in Nat /\ n + a = l /\ l - (a + 1) + 1 = n
  <2>1. n = IF a + 1 <= l THEN l - (a + 1) + 1 ELSE 0
    BY <1>3, <1>4
  <2> QED
    BY <1>2, <2>1
<1>6. ASSUME NEW i \in 1..n PROVE r[i] = b[i + a]
  <2>1. (a + 1) + i - 1 = i + a
    OBVIOUS
  <2> QED
    BY <1>3, <1>5, <2>1
<1> QED
  BY <1>1, <1>2, <1>3, <1>4, <1>5, <1>6 DEF IsRest

(* The elements of a concatenation.                                        *)
IsConcat(b, r, w) ==
  /\ b \in Seq(Byte) /\ Len(b) = Len(r) + Len(w)
  /\ \A i \in 1..Len(r) + Len(w) : b[i] = IF i <= Len(r) THEN r[i] ELSE w[i - Len(r)]

LEMMA Concat ==
  ASSUME NEW r \in Seq(Byte), NEW w \in Seq(Byte) PROVE IsConcat(r \o w, r, w)
BY ConcatProperties DEF IsConcat

(* b begins with frame n + 1, of length l, and goes on with the frames     *)
(* after it.                                                               *)
BeginsWith(c, s, b, n, l) ==
  /\ l \in 0..MaxBody /\ 1 + l <= Len(b)
  /\ \A d \in 0..l : b[1 + d] = ByteOf(c, n + 1, d)
  /\ Stream(c, s, SubSeq(b, 2 + l, Len(b)), n + 1, Len(s))

(* A stream begins with its first frame, and is a stream without it.       *)
LEMMA StreamCut ==
  ASSUME NEW c \in Conn, NEW s \in Seq(Frame), NEW n \in Nat, n < Len(s),
         NEW b, Stream(c, s, b, n, Len(s))
  PROVE  BeginsWith(c, s, b, n, s[n + 1].len)
<1>1. PICK m \in Nat : m = Len(s)
  OBVIOUS
<1>2. PICK L : L = s[n + 1].len
  OBVIOUS
<1>3. n + 1 \in 1..m /\ L \in 0..MaxBody /\ L \in Nat
  <2>1. n + 1 \in 1..Len(s)
    BY <1>1
  <2> QED
    BY <1>1, <1>2, <2>1, FrameLen, MaxBodyNat
<1>4. b \in Seq(Byte) /\ b # <<>> /\ b[1] = ByteOf(c, n + 1, 0)
  BY DEF Stream
<1>5. PICK l \in Nat : l = Len(b)
  BY <1>4
<1>6. l >= 1
  BY <1>4, <1>5
<1>7. /\ \A d \in 0..L : 1 + d <= l /\ b[1 + d] = ByteOf(c, n + 1, d)
      /\ IF n + 1 < m THEN L + 2 <= l /\ b[L + 2] = ByteOf(c, n + 2, 0)
                      ELSE L + 1 = l
  <2>1. Continues(c, s, b, 1, m)
    BY <1>1, <1>5, <1>6 DEF Stream
  <2>2. PICK f \in 1..m : \E k \in 0..s[f].len :
          /\ \A d \in 0..s[f].len - k : 1 + d <= l /\ b[1 + d] = ByteOf(c, f, k + d)
          /\ IF f < m
             THEN /\ 1 + (s[f].len - k) + 1 <= l
                  /\ b[1 + (s[f].len - k) + 1] = ByteOf(c, f + 1, 0)
             ELSE 1 + (s[f].len - k) = l
    BY <1>5, <2>1 DEF Continues
  <2>3. PICK k \in 0..s[f].len :
          /\ \A d \in 0..s[f].len - k : 1 + d <= l /\ b[1 + d] = ByteOf(c, f, k + d)
          /\ IF f < m
             THEN /\ 1 + (s[f].len - k) + 1 <= l
                  /\ b[1 + (s[f].len - k) + 1] = ByteOf(c, f + 1, 0)
             ELSE 1 + (s[f].len - k) = l
    BY <2>2
  <2>4. s[f].len \in Nat
    <3>1. f \in 1..Len(s)
      BY <1>1
    <3> QED
      BY <3>1, FrameLen, MaxBodyNat
  <2>5. b[1 + 0] = ByteOf(c, f, k + 0)
    <3>1. 0 \in 0..s[f].len - k
      BY <2>4
    <3> QED
      BY <2>3, <3>1
  <2>6. f = n + 1 /\ k = 0
    <3>1. 1 + 0 = 1 /\ k + 0 = k
      OBVIOUS
    <3>2. ByteOf(c, n + 1, 0) = ByteOf(c, f, k)
      BY <1>4, <2>5, <3>1
    <3> QED
      BY <3>2 DEF ByteOf
  <2>7. /\ s[f].len - k = L /\ f + 1 = n + 2 /\ 1 + L + 1 = L + 2 /\ 1 + L = L + 1
        /\ \A d \in 0..L : k + d = d
    BY <1>2, <1>3, <2>6
  <2>8. \A d \in 0..L : 1 + d <= l /\ b[1 + d] = ByteOf(c, n + 1, d)
    BY <2>3, <2>6, <2>7
  <2>9. IF n + 1 < m THEN L + 2 <= l /\ b[L + 2] = ByteOf(c, n + 2, 0) ELSE L + 1 = l
    BY <2>3, <2>6, <2>7
  <2> QED
    BY <2>8, <2>9
<1>8. L + 1 <= l
  <2>1. L \in 0..L /\ 1 + L = L + 1
    BY <1>3
  <2> QED
    BY <1>7, <2>1
<1>9. PICK r : r = SubSeq(b, 2 + L, Len(b))
  OBVIOUS
<1>10. PICK a \in Nat : a = L + 1
  BY <1>3
<1>11. IsRest(r, b, a)
  <2>1. 2 + L = a + 1 /\ a <= Len(b)
    BY <1>3, <1>5, <1>8, <1>10
  <2>2. IsRest(SubSeq(b, a + 1, Len(b)), b, a)
    BY <1>4, <2>1, Rest
  <2> QED
    BY <1>9, <2>1, <2>2
<1>12. PICK h \in Nat : h = Len(r)
  BY <1>11 DEF IsRest
<1>13. r \in Seq(Byte) /\ h + a = l /\ \A i \in 1..h : r[i] = b[i + a]
  BY <1>5, <1>11, <1>12 DEF IsRest
<1>14. h + a = l
  BY <1>13
<1>15. n + 1 = m => r = <<>>
  <2>1. n + 1 = m => h = 0
    BY <1>3, <1>7, <1>10, <1>14
  <2> QED
    BY <1>12, <1>13, <2>1
<1>16. n + 1 < m => r # <<>> /\ r[1] = ByteOf(c, (n + 1) + 1, 0)
  <2> SUFFICES ASSUME n + 1 < m PROVE r # <<>> /\ r[1] = ByteOf(c, (n + 1) + 1, 0)
    OBVIOUS
  <2>1. L + 2 <= l /\ b[L + 2] = ByteOf(c, n + 2, 0)
    BY <1>7
  <2>2. 1 \in 1..h /\ 1 + a = L + 2 /\ (n + 1) + 1 = n + 2
    BY <1>3, <1>10, <1>14, <2>1
  <2>3. r[1] = b[L + 2]
    BY <1>13, <2>2
  <2> QED
    BY <1>12, <2>1, <2>2, <2>3
<1>17. ASSUME NEW i \in 1..h PROVE Continues(c, s, r, i, m)
  <2>1. PICK j \in Nat : j = i + a
    OBVIOUS
  <2>2. j \in 1..l
    BY <1>14, <2>1
  <2>3. Continues(c, s, b, j, m)
    BY <1>1, <1>5, <2>2 DEF Stream
  <2>4. PICK f \in 1..m : \E k \in 0..s[f].len :
          /\ \A d \in 0..s[f].len - k : j + d <= l /\ b[j + d] = ByteOf(c, f, k + d)
          /\ IF f < m
             THEN /\ j + (s[f].len - k) + 1 <= l
                  /\ b[j + (s[f].len - k) + 1] = ByteOf(c, f + 1, 0)
             ELSE j + (s[f].len - k) = l
    BY <1>5, <2>3 DEF Continues
  <2>5. PICK k \in 0..s[f].len :
          /\ \A d \in 0..s[f].len - k : j + d <= l /\ b[j + d] = ByteOf(c, f, k + d)
          /\ IF f < m
             THEN /\ j + (s[f].len - k) + 1 <= l
                  /\ b[j + (s[f].len - k) + 1] = ByteOf(c, f + 1, 0)
             ELSE j + (s[f].len - k) = l
    BY <2>4
  <2>6. PICK e \in Nat : e = s[f].len - k
    <3>1. f \in 1..Len(s)
      BY <1>1
    <3>2. s[f].len \in Nat
      BY <3>1, FrameLen, MaxBodyNat
    <3> QED
      BY <3>2
  <2>7. ASSUME NEW d \in 0..e PROVE i + d <= h /\ r[i + d] = ByteOf(c, f, k + d)
    <3>1. j + d <= l /\ b[j + d] = ByteOf(c, f, k + d)
      BY <2>5, <2>6
    <3>2. j + d <= l
      BY <3>1
    <3>3. i + d \in 1..h /\ (i + d) + a = j + d
      BY <1>14, <2>1, <3>2
    <3>4. PICK x \in 1..h : x = i + d /\ x + a = j + d
      BY <3>3
    <3>5. r[x] = b[x + a]
      BY <1>13
    <3>6. x <= h
      OBVIOUS
    <3> QED
      BY <3>1, <3>4, <3>5, <3>6
  <2>8. IF f < m THEN i + e + 1 <= h /\ r[i + e + 1] = ByteOf(c, f + 1, 0)
                 ELSE i + e = h
    <3>1. CASE f < m
      <4>1. j + e + 1 <= l /\ b[j + e + 1] = ByteOf(c, f + 1, 0)
        BY <2>5, <2>6, <3>1
      <4>2. j + e + 1 <= l
        BY <4>1
      <4>3. i + e + 1 \in 1..h /\ (i + e + 1) + a = j + e + 1
        BY <1>14, <2>1, <4>2
      <4>4. PICK x \in 1..h : x = i + e + 1 /\ x + a = j + e + 1
        BY <4>3
      <4>5. r[x] = b[x + a]
        BY <1>13
      <4>6. x <= h
        OBVIOUS
      <4> QED
        BY <3>1, <4>1, <4>4, <4>5, <4>6
    <3>2. CASE ~(f < m)
      <4>1. j + e = l
        BY <2>5, <2>6, <3>2
      <4>2. i + e = h
        BY <1>14, <2>1, <4>1
      <4> QED
        BY <3>2, <4>2
    <3> QED
      BY <3>1, <3>2
  <2> QED
    BY <1>12, <2>6, <2>7, <2>8 DEF Continues
<1>18. Stream(c, s, r, n + 1, m)
  BY <1>12, <1>13, <1>15, <1>16, <1>17 DEF Stream
<1>19. 1 + L <= Len(b)
  BY <1>3, <1>5, <1>8
<1>20. BeginsWith(c, s, b, n, L)
  BY <1>1, <1>3, <1>7, <1>9, <1>18, <1>19 DEF BeginsWith
<1> QED
  BY <1>2, <1>20

-----------------------------------------------------------------------------
(* Chunks and frames                                                       *)

(* Moving bytes from the wire to the buffer leaves their order.            *)
ChunkMoves(r, w, n) ==
  /\ r \o SubSeq(w, 1, n) \in Seq(Byte)
  /\ SubSeq(w, n + 1, Len(w)) \in Seq(Byte)
  /\ (r \o SubSeq(w, 1, n)) \o SubSeq(w, n + 1, Len(w)) = r \o w

LEMMA Rechunk ==
  ASSUME NEW r \in Seq(Byte), NEW w \in Seq(Byte), NEW n \in 1..Len(w)
  PROVE  ChunkMoves(r, w, n)
<1>1. PICK x, y : x = SubSeq(w, 1, n) /\ y = SubSeq(w, n + 1, Len(w))
  OBVIOUS
<1>2. PICK p \in Nat, l \in Nat : p = Len(r) /\ l = Len(w)
  OBVIOUS
<1>3. n \in Nat /\ 1 <= n /\ n <= l
  BY <1>2
<1>4. x \in Seq(Byte) /\ Len(x) = n /\ \A i \in 1..n : x[i] = w[i]
  <2>1. \A i \in 1..n : w[i] \in Byte
    BY <1>2, <1>3
  <2>2. /\ x \in Seq(Byte) /\ Len(x) = (IF 1 <= n THEN n - 1 + 1 ELSE 0)
        /\ \A i \in 1..n - 1 + 1 : x[i] = w[1 + i - 1]
    BY <1>1, <1>3, <2>1, SubSeqProperties
  <2>3. n - 1 + 1 = n /\ \A i \in 1..n : 1 + i - 1 = i
    BY <1>3
  <2> QED
    BY <1>3, <2>2, <2>3
<1>5. IsRest(y, w, n)
  <2>1. IsRest(SubSeq(w, n + 1, Len(w)), w, n)
    BY <1>2, <1>3, Rest
  <2> QED
    BY <1>1, <2>1
<1>6. PICK k \in Nat : k = Len(y)
  BY <1>5 DEF IsRest
<1>7. y \in Seq(Byte) /\ k + n = l /\ \A i \in 1..k : y[i] = w[i + n]
  BY <1>2, <1>5, <1>6 DEF IsRest
<1>8. k + n = l
  BY <1>7
<1>9. PICK u : u = r \o x
  OBVIOUS
<1>10. /\ u \in Seq(Byte) /\ Len(u) = p + n
      /\ \A i \in 1..p + n : u[i] = IF i <= p THEN r[i] ELSE x[i - p]
  <2>1. IsConcat(r \o x, r, x)
    BY <1>4, Concat
  <2> QED
    BY <1>2, <1>4, <1>9, <2>1 DEF IsConcat
<1>11. PICK q \in Nat : q = p + n
  BY <1>3
<1>12. PICK h \in Nat : h = q + k
  OBVIOUS
<1>13. /\ u \o y \in Seq(Byte) /\ Len(u \o y) = h
       /\ \A i \in 1..h : (u \o y)[i] = IF i <= q THEN u[i] ELSE y[i - q]
  <2>1. u \in Seq(Byte) /\ Len(u) = q /\ y \in Seq(Byte) /\ Len(y) = k
    BY <1>6, <1>7, <1>10, <1>11
  <2>2. IsConcat(u \o y, u, y)
    BY <2>1, Concat
  <2> QED
    BY <1>12, <2>1, <2>2 DEF IsConcat
<1>14. /\ r \o w \in Seq(Byte) /\ Len(r \o w) = h
       /\ \A i \in 1..h : (r \o w)[i] = IF i <= p THEN r[i] ELSE w[i - p]
  <2>1. h = p + l
    BY <1>8, <1>11, <1>12
  <2>2. IsConcat(r \o w, r, w)
    BY Concat
  <2> QED
    BY <1>2, <2>1, <2>2 DEF IsConcat
<1>15. ASSUME NEW i \in 1..h PROVE (u \o y)[i] = (r \o w)[i]
  <2>1. CASE i <= p
    <3>1. i <= q /\ i \in 1..p + n
      BY <1>3, <1>11, <2>1
    <3> QED
      BY <1>10, <1>13, <1>14, <2>1, <3>1
  <2>2. CASE ~(i <= p) /\ i <= q
    <3>1. PICK d \in 1..n : d = i - p
      BY <1>3, <1>11, <2>2
    <3>2. (u \o y)[i] = u[i] /\ (r \o w)[i] = w[d]
      BY <1>13, <1>14, <2>2, <3>1
    <3>3. i \in 1..p + n
      BY <1>11, <2>2
    <3>4. u[i] = x[d]
      BY <1>10, <2>2, <3>1, <3>3
    <3> QED
      BY <1>4, <3>2, <3>4
  <2>3. CASE ~(i <= q)
    <3>1. PICK d \in 1..k : d = i - q /\ d + n = i - p
      BY <1>3, <1>11, <1>12, <2>3
    <3>2. ~(i <= p)
      BY <1>3, <1>11, <2>3
    <3>3. (u \o y)[i] = y[d] /\ (r \o w)[i] = w[d + n]
      BY <1>13, <1>14, <2>3, <3>1, <3>2
    <3> QED
      BY <1>7, <3>3
  <2> QED
    BY <2>1, <2>2, <2>3
<1>16. u \o y = r \o w
  BY <1>13, <1>14, <1>15, SeqEqual
<1> QED
  BY <1>1, <1>7, <1>9, <1>10, <1>16 DEF ChunkMoves

(* Dropping bytes of the buffer leaves what is behind it.                  *)
RestStays(r, w, a) ==
  /\ SubSeq(r, a + 1, Len(r)) \in Seq(Byte)
  /\ SubSeq(r, a + 1, Len(r)) \o w = SubSeq(r \o w, a + 1, Len(r \o w))

LEMMA RestBefore ==
  ASSUME NEW r \in Seq(Byte), NEW w \in Seq(Byte), NEW a \in Nat, a <= Len(r)
  PROVE  RestStays(r, w, a)
<1>1. PICK b : b = r \o w
  OBVIOUS
<1>2. PICK p \in Nat, q \in Nat : p = Len(r) /\ q = Len(w)
  OBVIOUS
<1>3. /\ b \in Seq(Byte) /\ Len(b) = p + q
      /\ \A i \in 1..p + q : b[i] = IF i <= p THEN r[i] ELSE w[i - p]
  <2>1. IsConcat(r \o w, r, w)
    BY Concat
  <2> QED
    BY <1>1, <1>2, <2>1 DEF IsConcat
<1>4. PICK x : x = SubSeq(r, a + 1, Len(r))
  OBVIOUS
<1>5. IsRest(x, r, a)
  <2>1. IsRest(SubSeq(r, a + 1, Len(r)), r, a)
    BY Rest
  <2> QED
    BY <1>4, <2>1
<1>6. PICK k \in Nat : k = Len(x)
  BY <1>5 DEF IsRest
<1>7. x \in Seq(Byte) /\ k + a = p /\ \A i \in 1..k : x[i] = r[i + a]
  BY <1>2, <1>6, <1>5 DEF IsRest
<1>8. PICK y : y = SubSeq(b, a + 1, Len(b))
  OBVIOUS
<1>9. IsRest(y, b, a)
  <2>1. a <= Len(b)
    BY <1>2, <1>3
  <2>2. IsRest(SubSeq(b, a + 1, Len(b)), b, a)
    BY <1>3, <2>1, Rest
  <2> QED
    BY <1>8, <2>2
<1>10. PICK h \in Nat : h = Len(y)
  BY <1>9 DEF IsRest
<1>11. y \in Seq(Byte) /\ h + a = p + q /\ \A i \in 1..h : y[i] = b[i + a]
  BY <1>3, <1>9, <1>10 DEF IsRest
<1>12. k + a = p /\ h + a = p + q /\ h = k + q
  <2>1. k + a = p
    BY <1>7
  <2>2. h + a = p + q
    BY <1>11
  <2> QED
    BY <2>1, <2>2
<1>13. /\ x \o w \in Seq(Byte) /\ Len(x \o w) = h
      /\ \A i \in 1..h : (x \o w)[i] = IF i <= k THEN x[i] ELSE w[i - k]
  <2>1. x \in Seq(Byte) /\ Len(x) = k /\ Len(w) = q
    BY <1>2, <1>6, <1>7
  <2>2. IsConcat(x \o w, x, w)
    BY <2>1, Concat
  <2> QED
    BY <1>12, <2>1, <2>2 DEF IsConcat
<1>14. ASSUME NEW i \in 1..h PROVE (x \o w)[i] = y[i]
  <2>1. PICK j : j = i + a /\ j \in 1..p + q
    BY <1>12
  <2>2. y[i] = b[j]
    BY <1>11, <2>1
  <2>3. CASE i <= k
    <3>1. j <= p /\ i \in 1..k
      BY <1>12, <2>1, <2>3
    <3>2. (x \o w)[i] = x[i] /\ x[i] = r[j] /\ b[j] = r[j]
      BY <1>3, <1>7, <1>13, <2>1, <2>3, <3>1
    <3> QED
      BY <2>2, <3>2
  <2>4. CASE ~(i <= k)
    <3>1. ~(j <= p) /\ j - p = i - k
      BY <1>12, <2>1, <2>4
    <3>2. (x \o w)[i] = w[i - k] /\ b[j] = w[j - p]
      BY <1>3, <1>13, <2>1, <2>4, <3>1
    <3> QED
      BY <2>2, <3>1, <3>2
  <2> QED
    BY <2>3, <2>4
<1>15. x \o w = y
  <2>1. PICK z : z = x \o w
    OBVIOUS
  <2>2. z \in Seq(Byte) /\ Len(z) = h /\ \A i \in 1..h : z[i] = y[i]
    BY <1>13, <1>14, <2>1
  <2>3. y \in Seq(Byte) /\ Len(y) = h
    BY <1>10, <1>11
  <2>4. z = y
    BY <2>2, <2>3, SeqEqual
  <2> QED
    BY <2>1, <2>4
<1> QED
  BY <1>1, <1>4, <1>7, <1>8, <1>15 DEF RestStays

-----------------------------------------------------------------------------
(* The buffer of an open connection begins with the frame that comes next, *)
(* its length prefix included.                                             *)
LEMMA HeadOfBuffer ==
  ASSUME NEW c \in Conn, IInv, ~closed[c], recv_buff # <<>>, First.conn = c,
         NEW n, n = Len(log[c])
  PROVE  /\ n \in Nat /\ n + 1 \in 1..Len(sent[c]) /\ n + 1 \in 1..MaxFrames
         /\ First = ByteOf(c, n + 1, 0)
         /\ FirstFrame = sent[c][n + 1]
         /\ Lengths = {FirstFrame.len} /\ FirstFrame.len \in 0..MaxBody
         /\ Stream(c, sent[c], recv_buff \o wire[c], n, Len(sent[c]))
<1>1. /\ c \in Conn /\ sent[c] \in Seq(Frame) /\ wire[c] \in Seq(Byte)
      /\ recv_buff \in Seq(Byte) /\ n \in Nat
  BY DEF IInv, TypeOK
<1>2. /\ Len(sent[c]) <= MaxFrames /\ n <= Len(sent[c])
      /\ Stream(c, sent[c], recv_buff \o wire[c], n, Len(sent[c]))
  <2>1. Mine(c) = recv_buff
    BY DEF Mine
  <2> QED
    BY <1>1, <2>1 DEF IInv, Ahead
<1>3. PICK m \in Nat : m = Len(sent[c])
  BY <1>1
<1>4. PICK l \in Nat : l = Len(recv_buff)
  BY <1>1
<1>5. l >= 1
  BY <1>1, <1>4
<1>6. PICK b : b = recv_buff \o wire[c]
  OBVIOUS
<1>7. b # <<>> /\ b[1] = recv_buff[1]
  <2>1. PICK q \in Nat : q = Len(wire[c])
    BY <1>1
  <2>2. /\ Len(b) = l + q
        /\ \A i \in 1..l + q : b[i] = IF i <= l THEN recv_buff[i] ELSE wire[c][i - l]
    <3>1. IsConcat(recv_buff \o wire[c], recv_buff, wire[c])
      BY <1>1, Concat
    <3> QED
      BY <1>4, <1>6, <2>1, <3>1 DEF IsConcat
  <2>3. 1 \in 1..l + q /\ 1 <= l /\ l + q # 0
    BY <1>5
  <2>4. b[1] = recv_buff[1]
    BY <2>2, <2>3
  <2>5. Len(<<>>) = 0
    OBVIOUS
  <2> QED
    BY <2>2, <2>3, <2>4, <2>5
<1>8. n < m
  <2>1. n = m => b = <<>>
    BY <1>2, <1>3, <1>6 DEF Stream
  <2> QED
    BY <1>1, <1>2, <1>3, <1>7, <2>1
<1>9. First = ByteOf(c, n + 1, 0)
  BY <1>2, <1>3, <1>6, <1>7, <1>8 DEF Stream, First
<1>10. n + 1 \in 1..m /\ n + 1 \in 1..MaxFrames
  BY <1>1, <1>2, <1>3, <1>8, MaxFramesNat
<1>11. FirstFrame = sent[c][n + 1] /\ Lengths = {FirstFrame.len}
  BY <1>9 DEF FirstFrame, Lengths, ByteOf
<1>12. FirstFrame.len \in 0..MaxBody
  BY <1>1, <1>3, <1>10, <1>11, FrameLen
<1> QED
  BY <1>1, <1>2, <1>3, <1>9, <1>10, <1>11, <1>12

(* When that frame is whole, its body follows and is read as what was      *)
(* sent; what is behind it is the stream of the frames after it.           *)
LEMMA FrameOfBuffer ==
  ASSUME NEW c \in Conn, IInv, ~closed[c], recv_buff # <<>>, First.conn = c,
         NEW n, n = Len(log[c]), NEW l, l \in Lengths, Whole(l)
  PROVE  /\ Readings(c, l) =
              {IF sent[c][n + 1].kind = "corrupt" /\ ~compressed[c]
               THEN "undecodable" ELSE sent[c][n + 1].kind}
         /\ SubSeq(recv_buff, 2 + l, Len(recv_buff)) \in Seq(Byte)
         /\ Stream(c, sent[c], SubSeq(recv_buff, 2 + l, Len(recv_buff)) \o wire[c],
                   n + 1, Len(sent[c]))
<1>1. /\ c \in Conn /\ sent[c] \in Seq(Frame) /\ wire[c] \in Seq(Byte)
      /\ recv_buff \in Seq(Byte) /\ compressed[c] = WrittenCompressed(c, n + 1)
  BY DEF IInv, TypeOK, Ahead
<1>2. /\ n \in Nat /\ n + 1 \in 1..Len(sent[c])
      /\ First = ByteOf(c, n + 1, 0)
      /\ FirstFrame = sent[c][n + 1] /\ l = FirstFrame.len /\ l \in 0..MaxBody
      /\ Stream(c, sent[c], recv_buff \o wire[c], n, Len(sent[c]))
  BY HeadOfBuffer
<1>3. PICK b : b = recv_buff \o wire[c]
  OBVIOUS
<1>4. PICK h \in Nat, q \in Nat : h = Len(recv_buff) /\ q = Len(wire[c])
  BY <1>1
<1>5. PICK m \in Nat : m = Len(sent[c])
  BY <1>1
<1>6. l \in Nat /\ 1 + l <= h
  BY <1>2, <1>4, MaxBodyNat DEF Whole
<1>7. PICK a \in Nat : a = 1 + l /\ 2 + l = a + 1 /\ a <= h
  BY <1>6
<1>8. /\ \A d \in 0..l : b[1 + d] = ByteOf(c, n + 1, d)
      /\ Stream(c, sent[c], SubSeq(b, 2 + l, Len(b)), n + 1, Len(sent[c]))
  <2>1. n < m
    BY <1>2, <1>5
  <2>2. n < Len(sent[c])
    BY <1>5, <2>1
  <2>3. BeginsWith(c, sent[c], b, n, sent[c][n + 1].len)
    <3>1. Stream(c, sent[c], b, n, Len(sent[c]))
      BY <1>2, <1>3
    <3>2. sent[c] \in Seq(Frame) /\ n \in Nat
      BY <1>1, <1>2
    <3> QED
      BY <1>1, <2>2, <3>1, <3>2, StreamCut
  <2>4. BeginsWith(c, sent[c], b, n, l)
    BY <1>2, <2>3
  <2> QED
    BY <2>4 DEF BeginsWith
<1>9. \A i \in 1..h : b[i] = recv_buff[i]
  <2>1. \A i \in 1..h + q : b[i] = IF i <= h THEN recv_buff[i] ELSE wire[c][i - h]
    <3>1. IsConcat(recv_buff \o wire[c], recv_buff, wire[c])
      BY <1>1, Concat
    <3> QED
      BY <1>3, <1>4, <3>1 DEF IsConcat
  <2>2. ASSUME NEW i \in 1..h PROVE i \in 1..h + q /\ i <= h
    OBVIOUS
  <2> QED
    BY <2>1, <2>2
<1>10. Intact(l)
  <2>1. ASSUME NEW k \in 1..l PROVE recv_buff[k + 1] = [First EXCEPT !.at = k]
    <3>1. PICK i \in 1..h : i = k + 1 /\ i = 1 + k
      BY <1>6
    <3>2. k \in 0..l
      BY <1>6
    <3>3. b[i] = ByteOf(c, n + 1, k)
      BY <1>8, <3>1, <3>2
    <3>4. [First EXCEPT !.at = k] = ByteOf(c, n + 1, k)
      BY <1>2 DEF ByteOf
    <3> QED
      BY <1>9, <3>1, <3>3, <3>4
  <2>2. First.at = 0
    BY <1>2 DEF ByteOf
  <2> QED
    BY <2>1, <2>2 DEF Intact
<1>11. First.conn = c /\ First.frame = n + 1
  BY <1>2 DEF ByteOf
<1>12. /\ SubSeq(recv_buff, 2 + l, Len(recv_buff)) \in Seq(Byte)
       /\ SubSeq(recv_buff, 2 + l, Len(recv_buff)) \o wire[c] = SubSeq(b, 2 + l, Len(b))
  <2>1. a <= Len(recv_buff)
    BY <1>4, <1>7
  <2>2. RestStays(recv_buff, wire[c], a)
    BY <1>1, <2>1, RestBefore
  <2> QED
    BY <1>3, <1>7, <2>2 DEF RestStays
<1> QED
  BY <1>1, <1>2, <1>8, <1>10, <1>11, <1>12 DEF Readings

-----------------------------------------------------------------------------
(* The steps                                                               *)

(* A step of c leaves the others as they are, if only c has or had bytes   *)
(* in the buffer.                                                          *)
LEMMA OthersAhead ==
  ASSUME IInv, NEW c \in Conn, NEW d \in Conn, c # d,
         OwnedBy(recv_buff, c), recv_buff' \in Seq(Byte), OwnedBy(recv_buff', c),
         sent' = sent, wire'[d] = wire[d], closed'[d] = closed[d],
         compressed'[d] = compressed[d], log'[d] = log[d]
  PROVE  Ahead(d)'
<1>1. Mine(d) = <<>>
  BY DEF IInv, TypeOK, OwnedBy, Mine, First
<1>2. Mine(d)' = <<>>
  BY DEF OwnedBy, Mine, First
<1> QED
  BY <1>1, <1>2 DEF IInv, Ahead, WrittenCompressed

LEMMA OwnersBuffer ==
  ASSUME NEW c \in Conn, IInv, OwnedBy(recv_buff, c)
  PROVE  Mine(c) = recv_buff /\ (recv_buff # <<>> => First.conn = c)
BY DEF IInv, TypeOK, OwnedBy, Mine, First

(* A stream has bytes of its own connection only.                          *)
LEMMA StreamOwned ==
  ASSUME NEW c, NEW s, s \in Seq(Frame), NEW b, NEW n, NEW m \in Nat, m = Len(s),
         Stream(c, s, b, n, m)
  PROVE  OwnedBy(b, c)
<1> SUFFICES ASSUME NEW i \in 1..Len(b) PROVE b[i].conn = c
  BY DEF OwnedBy
<1>1. PICK f \in 1..m : \E k \in 0..s[f].len :
        \A d \in 0..s[f].len - k : i + d <= Len(b) /\ b[i + d] = ByteOf(c, f, k + d)
  BY DEF Stream, Continues
<1>2. PICK k \in 0..s[f].len :
        \A d \in 0..s[f].len - k : i + d <= Len(b) /\ b[i + d] = ByteOf(c, f, k + d)
  BY <1>1
<1>3. s[f].len \in Nat
  BY FrameLen, MaxBodyNat
<1>4. 0 \in 0..s[f].len - k /\ i + 0 = i
  BY <1>3
<1>5. b[i] = ByteOf(c, f, k + 0)
  BY <1>2, <1>4
<1> QED
  BY <1>5 DEF ByteOf

LEMMA ReceiveKeepsIInv ==
  ASSUME NEW c \in Conn, IInv, NEW n \in 1..Len(wire[c]), data_received(c, n), Apart
  PROVE  IInv'
<1> USE DEF IInv
<1>1. /\ sent[c] \in Seq(Frame) /\ wire[c] \in Seq(Byte)
      /\ recv_buff \in Seq(Byte)
  BY DEF TypeOK
<1>2. /\ running = None /\ ~closed[c]
      /\ running' = c /\ recv_buff' = recv_buff \o SubSeq(wire[c], 1, n)
      /\ wire' = [wire EXCEPT ![c] = SubSeq(wire[c], n + 1, Len(wire[c]))]
      /\ wire'[c] = SubSeq(wire[c], n + 1, Len(wire[c])) /\ DOMAIN wire' = Conn
      /\ UNCHANGED <<sent, compressed, closed, can_save, log>>
  BY <1>1 DEF data_received
<1>3. /\ recv_buff' \in Seq(Byte) /\ wire'[c] \in Seq(Byte)
      /\ recv_buff' \o wire'[c] = recv_buff \o wire[c]
  <2>1. ChunkMoves(recv_buff, wire[c], n)
    BY <1>1, Rechunk
  <2> QED
    BY <1>2, <2>1 DEF ChunkMoves
<1>4. OwnedBy(recv_buff, c) /\ Mine(c) = recv_buff
  <2>1. OwnedBy(recv_buff, c)
    BY <1>2, NoneIsNoConn DEF Apart, OwnedBy
  <2> QED
    BY <2>1, OwnersBuffer
<1>5. OwnedBy(recv_buff', c)
  <2>1. Stream(c, sent[c], recv_buff' \o wire'[c], Len(log[c]), Len(sent[c]))
    BY <1>2, <1>3, <1>4 DEF Ahead
  <2>2. PICK b : b = recv_buff' \o wire'[c]
    OBVIOUS
  <2>3. OwnedBy(b, c)
    BY <1>1, <2>1, <2>2, StreamOwned
  <2>4. PICK p \in Nat, q \in Nat : p = Len(recv_buff') /\ q = Len(wire'[c])
    BY <1>3
  <2>5. Len(b) = p + q /\ \A i \in 1..p + q : b[i] = IF i <= p THEN recv_buff'[i] ELSE wire'[c][i - p]
    <3>1. IsConcat(recv_buff' \o wire'[c], recv_buff', wire'[c])
      BY <1>3, Concat
    <3> QED
      BY <2>2, <2>4, <3>1 DEF IsConcat
  <2>6. ASSUME NEW k \in 1..p PROVE recv_buff'[k].conn = c
    <3>1. k \in 1..p + q /\ k <= p
      OBVIOUS
    <3> QED
      BY <2>3, <2>5, <3>1 DEF OwnedBy
  <2> QED
    BY <2>4, <2>6 DEF OwnedBy
<1>6. Mine(c)' = recv_buff'
  BY <1>3, <1>5 DEF OwnedBy, Mine, First
<1>7. TypeOK'
  <2>1. \A d \in Conn : wire'[d] \in Seq(Byte)
    BY <1>2, <1>3 DEF TypeOK
  <2> QED
    BY <1>1, <1>2, <1>3, <2>1 DEF TypeOK
<1>8. ASSUME NEW d \in Conn PROVE Ahead(d)'
  <2>1. CASE d = c
    BY <1>1, <1>2, <1>3, <1>4, <1>6, <2>1 DEF Ahead, WrittenCompressed
  <2>2. CASE d # c
    BY <1>2, <1>3, <1>4, <1>5, <2>2, OthersAhead
  <2> QED
    BY <2>1, <2>2
<1>9. InOrder' /\ OwnPackets'
  BY <1>2 DEF InOrder, OwnPackets
<1>10. Drained'
  BY <1>1, <1>2, NoneIsNoConn DEF Drained
<1> QED
  BY <1>2, <1>5, <1>7, <1>8, <1>9, <1>10

(* A frame handed on is the next one, and its own connection's.            *)
LEMMA LoggedNext ==
  ASSUME NEW c \in Conn, IInv, NEW n, n = Len(log[c]), n \in Nat,
         n + 1 \in 1..MaxFrames, First = ByteOf(c, n + 1, 0),
         NEW how \in {"received", "failed"}, Logged(c, how), UNCHANGED sent,
         how = "received" <=> sent[c][n + 1].kind \notin {"undecodable", "corrupt"}
  PROVE  /\ DOMAIN log' = Conn /\ Len(log'[c]) = n + 1
         /\ \A d \in Conn \ {c} : log'[d] = log[d]
         /\ log'[c] \in Seq([conn : Conn, frame : 1..MaxFrames, how : {"received", "failed"}])
         /\ InOrder' /\ OwnPackets'
<1>1. DOMAIN log = Conn
  BY DEF IInv
<1>2. PICK T : T = [conn : Conn, frame : 1..MaxFrames, how : {"received", "failed"}]
  OBVIOUS
<1>3. PICK e : e = [conn |-> First.conn, frame |-> First.frame, how |-> how]
  OBVIOUS
<1>4. e \in T /\ e.frame = n + 1 /\ e.how = how /\ e.conn = c
  BY <1>1, <1>2, <1>3 DEF ByteOf
<1>5. log[c] \in Seq(T)
  BY <1>1, <1>2 DEF IInv, TypeOK
<1>6. log' = [log EXCEPT ![c] = Append(log[c], e)]
  BY <1>1, <1>3 DEF Logged
<1>7. /\ DOMAIN log' = Conn /\ log'[c] = Append(log[c], e)
      /\ \A d \in Conn \ {c} : log'[d] = log[d]
  BY <1>1, <1>6
<1>8. /\ log'[c] \in Seq(T) /\ Len(log'[c]) = n + 1
      /\ \A i \in 1..n + 1 : log'[c][i] = IF i = n + 1 THEN e ELSE log[c][i]
  BY <1>4, <1>5, <1>7
<1>9. ASSUME NEW i \in 1..n + 1
      PROVE  /\ log'[c][i].frame = i /\ log'[c][i].conn = c
             /\ log'[c][i].how = "received" <=> sent[c][i].kind \notin {"undecodable", "corrupt"}
  <2>1. CASE i = n + 1
    BY <1>4, <1>8, <2>1
  <2>2. CASE i # n + 1
    <3>1. i \in 1..n
      BY <2>2
    <3>2. i \in DOMAIN log[c]
      BY <1>5, <3>1
    <3>3. log'[c][i] = log[c][i]
      BY <1>8, <2>2
    <3> QED
      BY <1>1, <3>2, <3>3 DEF IInv, InOrder, OwnPackets
  <2> QED
    BY <2>1, <2>2
<1>10. DOMAIN log'[c] = 1..n + 1
  BY <1>8
<1>11. ASSUME NEW d \in Conn, NEW i \in DOMAIN log'[d]
       PROVE  /\ log'[d][i].frame = i /\ log'[d][i].conn = d
              /\ log'[d][i].how = "received" <=> sent'[d][i].kind \notin {"undecodable", "corrupt"}
  <2>1. CASE d = c
    BY <1>9, <1>10, <2>1
  <2>2. CASE d # c
    BY <1>7, <2>2 DEF IInv, InOrder, OwnPackets
  <2> QED
    BY <2>1, <2>2
<1>12. InOrder' /\ OwnPackets'
  BY <1>11 DEF InOrder, OwnPackets
<1> QED
  BY <1>2, <1>7, <1>8, <1>12

(* What is left of a buffer of c's bytes are c's bytes.                    *)
LEMMA RestOwned ==
  ASSUME NEW c, NEW l \in Nat, recv_buff \in Seq(Byte), OwnedBy(recv_buff, c), Whole(l),
         NEW x, x = SubSeq(recv_buff, 2 + l, Len(recv_buff))
  PROVE  OwnedBy(x, c)
<1>1. PICK a \in Nat : a = 1 + l /\ 2 + l = a + 1 /\ a <= Len(recv_buff)
  BY DEF Whole
<1>2. IsRest(x, recv_buff, a)
  <2>1. IsRest(SubSeq(recv_buff, a + 1, Len(recv_buff)), recv_buff, a)
    BY <1>1, Rest
  <2> QED
    BY <1>1, <2>1
<1>3. PICK h \in Nat : h = Len(recv_buff)
  OBVIOUS
<1>4. PICK k \in Nat : k = Len(x)
  BY <1>2 DEF IsRest
<1>5. k + a = h /\ \A i \in 1..k : x[i] = recv_buff[i + a]
  BY <1>2, <1>3, <1>4 DEF IsRest
<1>6. ASSUME NEW i \in 1..k PROVE x[i].conn = c
  <2>1. i + a \in 1..h
    BY <1>5
  <2> QED
    BY <1>3, <1>5, <2>1 DEF OwnedBy
<1> QED
  BY <1>4, <1>6 DEF OwnedBy

(* The format changes with the frame that says so.                         *)
LEMMA WrittenCompressedStep ==
  ASSUME NEW c, NEW n \in Nat
  PROVE  WrittenCompressed(c, n + 2) <=>
           WrittenCompressed(c, n + 1) \/ sent[c][n + 1].kind = "compress"
<1>1. 1..(n + 2) - 1 = (1..(n + 1) - 1) \cup {n + 1}
  OBVIOUS
<1> QED
  BY <1>1 DEF WrittenCompressed

LEMMA PacketKeepsIInv ==
  ASSUME NEW c \in Conn, IInv, NEW l \in 0..MaxBody, NEW kind \in Kinds,
         packet_received(c, l, kind)
  PROVE  IInv'
<1>1. /\ sent[c] \in Seq(Frame) /\ wire[c] \in Seq(Byte)
      /\ running = c /\ ~closed[c] /\ recv_buff # <<>> /\ l \in Lengths /\ Whole(l)
      /\ recv_buff' = SubSeq(recv_buff, 2 + l, Len(recv_buff))
      /\ kind \in {"packet", "compress", "close", "raise"} /\ kind \in Readings(c, l)
      /\ Logged(c, "received")
      /\ compressed' = [compressed EXCEPT ![c] = compressed[c] \/ kind = "compress"]
      /\ closed' = [closed EXCEPT ![c] = kind \in {"close", "raise"}]
      /\ running' = IF kind = "raise" THEN None ELSE running
      /\ UNCHANGED <<sent, wire, can_save>>
  <2>1. /\ sent[c] \in Seq(Frame) /\ wire[c] \in Seq(Byte)
        /\ compressed \in [Conn -> BOOLEAN]
    BY DEF IInv, TypeOK
  <2>2. compressed' = [compressed EXCEPT ![c] = compressed[c] \/ kind = "compress"]
    BY <2>1 DEF packet_received, set_compression
  <2> QED
    BY <2>1, <2>2 DEF packet_received, Looping, take
<1>2. PICK n : n = Len(log[c])
  OBVIOUS
<1>3. OwnedBy(recv_buff, c) /\ First.conn = c
  BY <1>1, OwnersBuffer DEF IInv
<1>4. OwnedBy(recv_buff', c)
  <2>1. l \in Nat /\ recv_buff \in Seq(Byte)
    BY MaxBodyNat DEF IInv, TypeOK
  <2>2. PICK x : x = recv_buff'
    OBVIOUS
  <2>3. x = SubSeq(recv_buff, 2 + l, Len(recv_buff)) /\ Whole(l)
    BY <1>1, <2>2
  <2>4. OwnedBy(x, c)
    BY <1>3, <2>1, <2>3, RestOwned
  <2> QED
    BY <2>2, <2>4
<1>5. /\ n \in Nat /\ n + 1 \in 1..Len(sent[c]) /\ n + 1 \in 1..MaxFrames
      /\ First = ByteOf(c, n + 1, 0)
  BY <1>1, <1>2, <1>3, HeadOfBuffer
<1>6. /\ Readings(c, l) =
           {IF sent[c][n + 1].kind = "corrupt" /\ ~compressed[c]
            THEN "undecodable" ELSE sent[c][n + 1].kind}
      /\ recv_buff' \in Seq(Byte)
      /\ Stream(c, sent[c], recv_buff' \o wire[c], n + 1, Len(sent[c]))
  BY <1>1, <1>2, <1>3, FrameOfBuffer
<1>7. kind = sent[c][n + 1].kind
  BY <1>1, <1>6
<1>8. /\ DOMAIN log' = Conn /\ Len(log'[c]) = n + 1
      /\ \A d \in Conn \ {c} : log'[d] = log[d]
      /\ log'[c] \in Seq([conn : Conn, frame : 1..MaxFrames, how : {"received", "failed"}])
      /\ InOrder' /\ OwnPackets'
  <2>1. sent[c][n + 1].kind \notin {"undecodable", "corrupt"}
    BY <1>1, <1>7
  <2> QED
    BY <1>1, <1>2, <1>5, <2>1, LoggedNext
<1>9. TypeOK'
  <2>1. /\ compressed' \in [Conn -> BOOLEAN] /\ closed' \in [Conn -> BOOLEAN]
        /\ running' \in Conn \cup {None} /\ can_save' \in BOOLEAN
    BY <1>1 DEF IInv, TypeOK
  <2>2. n + 1 <= MaxFrames
    BY <1>5
  <2>3. /\ \A d \in Conn : sent'[d] \in Seq(Frame) /\ wire'[d] \in Seq(Byte)
        /\ recv_buff' \in Seq(Byte)
    BY <1>1, <1>6 DEF IInv, TypeOK
  <2>4. ASSUME NEW d \in Conn
        PROVE  /\ Len(log'[d]) <= MaxFrames
               /\ log'[d] \in Seq([conn : Conn, frame : 1..MaxFrames, how : {"received", "failed"}])
    <3>1. CASE d = c
      BY <1>8, <2>2, <3>1
    <3>2. CASE d # c
      BY <1>8, <3>2 DEF IInv, TypeOK
    <3> QED
      BY <3>1, <3>2
  <2> QED
    BY <2>1, <2>3, <2>4 DEF TypeOK
<1>10. Mine(c)' = recv_buff'
  BY <1>6, <1>4 DEF OwnedBy, Mine, First
<1>11. Ahead(c)'
  <2>1. Len(sent[c]) <= MaxFrames /\ compressed[c] = WrittenCompressed(c, n + 1)
    BY <1>1, <1>2 DEF IInv, Ahead
  <2>2. compressed'[c] = (compressed[c] \/ kind = "compress")
    BY <1>1 DEF IInv, TypeOK
  <2>3. (WrittenCompressed(c, n + 2) <=> WrittenCompressed(c, n + 1) \/ kind = "compress")
    BY <1>5, <1>7, WrittenCompressedStep
  <2>4. compressed'[c] = WrittenCompressed(c, n + 2)
    BY <2>1, <2>2, <2>3 DEF WrittenCompressed
  <2>5. (n + 1) + 1 = n + 2 /\ n + 1 <= Len(sent[c])
    BY <1>5
  <2>6. WrittenCompressed(c, n + 2)' = WrittenCompressed(c, n + 2)
    BY <1>1, <1>2 DEF WrittenCompressed
  <2> QED
    BY <1>1, <1>6, <1>8, <1>10, <2>1, <2>4, <2>5 DEF Ahead, WrittenCompressed
<1>12. ASSUME NEW d \in Conn, d # c PROVE Ahead(d)'
  <2>1. /\ sent' = sent /\ wire'[d] = wire[d] /\ closed'[d] = closed[d]
        /\ compressed'[d] = compressed[d] /\ log'[d] = log[d]
    BY <1>1, <1>8, <1>12 DEF IInv, TypeOK
  <2> QED
    BY <1>6, <1>3, <1>4, <1>12, <2>1, OthersAhead
<1>13. Drained'
  <2>1. kind = "raise" => closed'[c]
    BY <1>1 DEF IInv, TypeOK
  <2>2. recv_buff' # <<>> => First'.conn = c
    BY <1>6, <1>4 DEF OwnedBy, First
  <2> QED
    BY <1>1, <2>1, <2>2, NoneIsNoConn DEF Drained
<1>14. \A d \in Conn : running' = d => OwnedBy(recv_buff', d)
  BY <1>1, <1>4, NoneIsNoConn
<1>15. DOMAIN wire' = Conn
  BY <1>1 DEF IInv
<1> QED
  BY <1>8, <1>9, <1>11, <1>12, <1>13, <1>14, <1>15 DEF IInv

LEMMA FailKeepsIInv ==
  ASSUME NEW c \in Conn, IInv, NEW l \in 0..MaxBody, unpack_failed(c, l)
  PROVE  IInv'
<1>1. /\ sent[c] \in Seq(Frame) /\ wire[c] \in Seq(Byte)
      /\ running = c /\ ~closed[c] /\ recv_buff # <<>> /\ l \in Lengths /\ Whole(l)
      /\ recv_buff' = SubSeq(recv_buff, 2 + l, Len(recv_buff))
      /\ "undecodable" \in Readings(c, l)
      /\ UNCHANGED <<sent, wire, compressed, can_save>>
  BY DEF unpack_failed, Looping, take, IInv, TypeOK
<1>2. PICK n : n = Len(log[c])
  OBVIOUS
<1>3. OwnedBy(recv_buff, c) /\ First.conn = c
  BY <1>1, OwnersBuffer DEF IInv
<1>4. OwnedBy(recv_buff', c)
  <2>1. l \in Nat /\ recv_buff \in Seq(Byte)
    BY MaxBodyNat DEF IInv, TypeOK
  <2>2. PICK x : x = recv_buff'
    OBVIOUS
  <2>3. x = SubSeq(recv_buff, 2 + l, Len(recv_buff)) /\ Whole(l)
    BY <1>1, <2>2
  <2>4. OwnedBy(x, c)
    BY <1>3, <2>1, <2>3, RestOwned
  <2> QED
    BY <2>2, <2>4
<1>5. /\ n \in Nat /\ n + 1 \in 1..Len(sent[c]) /\ n + 1 \in 1..MaxFrames
      /\ First = ByteOf(c, n + 1, 0)
  BY <1>1, <1>2, <1>3, HeadOfBuffer
<1>6. /\ Readings(c, l) =
           {IF sent[c][n + 1].kind = "corrupt" /\ ~compressed[c]
            THEN "undecodable" ELSE sent[c][n + 1].kind}
      /\ recv_buff' \in Seq(Byte)
      /\ Stream(c, sent[c], recv_buff' \o wire[c], n + 1, Len(sent[c]))
  BY <1>1, <1>2, <1>3, FrameOfBuffer
<1>7. sent[c][n + 1].kind \in {"undecodable", "corrupt"}
  BY <1>1, <1>6
<1>8. DOMAIN wire' = Conn
  BY <1>1 DEF IInv
<1>9. Mine(c)' = recv_buff'
  BY <1>6, <1>4 DEF OwnedBy, Mine, First
<1>10. recv_buff' # <<>> => First'.conn = c
  BY <1>6, <1>4 DEF OwnedBy, First
<1>11. CASE can_save
  <2>1. Logged(c, "failed") /\ UNCHANGED <<closed, running>>
    BY <1>11 DEF unpack_failed
  <2>2. /\ DOMAIN log' = Conn /\ Len(log'[c]) = n + 1
        /\ \A d \in Conn \ {c} : log'[d] = log[d]
        /\ log'[c] \in Seq([conn : Conn, frame : 1..MaxFrames, how : {"received", "failed"}])
        /\ InOrder' /\ OwnPackets'
    BY <1>1, <1>2, <1>5, <1>7, <2>1, LoggedNext
  <2>3. TypeOK'
    <3>1. n + 1 <= MaxFrames
      BY <1>5
    <3>2. ASSUME NEW d \in Conn
          PROVE  /\ Len(log'[d]) <= MaxFrames
                 /\ log'[d] \in Seq([conn : Conn, frame : 1..MaxFrames, how : {"received", "failed"}])
      <4>1. CASE d = c
        BY <2>2, <3>1, <4>1
      <4>2. CASE d # c
        BY <2>2, <4>2 DEF IInv, TypeOK
      <4> QED
        BY <4>1, <4>2
    <3> QED
      BY <1>1, <1>6, <2>1, <3>2 DEF IInv, TypeOK
  <2>4. Ahead(c)'
    <3>1. Len(sent[c]) <= MaxFrames /\ compressed[c] = WrittenCompressed(c, n + 1)
      BY <1>1, <1>2 DEF IInv, Ahead
    <3>2. compressed[c] = WrittenCompressed(c, n + 2)
      BY <1>5, <1>7, <3>1, WrittenCompressedStep DEF WrittenCompressed
    <3>3. (n + 1) + 1 = n + 2 /\ n + 1 <= Len(sent[c])
      BY <1>5
    <3> QED
      BY <1>1, <1>6, <1>9, <2>2, <3>1, <3>2, <3>3 DEF Ahead, WrittenCompressed
  <2>5. ASSUME NEW d \in Conn, d # c PROVE Ahead(d)'
    <3>1. /\ sent' = sent /\ wire'[d] = wire[d] /\ closed'[d] = closed[d]
          /\ compressed'[d] = compressed[d] /\ log'[d] = log[d]
      BY <1>1, <2>1, <2>2, <2>5
    <3> QED
      BY <1>6, <1>3, <1>4, <2>5, <3>1, OthersAhead
  <2>6. Drained' /\ \A d \in Conn : running' = d => OwnedBy(recv_buff', d)
    BY <1>1, <1>4, <2>1, NoneIsNoConn DEF Drained
  <2> QED
    BY <1>8, <2>2, <2>3, <2>4, <2>5, <2>6 DEF IInv
<1>12. CASE ~can_save
  <2>1. closed' = [closed EXCEPT ![c] = TRUE] /\ running' = None /\ UNCHANGED log
    BY <1>12 DEF unpack_failed
  <2>2. TypeOK'
    BY <1>1, <1>6, <2>1 DEF IInv, TypeOK
  <2>3. closed'[c]
    BY <2>1 DEF IInv, TypeOK
  <2>4. Ahead(c)'
    BY <1>1, <2>3 DEF IInv, Ahead
  <2>5. ASSUME NEW d \in Conn, d # c PROVE Ahead(d)'
    <3>1. /\ sent' = sent /\ wire'[d] = wire[d] /\ closed'[d] = closed[d]
          /\ compressed'[d] = compressed[d] /\ log'[d] = log[d]
      BY <1>1, <2>1, <2>5 DEF IInv, TypeOK
    <3> QED
      BY <1>6, <1>3, <1>4, <2>5, <3>1, OthersAhead
  <2>6. InOrder' /\ OwnPackets'
    BY <1>1, <2>1 DEF IInv, InOrder, OwnPackets
  <2>7. Drained' /\ \A d \in Conn : running' = d => OwnedBy(recv_buff', d)
    BY <1>10, <2>1, <2>3, NoneIsNoConn DEF Drained
  <2> QED
    BY <1>8, <2>1, <2>2, <2>4, <2>5, <2>6, <2>7 DEF IInv
<1> QED
  BY <1>11, <1>12

(* The loop stops only where nothing whole is left to hand on.             *)
LEMMA LeaveKeepsIInv ==
  ASSUME NEW c \in Conn, IInv, leave_loop(c) PROVE IInv'
<1>1. /\ running = c /\ running' = None /\ (closed[c] \/ MustWait(c))
      /\ UNCHANGED <<sent, wire, recv_buff, compressed, closed, can_save, log>>
  BY DEF leave_loop
<1>2. TypeOK'
  BY <1>1 DEF IInv, TypeOK
<1>3. \A d \in Conn : Ahead(d)'
  BY <1>1 DEF IInv, Ahead, WrittenCompressed, Mine, First
<1>4. InOrder' /\ OwnPackets'
  BY <1>1 DEF IInv, InOrder, OwnPackets
<1>5. Drained'
  <2>1. recv_buff # <<>> => First.conn = c
    BY <1>1, OwnersBuffer DEF IInv
  <2>2. CASE closed[c]
    BY <1>1, <2>1, <2>2 DEF Drained, First
  <2>3. CASE ~closed[c] /\ recv_buff # <<>>
    <3>1. PICK l \in Lengths : Whole(l) => "corrupt" \in Readings(c, l)
      BY <1>1, <2>3 DEF MustWait
    <3>2. PICK n : n = Len(log[c])
      OBVIOUS
    <3>3. FirstFrame = sent[c][n + 1] /\ l = FirstFrame.len
      BY <2>1, <2>3, <3>2, HeadOfBuffer
    <3>4. Whole(FirstFrame.len) => FirstFrame.kind = "corrupt" /\ compressed[c]
      <4>1. ASSUME Whole(l) PROVE FirstFrame.kind = "corrupt" /\ compressed[c]
        BY <2>1, <2>3, <3>1, <3>2, <3>3, <4>1, FrameOfBuffer
      <4> QED
        BY <3>3, <4>1
    <3> QED
      BY <1>1, <2>1, <2>3, <3>4 DEF Drained, Whole, FirstFrame, First
  <2>4. CASE recv_buff = <<>>
    BY <1>1, <2>4 DEF Drained
  <2> QED
    BY <2>2, <2>3, <2>4
<1>6. /\ DOMAIN wire' = Conn /\ DOMAIN log' = Conn
      /\ \A d \in Conn : running' = d => OwnedBy(recv_buff', d)
  BY <1>1, NoneIsNoConn DEF IInv
<1> QED
  BY <1>2, <1>3, <1>4, <1>5, <1>6 DEF IInv

LEMMA CloseKeepsIInv ==
  ASSUME NEW c \in Conn, IInv, close(c) PROVE IInv'
<1>1. /\ running = None /\ closed' = [closed EXCEPT ![c] = TRUE]
      /\ UNCHANGED <<sent, wire, recv_buff, running, compressed, can_save, log>>
  BY DEF close
<1>2. /\ TypeOK' /\ closed'[c]
      /\ \A d \in Conn \ {c} : closed'[d] = closed[d]
  BY <1>1 DEF IInv, TypeOK
<1>3. \A d \in Conn : Ahead(d)'
  BY <1>1, <1>2 DEF IInv, Ahead, WrittenCompressed, Mine, First
<1>4. InOrder' /\ OwnPackets'
  BY <1>1, <1>2 DEF IInv, InOrder, OwnPackets
<1>5. Drained'
  BY <1>1, <1>2 DEF IInv, Drained, Whole, FirstFrame, First
<1>6. \A d \in Conn : running' = d => OwnedBy(recv_buff', d)
  BY <1>1 DEF IInv
<1> QED
  BY <1>1, <1>2, <1>3, <1>4, <1>5, <1>6 DEF IInv

-----------------------------------------------------------------------------
LEMMA IInvInit ==
  ASSUME Init PROVE IInv
<1>1. /\ wire = [d \in Conn |-> BytesOf(d, sent[d])] /\ recv_buff = <<>> /\ running = None
      /\ compressed = [d \in Conn |-> FALSE] /\ closed = [d \in Conn |-> FALSE]
      /\ can_save \in BOOLEAN /\ log = [d \in Conn |-> <<>>]
  BY DEF Init
<1>2. ASSUME NEW c \in Conn
      PROVE  sent[c] \in Seq(Frame) /\ wire[c] \in Seq(Byte) /\ Ahead(c)
  <2>1. sent[c] \in Seq(Frame) /\ Len(sent[c]) <= MaxFrames
    <3>1. sent[c] \in SeqOf(Frame, MaxFrames)
      BY DEF Init
    <3>2. PICK m \in 0..MaxFrames : sent[c] \in [1..m -> Frame]
      BY <3>1 DEF SeqOf
    <3> QED
      BY <3>2, MaxFramesNat
  <2>2. wire[c] = BytesOf(c, sent[c]) /\ log[c] = <<>> /\ Len(log[c]) = 0 /\ ~compressed[c]
    BY <1>1
  <2>3. Stream(c, sent[c], wire[c], 0, Len(sent[c]))
    BY <2>1, <2>2, BytesStream
  <2>4. wire[c] \in Seq(Byte) /\ Mine(c) \o wire[c] = wire[c]
    <3>1. wire[c] \in Seq(Byte)
      BY <2>3 DEF Stream
    <3>2. Mine(c) = <<>>
      BY <1>1 DEF Mine
    <3> QED
      BY <3>1, <3>2, ConcatEmptySeq
  <2>5. ~WrittenCompressed(c, 0 + 1)
    BY DEF WrittenCompressed
  <2>6. compressed[c] = WrittenCompressed(c, 0 + 1)
    BY <1>1, <2>5 DEF WrittenCompressed
  <2> QED
    BY <2>1, <2>2, <2>3, <2>4, <2>6 DEF Ahead
<1>3. TypeOK
  BY <1>1, <1>2, MaxFramesNat DEF TypeOK
<1>4. InOrder /\ OwnPackets /\ Drained
  BY <1>1 DEF InOrder, OwnPackets, Drained
<1>5. \A c \in Conn : running = c => OwnedBy(recv_buff, c)
  BY <1>1, NoneIsNoConn
<1> QED
  BY <1>1, <1>2, <1>3, <1>4, <1>5 DEF IInv

LEMMA IInvStep ==
  ASSUME IInv, [Next]_vars, [Apart]_vars PROVE IInv'
<1>1. CASE Next /\ Apart
  <2>1. PICK c \in Conn : \/ \E n \in 1..Len(wire[c]) : data_received(c, n)
                          \/ iteration(c)
                          \/ close(c)
    BY <1>1 DEF Next
  <2>2. CASE \E n \in 1..Len(wire[c]) : data_received(c, n)
    BY <1>1, <2>2, ReceiveKeepsIInv
  <2>3. CASE \E l \in 0..MaxBody, kind \in Kinds : packet_received(c, l, kind)
    BY <2>3, PacketKeepsIInv
  <2>4. CASE \E l \in 0..MaxBody : unpack_failed(c, l)
    BY <2>4, FailKeepsIInv
  <2>5. CASE leave_loop(c)
    BY <2>5, LeaveKeepsIInv
  <2>6. CASE close(c)
    BY <2>6, CloseKeepsIInv
  <2> QED
    BY <2>1, <2>2, <2>3, <2>4, <2>5, <2>6 DEF iteration
<1>2. CASE UNCHANGED vars
  <2>1. UNCHANGED <<sent, wire, recv_buff, running, compressed, closed, can_save, log>>
    BY <1>2 DEF vars
  <2>2. TypeOK'
    BY <2>1 DEF IInv, TypeOK
  <2>3. /\ \A c \in Conn : Ahead(c)'
        /\ DOMAIN wire' = Conn /\ DOMAIN log' = Conn
        /\ \A c \in Conn : running' = c => OwnedBy(recv_buff', c)
    BY <2>1 DEF IInv, Ahead, WrittenCompressed, Mine, First
  <2>4. InOrder' /\ OwnPackets'
    BY <2>1 DEF IInv, InOrder, OwnPackets
  <2>5. Drained'
    BY <2>1 DEF IInv, Drained, Whole, FirstFrame, First
  <2> QED
    BY <2>2, <2>3, <2>4, <2>5 DEF IInv
<1> QED
  BY <1>1, <1>2

LEMMA Invariance == Spec /\ ApartChunks => []IInv
<1>1. Init => IInv
  BY IInvInit
<1>2. IInv /\ [Next]_vars /\ [Apart]_vars => IInv'
  BY IInvStep
<1> QED
  BY <1>1, <1>2, PTL DEF Spec, ApartChunks

(* The state of connections that share the buffer has the types it should  *)
(* have, and no frame is handed on that was not sent: there are never more *)
(* packet_received and unpack_failed calls than frames.                    *)
THEOREM TypeCorrect == Spec /\ ApartChunks => []TypeOK
<1>1. IInv => TypeOK
  BY DEF IInv
<1> QED
  BY <1>1, Invariance, PTL

(* Frames of any lengths, cut into any chunks, are handed on once each, in *)
(* order and in the format they were written in, whatever the handlers do: *)
(* data_received, unpack_data and set_compression.                         *)
THEOREM InOrderHolds == Spec /\ ApartChunks => []InOrder
<1>1. IInv => InOrder
  BY DEF IInv
<1> QED
  BY <1>1, Invariance, PTL

(* When data_received returns, no whole frame of an open connection that   *)
(* can be decompressed waits in the buffer.                                *)
THEOREM DrainedHolds == Spec /\ ApartChunks => []Drained
<1>1. IInv => Drained
  BY DEF IInv
<1> QED
  BY <1>1, Invariance, PTL

(* The shared buffer does harm only where a chunk arrives on top of what   *)
(* another connection left there: otherwise each connection hands on its   *)
(* own packets, as the docstring of packet_received has it.                *)
THEOREM OwnPacketsHold == Spec /\ ApartChunks => []OwnPackets
<1>1. IInv => OwnPackets
  BY DEF IInv
<1> QED
  BY <1>1, Invariance, PTL

(* A process with one connection needs no such care: whatever is in the    *)
(* buffer is its own.                                                      *)
THEOREM AloneIsApart == OneConn => (Spec => ApartChunks)
<1> SUFFICES ASSUME OneConn PROVE Spec => ApartChunks
  OBVIOUS
<1> DEFINE Bytes == recv_buff \in Seq(Byte) /\ \A c \in Conn : wire[c] \in Seq(Byte)
<1>1. Init => Bytes
  BY IInvInit DEF IInv, TypeOK
<1>2. Bytes /\ [Next]_vars => Bytes'
  <2> SUFFICES ASSUME Bytes, [Next]_vars PROVE Bytes'
    OBVIOUS
  <2>1. CASE UNCHANGED vars
    BY <2>1 DEF vars
  <2>2. ASSUME NEW c \in Conn, NEW n \in 1..Len(wire[c]), data_received(c, n) PROVE Bytes'
    <3>1. ChunkMoves(recv_buff, wire[c], n)
      BY Rechunk
    <3> QED
      BY <2>2, <3>1 DEF data_received, ChunkMoves
  <2>3. ASSUME NEW c \in Conn, NEW l \in 0..MaxBody, take(l) PROVE recv_buff' \in Seq(Byte)
    BY <2>3, MaxBodyNat DEF take
  <2>4. ASSUME NEW c \in Conn, iteration(c) \/ close(c) PROVE Bytes'
    BY <2>3, <2>4 DEF iteration, close, packet_received, unpack_failed, leave_loop
  <2> QED
    BY <2>1, <2>2, <2>4 DEF Next
<1>3. Bytes /\ [Next]_vars => [Apart]_vars
  <2> SUFFICES ASSUME Bytes, Next, running' # None,
                      NEW k \in 1..Len(recv_buff)
               PROVE  recv_buff[k].conn = running'
    BY DEF Apart
  <2>1. recv_buff[k] \in Byte
    OBVIOUS
  <2>2. running' \in Conn
    BY DEF Next, data_received, iteration, packet_received, unpack_failed, leave_loop, close,
       Looping
  <2> QED
    BY <2>1, <2>2 DEF Byte, OneConn
<1> QED
  BY <1>1, <1>2, <1>3, PTL DEF Spec, ApartChunks

(* In a process with one connection data_received hands on each frame      *)
(* once, in order, and leaves none behind, without any condition.          *)
THEOREM AloneHolds == OneConn => (Spec => [](TypeOK /\ InOrder /\ Drained))
<1> SUFFICES ASSUME OneConn PROVE Spec => [](TypeOK /\ InOrder /\ Drained)
  OBVIOUS
<1>1. Spec => ApartChunks
  BY AloneIsApart
<1> QED
  BY <1>1, TypeCorrect, InOrderHolds, DrainedHolds, PTL
=============================================================================
