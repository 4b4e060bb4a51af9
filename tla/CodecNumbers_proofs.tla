------------------------ MODULE CodecNumbers_proofs -------------------------
(***************************************************************************)
(* Proofs about the numbers of the codec, for every width: what was packed *)
(* is unpacked again, wherever it stands in a buffer, and the beginning of *)
(* a number is not taken for a number.                                     *)
(***************************************************************************)
EXTENDS CodecNumbers, SequenceTheorems, NumberLemmas

Byte == 0..(2^ByteBits - 1)

(* A buffer with no exception in flight                                    *)
Ready(data, pos, stack, val) ==
  [data |-> data, pos |-> pos, stack |-> stack, val |-> val, err |-> "none"]

-----------------------------------------------------------------------------
(* Parts of a buffer                                                       *)

LEMMA Widths ==
  /\ GroupBits \in Nat \ {0} /\ VarintBits \in Nat \ {0}
  /\ VarlongBits \in Nat \ {0} /\ MAX_VARNUM_LEN \in Nat \ {0}
  /\ ByteBits \in Nat \ {0}
  /\ VarintBits < VarlongBits /\ VarlongBits <= GroupBits * MAX_VARNUM_LEN
<1>1. GroupBits \in Nat \ {0} /\ VarintBits \in Nat \ {0} /\ VarlongBits \in Nat \ {0}
      /\ MAX_VARNUM_LEN \in Nat \ {0}
  BY WidthsNat
<1> QED
  BY <1>1, WidthsFit DEF ByteBits

LEMMA MinIs ==
  ASSUME NEW S \in SUBSET Int, NEW x \in S, \A y \in S : x <= y PROVE Min(S) = x
<1>1. \E z \in S : \A y \in S : z <= y
  OBVIOUS
<1>2. Min(S) \in S /\ \A y \in S : Min(S) <= y
  <2> DEFINE P(z) == z \in S /\ \A y \in S : z <= y
  <2>1. P(CHOOSE z : P(z))
    BY <1>1
  <2>2. Min(S) = CHOOSE z : P(z)
    BY DEF Min
  <2> QED
    BY <2>1, <2>2
<1>3. Min(S) \in Int /\ Min(S) <= x /\ x <= Min(S) /\ x \in Int
  BY <1>2
<1>4. \A y, z \in Int : y <= z /\ z <= y => y = z
  OBVIOUS
<1> QED
  BY <1>3, <1>4

LEMMA MinOfTwo ==
  ASSUME NEW x \in Int, NEW y \in Int PROVE Min({x, y}) = IF x <= y THEN x ELSE y
<1>1. CASE x <= y
  BY <1>1, MinIs
<1>2. CASE ~(x <= y)
  BY <1>2, MinIs
<1> QED
  BY <1>1, <1>2

(* s is the next count bytes of d behind place p, as far as d goes.        *)
IsSlice(s, d, p, count) ==
  /\ s \in Seq(Byte)
  /\ Len(s) = IF p + count <= Len(d) THEN count ELSE Len(d) - p
  /\ \A i \in 1..Len(s) : s[i] = d[p + i]

LEMMA SliceIs ==
  ASSUME NEW d \in Seq(Byte), NEW p \in Nat, p <= Len(d), NEW count \in Nat,
         NEW stack, NEW val
  PROVE  IsSlice(Slice(Ready(d, p, stack, val), count), d, p, count)
<1> DEFINE b == Ready(d, p, stack, val)
           e == IF p + count <= Len(d) THEN p + count ELSE Len(d)
<1>1. Len(d) \in Nat /\ b.data = d /\ b.pos = p
  BY DEF Ready
<1> HIDE DEF b
<1>2. Place(b, p) = p
  <2>1. Min({p, Len(d)}) = p
    BY <1>1, MinOfTwo
  <2> QED
    BY <1>1, <2>1 DEF Place
<1>3. Place(b, p + count) = e
  <2>1. Min({p + count, Len(d)}) = e
    BY <1>1, MinOfTwo
  <2> QED
    BY <1>1, <2>1 DEF Place
<1>4. Slice(b, count) = SubSeq(d, p + 1, e)
  BY <1>1, <1>2, <1>3 DEF Slice
<1>5. e \in Nat /\ p <= e /\ e <= Len(d)
  BY <1>1
<1>6. e - p = IF p + count <= Len(d) THEN count ELSE Len(d) - p
  BY <1>1
<1> HIDE DEF e
<1>7. /\ SubSeq(d, p + 1, e) \in Seq(Byte) /\ Len(SubSeq(d, p + 1, e)) = e - p
      /\ \A i \in 1..e - p : SubSeq(d, p + 1, e)[i] = d[p + i]
  <2>1. \A i \in 1..Len(d) : d[i] \in Byte
    OBVIOUS
  <2>2. (p + 1)..e \subseteq 1..Len(d)
    BY <1>1, <1>5
  <2> QED
    BY <1>1, <1>5, <2>1, <2>2, SubSeqProperties
<1> QED
  BY <1>4, <1>6, <1>7 DEF b, IsSlice

(* What is written between two sequences is found behind the first.        *)
LEMMA Between ==
  ASSUME NEW x \in Seq(Byte), NEW s \in Seq(Byte), NEW y \in Seq(Byte)
  PROVE  /\ x \o s \o y \in Seq(Byte)
         /\ Len(x) \in Nat /\ Len(s) \in Nat /\ Len(y) \in Nat
         /\ Len(x \o s \o y) = Len(x) + Len(s) + Len(y)
         /\ \A i \in 1..Len(s) : (x \o s \o y)[Len(x) + i] = s[i]
<1>1. Len(x) \in Nat /\ Len(s) \in Nat /\ Len(y) \in Nat
  OBVIOUS
<1>2. /\ x \o s \in Seq(Byte) /\ Len(x \o s) = Len(x) + Len(s)
      /\ \A i \in 1..Len(x) + Len(s) : (x \o s)[i] = IF i <= Len(x) THEN x[i] ELSE s[i - Len(x)]
  BY ConcatProperties
<1>3. /\ x \o s \o y \in Seq(Byte) /\ Len(x \o s \o y) = Len(x \o s) + Len(y)
      /\ \A i \in 1..Len(x \o s) + Len(y) :
           (x \o s \o y)[i] = IF i <= Len(x \o s) THEN (x \o s)[i] ELSE y[i - Len(x \o s)]
  BY <1>2, ConcatProperties
<1>4. ASSUME NEW i \in 1..Len(s) PROVE (x \o s \o y)[Len(x) + i] = s[i]
  <2>1. /\ Len(x) + i \in 1..Len(x) + Len(s) /\ ~(Len(x) + i <= Len(x))
        /\ (Len(x) + i) - Len(x) = i
        /\ Len(x) + i \in 1..Len(x \o s) + Len(y) /\ Len(x) + i <= Len(x \o s)
    BY <1>1, <1>2
  <2>2. (x \o s \o y)[Len(x) + i] = (x \o s)[Len(x) + i]
    BY <1>3, <2>1
  <2>3. (x \o s)[Len(x) + i] = s[(Len(x) + i) - Len(x)]
    BY <1>2, <2>1
  <2> QED
    BY <2>1, <2>2, <2>3
<1> QED
  BY <1>1, <1>2, <1>3, <1>4

-----------------------------------------------------------------------------
(* Integers of a number of bytes                                           *)

LEMMA FromBigEndianSteps ==
  ASSUME NEW s \in Seq(Byte)
  PROVE  \E g : g[Len(s)] = FromBigEndian(s) /\ Adds(g, Len(s), 2^ByteBits, s)
<1> DEFINE Rule(g) == g = [k \in 0..Len(s) |-> IF k = 0 THEN 0 ELSE g[k - 1] * 2^ByteBits + s[k]]
           G == CHOOSE g : Rule(g)
<1>1. Len(s) \in Nat /\ 2^ByteBits \in Nat \ {0} /\ \A k \in 1..Len(s) : s[k] \in Int
  BY Widths, PowerPositive DEF Byte
<1>2. PICK g : Adds(g, Len(s), 2^ByteBits, s)
  <2>1. AllInt(s, Len(s))
    BY <1>1 DEF AllInt
  <2> QED
    BY <1>1, <2>1, Recursion
<1>3. Rule(g)
  <2>1. \A k \in 0..Len(s) : g[k] = IF k = 0 THEN 0 ELSE g[k - 1] * 2^ByteBits + s[k]
    BY <1>2 DEF Adds
  <2> QED
    BY <1>2, <2>1 DEF Adds
<1>4. Rule(G)
  BY <1>3
<1>5. FromBigEndian(s) = G[Len(s)]
  BY DEF FromBigEndian
<1> HIDE DEF G
<1>6. \A k \in 0..Len(s) : G[k] = IF k = 0 THEN 0 ELSE G[k - 1] * 2^ByteBits + s[k]
  BY <1>4
<1>7. \A k \in 0..Len(s) : G[k] = g[k]
  <2> DEFINE S == {k \in Nat : k <= Len(s) => G[k] = g[k]}
  <2>1. 0 \in S
    BY <1>1, <1>2, <1>6 DEF Adds
  <2>2. ASSUME NEW k \in Nat, k \in S PROVE k + 1 \in S
    <3>1. CASE k + 1 <= Len(s)
      <4>1. /\ k <= Len(s) /\ k + 1 \in 0..Len(s) /\ k + 1 \in 1..Len(s) /\ k + 1 # 0
            /\ (k + 1) - 1 = k
        BY <1>1, <3>1
      <4>2. G[k + 1] = G[k] * 2^ByteBits + s[k + 1] /\ G[k] = g[k]
        BY <1>6, <2>2, <4>1
      <4>3. g[k + 1] = g[k] * 2^ByteBits + s[k + 1]
        BY <1>2, <4>1 DEF Adds
      <4> QED
        BY <4>2, <4>3
    <3>2. CASE ~(k + 1 <= Len(s))
      BY <3>2
    <3> QED
      BY <3>1, <3>2
  <2> HIDE DEF S
  <2>3. Nat \subseteq S
    BY <2>1, <2>2, SetInduction
  <2> QED
    BY <1>1, <2>3 DEF S
<1>8. g[Len(s)] = FromBigEndian(s)
  BY <1>1, <1>5, <1>7
<1> QED
  BY <1>2, <1>8

(* The bytes of n add up to n, but for what does not fit in them.          *)
LEMMA BigEndianWorth ==
  ASSUME NEW n \in Int, NEW size \in Nat
  PROVE  /\ BigEndian(n, size) \in Seq(Byte) /\ Len(BigEndian(n, size)) = size
         /\ n = FromBigEndian(BigEndian(n, size)) + 2^(ByteBits * size) * (n \div 2^(ByteBits * size))
<1> DEFINE s == BigEndian(n, size)
           B == 2^ByteBits
           P(k) == 2^(ByteBits * k)
           q(k) == n \div P(size - k)
<1>1. B \in Nat \ {0} /\ ByteBits \in Nat
  BY Widths, PowerPositive
<1>2. ASSUME NEW k \in Nat PROVE P(k) \in Nat \ {0} /\ P(k + 1) = P(k) * B
  <2>1. ByteBits * k \in Nat /\ ByteBits * (k + 1) = ByteBits * k + ByteBits
    BY <1>1
  <2> QED
    BY <1>1, <2>1, PowerPositive, PowerSum
<1>3. P(0) = 1
  <2>1. ByteBits * 0 = 0
    BY <1>1
  <2> QED
    BY <2>1, PowerZero
<1>4. /\ Len(s) = size /\ s \in Seq(Byte)
      /\ \A k \in 1..size : s[k] = (q(k) % B)
  <2>1. ASSUME NEW k \in 1..size PROVE (q(k) % B) \in Byte
    <3>1. size - k \in Nat
      OBVIOUS
    <3>2. q(k) \in Int
      BY <1>2, <3>1, DivMod
    <3> HIDE DEF q
    <3> QED
      BY <1>1, <3>2, DivMod DEF Byte
  <2>2. s = [k \in 1..size |-> (q(k) % B)]
    BY DEF BigEndian
  <2> HIDE DEF q, s, B
  <2>3. s \in [1..size -> Byte]
    BY <2>1, <2>2
  <2> QED
    BY <2>2, <2>3
<1>5. ASSUME NEW k \in Nat, k < size
      PROVE  /\ q(k) \in Int /\ q(k + 1) \in Int
             /\ q(k + 1) = q(k) * B + (q(k + 1) % B)
  <2>1. size - (k + 1) \in Nat /\ size - k = (size - (k + 1)) + 1
    BY <1>5
  <2>2. P(size - k) = P(size - (k + 1)) * B /\ P(size - (k + 1)) \in Nat \ {0}
    BY <1>2, <2>1
  <2>3. q(k) = (q(k + 1) \div B)
    <3> HIDE DEF P, B
    <3> QED
      BY <1>1, <2>2, DivDiv
  <2>4. q(k + 1) \in Int
    <3> HIDE DEF P, B
    <3> QED
      BY <2>2, DivMod
  <2> HIDE DEF q
  <2> QED
    BY <1>1, <2>3, <2>4, DivMod
<1>6. PICK g \in [0..size -> Int] :
        /\ g[size] = FromBigEndian(s) /\ g[0] = 0
        /\ \A k \in 1..size : g[k] = g[k - 1] * B + s[k]
  <2> HIDE DEF s
  <2>1. \E g : g[size] = FromBigEndian(s) /\ Adds(g, size, 2^ByteBits, s)
    BY <1>4, FromBigEndianSteps
  <2> QED
    BY <2>1 DEF Adds
<1> HIDE DEF s, q, P, B
<1>7. \A k \in 0..size : q(k) = g[k] + P(k) * q(0)
  <2> DEFINE S == {k \in Nat : k <= size => q(k) = g[k] + P(k) * q(0)}
  <2>1. q(0) \in Int
    <3>1. P(size) \in Nat \ {0} /\ size - 0 = size
      BY <1>2
    <3> QED
      BY <3>1, DivMod DEF q
  <2>2. 0 \in S
    BY <1>3, <1>6, <2>1
  <2>3. ASSUME NEW k \in Nat, k \in S PROVE k + 1 \in S
    <3>1. CASE k + 1 <= size
      <4>1. k \in 0..size /\ k + 1 \in 1..size /\ (k + 1) - 1 = k /\ k < size
        BY <3>1
      <4>2. q(k) = g[k] + P(k) * q(0) /\ g[k] \in Int
        BY <1>6, <2>3, <4>1
      <4>3. g[k + 1] = g[k] * B + (q(k + 1) % B)
        BY <1>4, <1>6, <4>1
      <4>4. /\ q(k + 1) \in Int /\ q(k + 1) = q(k) * B + (q(k + 1) % B)
            /\ (q(k + 1) % B) \in Int
        <5>1. q(k + 1) \in Int /\ q(k + 1) = q(k) * B + (q(k + 1) % B)
          BY <1>5, <4>1
        <5>2. PICK x \in Int : x = q(k + 1)
          BY <5>1
        <5>3. (x % B) \in Int
          BY <1>1
        <5> QED
          BY <5>1, <5>2, <5>3
      <4>5. P(k + 1) = P(k) * B /\ P(k) \in Nat
        BY <1>2
      <4>6. \A x, y, z, w, b \in Int : (x + y * z) * b + w = (x * b + w) + (y * b) * z
        OBVIOUS
      <4>7. (g[k] + P(k) * q(0)) * B + (q(k + 1) % B)
              = (g[k] * B + (q(k + 1) % B)) + (P(k) * B) * q(0)
        BY <1>1, <2>1, <4>2, <4>4, <4>5, <4>6
      <4> QED
        BY <4>2, <4>3, <4>4, <4>5, <4>7
    <3>2. CASE ~(k + 1 <= size)
      BY <3>2
    <3> QED
      BY <3>1, <3>2
  <2> HIDE DEF S
  <2>4. Nat \subseteq S
    BY <2>2, <2>3, SetInduction
  <2> QED
    BY <2>4 DEF S
<1>8. q(size) = n /\ q(0) = (n \div P(size))
  <2>1. size - size = 0 /\ size - 0 = size
    OBVIOUS
  <2>2. (n \div 1) = n
    OBVIOUS
  <2> QED
    BY <1>3, <2>1, <2>2 DEF q
<1>9. n = FromBigEndian(s) + P(size) * (n \div P(size))
  BY <1>6, <1>7, <1>8
<1> QED
  BY <1>4, <1>9 DEF s, P

LEMMA HalfPower ==
  ASSUME NEW bits \in Nat \ {0} PROVE 2^(bits - 1) \in Nat \ {0} /\ 2^bits = 2 * 2^(bits - 1)
<1>1. bits - 1 \in Nat /\ bits = (bits - 1) + 1
  OBVIOUS
<1> QED
  BY <1>1, PowerStep, PowerPositive

LEMMA SignedBack ==
  ASSUME NEW h \in Nat \ {0}, NEW n \in -h..h - 1, NEW raw \in Int,
         n = raw + IF n < 0 THEN -(2 * h) ELSE 0
  PROVE  n = IF raw \in -h..h - 1 THEN raw ELSE raw - 2 * h
OBVIOUS

(* The two's complement of a number in its range is undone.                *)
LEMMA TwosUndone ==
  ASSUME NEW size \in Nat \ {0}, NEW signed \in BOOLEAN,
         NEW n \in Int, n \in IntRange(size, signed),
         NEW raw \in Int, n = raw + 2^(ByteBits * size) * (n \div 2^(ByteBits * size))
  PROVE  n = IF raw \in IntRange(size, signed) THEN raw ELSE raw - 2^(ByteBits * size)
<1>1. PICK bits \in Nat \ {0} : bits = ByteBits * size
  BY Widths
<1>2. PICK p \in Nat \ {0}, h \in Nat \ {0} : p = 2^bits /\ h = 2^(bits - 1) /\ p = 2 * h
  BY HalfPower
<1>3. n \in -p..p - 1 /\ (n \div p) \in Int
  <2>1. n \in -p..p - 1
    <3>1. SignedRange(bits) = -h..h - 1
      BY <1>2 DEF SignedRange
    <3>2. IntRange(size, signed) = IF signed THEN -h..h - 1 ELSE 0..p - 1
      BY <1>1, <1>2, <3>1 DEF IntRange
    <3> QED
      BY <1>2, <3>2
  <2> QED
    BY <2>1, DivSmall
<1>4. n = raw + IF n < 0 THEN -p ELSE 0
  <2>1. n = raw + p * (n \div p)
    BY <1>1, <1>2
  <2>2. (n \div p) = IF n < 0 THEN -1 ELSE 0
    BY <1>3, DivSmall
  <2>3. p * 0 = 0 /\ p * (-1) = -p
    OBVIOUS
  <2> QED
    BY <2>1, <2>2, <2>3
<1>5. CASE signed
  <2>1. n \in -h..h - 1 /\ IntRange(size, signed) = -h..h - 1
    BY <1>1, <1>2, <1>5 DEF IntRange, SignedRange
  <2>2. n = IF raw \in -h..h - 1 THEN raw ELSE raw - 2 * h
    BY <1>2, <1>4, <2>1, SignedBack
  <2>3. 2^(ByteBits * size) = 2 * h
    BY <1>1, <1>2
  <2> QED
    BY <2>1, <2>2, <2>3
<1>6. CASE ~signed
  <2>1. n \in 0..p - 1 /\ IntRange(size, signed) = 0..p - 1
    BY <1>1, <1>2, <1>6 DEF IntRange
  <2> QED
    BY <1>4, <2>1
<1> QED
  BY <1>5, <1>6

(* A number packed as an integer of any size is read back from where it    *)
(* was put, whatever comes behind it; as long as bytes of it are missing   *)
(* the buffer underruns.                                                   *)
THEOREM IntRoundTrip ==
  ASSUME NEW size \in Nat \ {0}, NEW signed \in BOOLEAN, NEW n \in IntRange(size, signed),
         NEW before \in Seq(Byte), NEW after \in Seq(Byte), NEW pos, NEW stack, NEW val
  PROVE  LET s == BigEndian(n, size)
             start == Len(before)
             whole == before \o s \o after
         IN  /\ pack_int(Ready(before, pos, stack, val), n, size, signed)
                  = Ready(before \o s, pos, stack, val)
             /\ unpack_int(Ready(whole, start, stack, val), size, signed)
                  = Ready(whole, start + size, stack, Num(n))
             /\ \A k \in 0..size - 1 :
                  unpack_int(Ready(before \o SubSeq(s, 1, k), start, stack, val), size, signed).err
                    = "BufferUnderrun"
<1> DEFINE s == BigEndian(n, size)
           start == Len(before)
           whole == before \o s \o after
<1>1. n \in Int
  <2>1. ByteBits * size \in Nat \ {0}
    BY Widths
  <2>2. 2^(ByteBits * size) \in Int /\ 2^(ByteBits * size - 1) \in Int
    BY <2>1, HalfPower, PowerPositive
  <2> QED
    BY <2>2 DEF IntRange, SignedRange
<1>2. /\ s \in Seq(Byte) /\ Len(s) = size
      /\ n = FromBigEndian(s) + 2^(ByteBits * size) * (n \div 2^(ByteBits * size))
  BY <1>1, BigEndianWorth
<1>3. n = IF FromBigEndian(s) \in IntRange(size, signed) THEN FromBigEndian(s)
          ELSE FromBigEndian(s) - 2^(ByteBits * size)
  <2>1. FromBigEndian(s) \in Int
    <3>1. PICK g : g[Len(s)] = FromBigEndian(s) /\ Adds(g, Len(s), 2^ByteBits, s)
      BY <1>2, FromBigEndianSteps
    <3>2. Len(s) \in 0..Len(s)
      BY <1>2
    <3> QED
      BY <3>1, <3>2 DEF Adds
  <2> HIDE DEF s
  <2> QED
    BY <1>1, <1>2, <2>1, TwosUndone
<1> HIDE DEF s
<1>4. pack_int(Ready(before, pos, stack, val), n, size, signed) = Ready(before \o s, pos, stack, val)
  BY DEF pack_int, pack_bytes, Ready, Ok, s
<1>5. unpack_int(Ready(whole, start, stack, val), size, signed)
        = Ready(whole, start + size, stack, Num(n))
  <2>1. /\ whole \in Seq(Byte) /\ start \in Nat /\ start + size <= Len(whole)
        /\ \A i \in 1..size : whole[start + i] = s[i]
    BY <1>2, Between
  <2> HIDE DEF whole, start
  <2>2. Slice(Ready(whole, start, stack, val), size) = s
    <3> DEFINE t == Slice(Ready(whole, start, stack, val), size)
    <3>1. t \in Seq(Byte) /\ Len(t) = size /\ \A i \in 1..Len(t) : t[i] = whole[start + i]
      <4>1. PICK d \in Seq(Byte), p \in Nat : d = whole /\ p = start
        BY <2>1
      <4>2. p <= Len(d) /\ p + size <= Len(d) /\ size \in Nat
        BY <2>1, <4>1
      <4>3. IsSlice(Slice(Ready(d, p, stack, val), size), d, p, size)
        BY <4>2, SliceIs
      <4>4. IsSlice(t, d, p, size)
        BY <4>1, <4>3
      <4> HIDE DEF t
      <4> QED
        BY <4>1, <4>2, <4>4 DEF IsSlice
    <3> HIDE DEF t
    <3>2. t = s
      <4>1. t \in [1..size -> Byte] /\ s \in [1..size -> Byte]
        BY <1>2, <3>1
      <4>2. \A i \in 1..size : t[i] = s[i]
        BY <2>1, <3>1
      <4> QED
        BY <4>1, <4>2
    <3> QED
      BY <3>2 DEF t
  <2> DEFINE b == Ready(whole, start, stack, val)
             r == Ready(whole, start + size, stack, [bytes |-> s])
  <2>3. unpack_bytes(b, size) = r
    <3>1. ~(Len(whole) - start < size) /\ size # 0 /\ Len(whole) \in Nat
      BY <2>1
    <3>2. b.err = "none" /\ b.data = whole /\ b.pos = start
      BY DEF Ready
    <3>3. unpack_bytes(b, size) = Advance(b, size)
      BY <3>1, <3>2 DEF unpack_bytes, Ok
    <3>4. Advance(b, size) = r
      <4> DEFINE t == Slice(b, size)
      <4>1. t = s
        BY <2>2
      <4>2. Advance(b, size) = [b EXCEPT !.pos = b.pos + size, !.val = [bytes |-> t]]
        BY DEF Advance
      <4> HIDE DEF t
      <4> QED
        BY <4>1, <4>2 DEF Ready
    <3> QED
      BY <3>3, <3>4
  <2>4. unpack_int(b, size, signed) = Return(r, Num(n))
    <3>1. r.err = "none" /\ r.val.bytes = s
      BY DEF Ready
    <3> HIDE DEF b, r
    <3> QED
      BY <1>3, <2>3, <3>1 DEF unpack_int, Then, Ok
  <2>5. Return(r, Num(n)) = Ready(whole, start + size, stack, Num(n))
    BY DEF Return, Ready, Ok
  <2> QED
    BY <2>4, <2>5
<1>6. ASSUME NEW k \in 0..size - 1
      PROVE  unpack_int(Ready(before \o SubSeq(s, 1, k), start, stack, val), size, signed).err
               = "BufferUnderrun"
  <2>1. SubSeq(s, 1, k) \in Seq(Byte) /\ Len(SubSeq(s, 1, k)) = k
    BY <1>2
  <2> DEFINE d == before \o SubSeq(s, 1, k)
             b == Ready(d, start, stack, val)
  <2>2. Len(d) = start + k /\ start \in Nat
    BY <2>1
  <2>3. Len(d) - start < size /\ size # 0
    BY <2>2
  <2> HIDE DEF d
  <2>4. b.err = "none" /\ b.data = d /\ b.pos = start
    BY DEF Ready
  <2>5. unpack_bytes(b, size) = Raise(b, "BufferUnderrun")
    BY <2>3, <2>4 DEF unpack_bytes, Ok
  <2>6. Raise(b, "BufferUnderrun").err = "BufferUnderrun"
    BY DEF Raise, Ready, Ok
  <2> HIDE DEF b
  <2>7. unpack_int(b, size, signed) = Raise(b, "BufferUnderrun")
    BY <2>5, <2>6 DEF unpack_int, Then, Ok
  <2> QED
    BY <2>6, <2>7 DEF b, d
<1> QED
  BY <1>4, <1>5, <1>6 DEF s

-----------------------------------------------------------------------------
(* Varnums                                                                 *)

(* What is left of m after i groups                                        *)
Left(m, i) == m \div 2^(GroupBits * i)

LEMMA GroupPower ==
  ASSUME NEW i \in Nat
  PROVE  /\ 2^(GroupBits * i) \in Nat \ {0} /\ 2^GroupBits \in Nat \ {0}
         /\ 2^(GroupBits * (i + 1)) = 2^(GroupBits * i) * 2^GroupBits
<1>1. GroupBits \in Nat /\ GroupBits * i \in Nat
      /\ GroupBits * (i + 1) = GroupBits * i + GroupBits
  BY Widths
<1> QED
  BY <1>1, PowerPositive, PowerSum

LEMMA LeftNothing == ASSUME NEW m \in Int PROVE Left(m, 0) = m
<1>1. GroupBits * 0 = 0 /\ (m \div 1) = m
  BY Widths
<1> QED
  BY <1>1, PowerZero DEF Left

LEMMA LeftStep ==
  ASSUME NEW m \in Int, NEW i \in Nat
  PROVE  /\ Left(m, i) \in Int /\ Left(m, i + 1) \in Int
         /\ (Left(m, i) % 2^GroupBits) \in 0..2^GroupBits - 1
         /\ Left(m, i) = Left(m, i + 1) * 2^GroupBits + (Left(m, i) % 2^GroupBits)
         /\ m \in Nat => Left(m, i) \in Nat
         /\ m < 0 => Left(m, i) < 0
<1>1. PICK d \in Nat \ {0}, e \in Nat \ {0} :
        d = 2^(GroupBits * i) /\ e = 2^GroupBits /\ 2^(GroupBits * (i + 1)) = d * e
  BY GroupPower
<1>2. (m \div (d * e)) = ((m \div d) \div e)
  BY DivDiv
<1>3. PICK q \in Int : q = (m \div d)
  OBVIOUS
<1>4. /\ (q \div e) \in Int /\ (q % e) \in 0..e - 1
      /\ q = (q \div e) * e + (q % e)
  BY DivMod
<1>5. m \in Nat => q \in Nat
  BY <1>3
<1>6. m < 0 => q < 0
  BY <1>3
<1>7. Left(m, i) = q /\ Left(m, i + 1) = (q \div e)
  BY <1>1, <1>2, <1>3 DEF Left
<1> QED
  BY <1>1, <1>4, <1>5, <1>6, <1>7

(* What a byte of a varnum says: its group, and whether it is the last.    *)
LEMMA GroupByte ==
  ASSUME NEW r \in 0..2^GroupBits - 1, NEW more \in BOOLEAN,
         NEW x, x = r + IF more THEN 2^GroupBits ELSE 0
  PROVE  /\ x \in Byte /\ (x % 2^GroupBits) = r
         /\ x < 2^GroupBits <=> ~more
<1>1. PICK e \in Nat \ {0} : e = 2^GroupBits /\ 2^ByteBits = 2 * e
  BY Widths, PowerPositive, PowerStep DEF ByteBits
<1>2. CASE more
  <2>1. x = 1 * e + r /\ r \in 0..e - 1 /\ x \in Int
    BY <1>1, <1>2
  <2>2. (x % e) = r
    BY <2>1, DivUnique
  <2> QED
    BY <1>1, <1>2, <2>1, <2>2 DEF Byte
<1>3. CASE ~more
  <2>1. x = 0 * e + r /\ r \in 0..e - 1 /\ x = r /\ x \in Int
    BY <1>1, <1>3
  <2>2. (x % e) = r
    BY <2>1, DivUnique
  <2> QED
    BY <1>1, <1>3, <2>1, <2>2 DEF Byte
<1> QED
  BY <1>2, <1>3

(* s is the groups of m: each but the last is followed by another one, and *)
(* nothing is left of m after the last, unless there is no room for more.  *)
Grouped(s, m) ==
  /\ s \in Seq(Byte) /\ Len(s) \in 1..MAX_VARNUM_LEN
  /\ \A i \in 1..Len(s) : (s[i] % 2^GroupBits) = (Left(m, i - 1) % 2^GroupBits)
  /\ \A i \in 1..Len(s) : s[i] < 2^GroupBits <=> ~(Left(m, i) > 0)
  /\ \A i \in 1..Len(s) - 1 : Left(m, i) # 0
  /\ Left(m, Len(s)) = 0 \/ Len(s) = MAX_VARNUM_LEN

LEMMA GroupsAre == ASSUME NEW m \in Int PROVE Grouped(Groups(m), m)
<1> DEFINE rest(i) == m \div 2^(GroupBits * i)
           S == {i \in 1..MAX_VARNUM_LEN : rest(i) = 0} \cup {MAX_VARNUM_LEN}
           byte(i) == (rest(i - 1) % 2^GroupBits) + IF rest(i) > 0 THEN 2^GroupBits ELSE 0
           s == Groups(m)
<1>1. s = [i \in 1..Min(S) |-> byte(i)]
  BY DEF Groups
<1>2. \A i \in Nat : rest(i) = Left(m, i)
  BY DEF Left
<1>3. PICK last \in S : \A y \in S : last <= y
  <2>1. S \in SUBSET Nat /\ S # {}
    BY Widths
  <2> HIDE DEF S
  <2> QED
    BY <2>1, Least
<1>4. S \subseteq Int /\ S \subseteq 1..MAX_VARNUM_LEN
  BY Widths
<1>5. Min(S) = last /\ last \in 1..MAX_VARNUM_LEN
  <2> HIDE DEF S
  <2> QED
    BY <1>3, <1>4, MinIs
<1>6. ASSUME NEW i \in 1..last
      PROVE  /\ byte(i) \in Byte /\ (byte(i) % 2^GroupBits) = (Left(m, i - 1) % 2^GroupBits)
             /\ byte(i) < 2^GroupBits <=> ~(Left(m, i) > 0)
  <2>1. i - 1 \in Nat /\ i \in Nat
    BY <1>5
  <2>2. rest(i - 1) = Left(m, i - 1) /\ rest(i) = Left(m, i)
    BY <1>2, <2>1
  <2> HIDE DEF rest
  <2>3. (Left(m, i - 1) % 2^GroupBits) \in 0..2^GroupBits - 1
    BY <2>1, LeftStep
  <2> QED
    BY <2>2, <2>3, GroupByte
<1>7. ASSUME NEW i \in 1..last - 1 PROVE Left(m, i) # 0
  <2>1. i \in 1..MAX_VARNUM_LEN /\ i < last /\ i \in Nat
    BY <1>5, Widths
  <2>2. i \notin S
    BY <1>3, <2>1
  <2> QED
    BY <1>2, <2>1, <2>2
<1>8. Left(m, last) = 0 \/ last = MAX_VARNUM_LEN
  <2>1. last \in Nat /\ (rest(last) = 0 \/ last = MAX_VARNUM_LEN)
    BY <1>3, <1>5
  <2> QED
    BY <1>2, <2>1
<1> HIDE DEF S, byte, rest
<1>9. s \in Seq(Byte) /\ Len(s) = last /\ \A i \in 1..last : s[i] = byte(i)
  <2>1. s = [i \in 1..last |-> byte(i)]
    BY <1>1, <1>5
  <2>2. s \in [1..last -> Byte]
    BY <1>6, <2>1
  <2> HIDE DEF s
  <2> QED
    BY <1>5, <2>1, <2>2
<1> HIDE DEF s
<1> QED
  BY <1>5, <1>6, <1>7, <1>8, <1>9 DEF Grouped, s

(* What the groups of s are worth, each at its place                       *)
Worth(s, i) == (s[i] % 2^GroupBits) * 2^(GroupBits * (i - 1))

LEMMA FromGroupsSteps ==
  ASSUME NEW s \in Seq(Byte), NEW last \in Nat, last <= Len(s)
  PROVE  \E g : /\ g[last] = FromGroups(s, last) /\ g[0] = 0
                /\ \A i \in 1..last : g[i] = g[i - 1] + Worth(s, i)
<1> DEFINE Rule(g) == g = [i \in 0..last |->
                             IF i = 0 THEN 0
                             ELSE g[i - 1] + (s[i] % 2^GroupBits) * 2^(GroupBits * (i - 1))]
           G == CHOOSE g : Rule(g)
           h == [i \in 1..last |-> Worth(s, i)]
<1>1. \A i \in 1..last : h[i] = Worth(s, i) /\ Worth(s, i) \in Int
  <2>1. ASSUME NEW i \in 1..last PROVE Worth(s, i) \in Int
    <3>1. s[i] \in Int /\ i - 1 \in Nat /\ 2^GroupBits \in Nat \ {0}
      BY Widths, PowerPositive DEF Byte
    <3>2. 2^(GroupBits * (i - 1)) \in Nat
      BY <3>1, GroupPower
    <3>3. (s[i] % 2^GroupBits) \in Int
      BY <3>1
    <3> QED
      BY <3>2, <3>3 DEF Worth
  <2> QED
    BY <2>1
<1>2. PICK g : Adds(g, last, 1, h)
  <2>1. AllInt(h, last)
    BY <1>1 DEF AllInt
  <2> HIDE DEF h
  <2> QED
    BY <2>1, Recursion
<1>3. g \in [0..last -> Int] /\ \A i \in 0..last : g[i] = IF i = 0 THEN 0 ELSE g[i - 1] + Worth(s, i)
  <2> HIDE DEF h
  <2>1. ASSUME NEW i \in 1..last PROVE g[i] = g[i - 1] + Worth(s, i)
    <3>1. g[i] = g[i - 1] * 1 + h[i] /\ g[i - 1] \in Int
      BY <1>2 DEF Adds
    <3> QED
      BY <1>1, <3>1
  <2> QED
    BY <1>2, <2>1 DEF Adds
<1>4. Rule(g)
  <2>1. g = [i \in 0..last |-> IF i = 0 THEN 0 ELSE g[i - 1] + Worth(s, i)]
    BY <1>3
  <2> QED
    BY <2>1 DEF Worth
<1>5. Rule(G)
  BY <1>4
<1>6. FromGroups(s, last) = G[last]
  BY DEF FromGroups
<1>7. G = [i \in 0..last |-> IF i = 0 THEN 0 ELSE G[i - 1] + Worth(s, i)]
  BY <1>5 DEF Worth
<1> HIDE DEF G
<1>8. G[0] = 0 /\ \A i \in 1..last : G[i] = G[i - 1] + Worth(s, i)
  BY <1>7
<1> QED
  BY <1>6, <1>8

LEMMA OneGroupMore ==
  ASSUME NEW x \in Int, NEW b \in Int, NEW r \in Int, NEW e \in Nat, NEW p \in Nat
  PROVE  x + (b * e + r) * p = (x + r * p) + b * (p * e)
OBVIOUS

(* The groups of m up to the last are worth m, but for what is left.       *)
LEMMA GroupsWorth ==
  ASSUME NEW m \in Int, NEW s \in Seq(Byte), NEW last \in Nat, last <= Len(s),
         \A i \in 1..last : (s[i] % 2^GroupBits) = (Left(m, i - 1) % 2^GroupBits)
  PROVE  /\ FromGroups(s, last) \in Int
         /\ m = FromGroups(s, last) + Left(m, last) * 2^(GroupBits * last)
<1>1. PICK g : /\ g[last] = FromGroups(s, last) /\ g[0] = 0
               /\ \A i \in 1..last : g[i] = g[i - 1] + Worth(s, i)
  BY FromGroupsSteps
<1> DEFINE P(i) == 2^(GroupBits * i)
           S == {i \in Nat : i <= last => g[i] \in Int /\ m = g[i] + Left(m, i) * P(i)}
<1>2. P(0) = 1
  <2>1. GroupBits * 0 = 0
    BY Widths
  <2> QED
    BY <2>1, PowerZero
<1>3. 0 \in S
  BY <1>1, <1>2, LeftNothing
<1>4. ASSUME NEW i \in Nat, i \in S PROVE i + 1 \in S
  <2>1. CASE i + 1 <= last
    <3>1. i + 1 \in 1..last /\ (i + 1) - 1 = i /\ i <= last
      BY <2>1
    <3>2. g[i] \in Int /\ m = g[i] + Left(m, i) * P(i)
      BY <1>4, <3>1
    <3>3. g[i + 1] = g[i] + (Left(m, i) % 2^GroupBits) * P(i)
      BY <1>1, <3>1 DEF Worth
    <3>4. PICK e \in Nat \ {0}, p \in Nat \ {0} : e = 2^GroupBits /\ p = P(i) /\ P(i + 1) = p * e
      BY GroupPower
    <3>5. /\ Left(m, i) \in Int /\ Left(m, i + 1) \in Int /\ (Left(m, i) % e) \in Int
          /\ Left(m, i) = Left(m, i + 1) * e + (Left(m, i) % e)
      <4>1. /\ Left(m, i) \in Int /\ Left(m, i + 1) \in Int
            /\ (Left(m, i) % 2^GroupBits) \in 0..2^GroupBits - 1
            /\ Left(m, i) = Left(m, i + 1) * 2^GroupBits + (Left(m, i) % 2^GroupBits)
        BY LeftStep
      <4> QED
        BY <3>4, <4>1
    <3>6. PICK a \in Int, b \in Int, r \in Int :
            a = Left(m, i) /\ b = Left(m, i + 1) /\ r = (Left(m, i) % e)
      BY <3>5
    <3>7. PICK x \in Int, z \in Int : x = g[i] /\ z = x + r * p
      <4>1. \A x \in Int : x + r * p \in Int
        BY <3>4
      <4> QED
        BY <3>2, <4>1
    <3>8. m = x + (b * e + r) * p /\ g[i + 1] = z
      <4> HIDE DEF P
      <4> QED
        BY <3>2, <3>3, <3>4, <3>5, <3>6, <3>7
    <3>9. m = z + b * (p * e)
      BY <3>7, <3>8, OneGroupMore
    <3>10. g[i + 1] \in Int /\ m = g[i + 1] + Left(m, i + 1) * P(i + 1)
      <4> HIDE DEF P
      <4> QED
        BY <3>4, <3>6, <3>7, <3>8, <3>9
    <3> QED
      BY <3>10
  <2>2. CASE ~(i + 1 <= last)
    BY <2>2
  <2> QED
    BY <2>1, <2>2
<1> HIDE DEF S
<1>5. last \in S
  BY <1>3, <1>4, SetInduction
<1> QED
  BY <1>1, <1>5 DEF S

(* What a number read from so many groups means                            *)
Meant(raw) == IF Bits(raw, VarintBits - 1, 1) = 1 THEN raw - 2^VarintBits ELSE raw
Given(r, n, max_bits) ==
  IF n \in SignedRange(max_bits) THEN Return(r, Num(n)) ELSE Raise(r, "ValueError")

(* The varnum behind place p of d has last bytes.                          *)
EndsAt(d, p, last) ==
  /\ p + last <= Len(d)
  /\ \A i \in 1..last - 1 : ~(d[p + i] < 2^GroupBits)
  /\ d[p + last] < 2^GroupBits \/ last = MAX_VARNUM_LEN

(* unpack_varnum takes those bytes for what their groups mean.             *)
ReadsUpTo(d, p, last, stack, val, max_bits) ==
  \E ahead \in Seq(Byte) :
    /\ last <= Len(ahead) /\ \A i \in 1..last : ahead[i] = d[p + i]
    /\ unpack_varnum(Ready(d, p, stack, val), max_bits)
         = Given(Ready(d, p + last, stack, val), Meant(FromGroups(ahead, last)), max_bits)

LEMMA UnpackVarnum ==
  ASSUME NEW d \in Seq(Byte), NEW p \in Nat, p <= Len(d), NEW last \in 1..MAX_VARNUM_LEN,
         EndsAt(d, p, last), NEW stack, NEW val, NEW max_bits
  PROVE  ReadsUpTo(d, p, last, stack, val, max_bits)
<1> DEFINE b == Ready(d, p, stack, val)
           ahead == Slice(b, MAX_VARNUM_LEN)
           ends == {i \in DOMAIN ahead : ahead[i] < 2^GroupBits \/ i = MAX_VARNUM_LEN}
<1>1. IsSlice(ahead, d, p, MAX_VARNUM_LEN)
  BY SliceIs, Widths
<1>2. /\ ahead \in Seq(Byte) /\ last <= Len(ahead) /\ Len(ahead) \in Nat
      /\ \A i \in 1..Len(ahead) : ahead[i] = d[p + i]
  <2> HIDE DEF ahead
  <2> QED
    BY <1>1, Widths DEF IsSlice, EndsAt
<1>3. last \in ends /\ ends \subseteq Int /\ \A i \in ends : last <= i
  <2> HIDE DEF ahead
  <2>1. DOMAIN ahead = 1..Len(ahead) /\ last \in 1..Len(ahead)
    BY <1>2, Widths
  <2>2. ASSUME NEW i \in ends PROVE last <= i
    <3>1. i \in 1..Len(ahead) /\ (ahead[i] < 2^GroupBits \/ i = MAX_VARNUM_LEN) /\ ahead[i] = d[p + i]
      BY <1>2, <2>1
    <3>2. SUFFICES ASSUME i < last PROVE FALSE
      BY <3>1, Widths
    <3>3. i \in 1..last - 1 /\ i # MAX_VARNUM_LEN
      BY <3>1, <3>2, Widths
    <3> QED
      BY <3>1, <3>3 DEF EndsAt
  <2> QED
    BY <1>2, <2>1, <2>2 DEF EndsAt
<1>4. Min(ends) = last /\ ends # {}
  <2> HIDE DEF ends
  <2> QED
    BY <1>3, MinIs
<1>5. [b EXCEPT !.pos = b.pos + Min(ends)] = Ready(d, p + last, stack, val)
  <2> HIDE DEF ends
  <2> QED
    BY <1>4 DEF Ready
<1>6. unpack_varnum(b, max_bits)
        = LET n == Meant(FromGroups(ahead, Min(ends)))
              r == [b EXCEPT !.pos = b.pos + Min(ends)]
          IN  IF ends = {} THEN Raise([b EXCEPT !.pos = Len(b.data)], "BufferUnderrun")
              ELSE Given(r, n, max_bits)
  <2> HIDE DEF b
  <2> QED
    BY DEF unpack_varnum, Meant, Given
<1> HIDE DEF b, ahead, ends
<1>7. unpack_varnum(b, max_bits)
        = Given(Ready(d, p + last, stack, val), Meant(FromGroups(ahead, last)), max_bits)
  BY <1>4, <1>5, <1>6
<1>8. \A i \in 1..last : ahead[i] = d[p + i]
  BY <1>2, Widths
<1> QED
  BY <1>2, <1>7, <1>8 DEF b, ReadsUpTo

\* From p on there are fewer bytes than a number may have, and none is a last one.
NothingEnds(d, p) ==
  /\ d \in Seq(Byte) /\ p \in Nat /\ p <= Len(d) /\ Len(d) - p < MAX_VARNUM_LEN
  /\ \A i \in 1..Len(d) - p : ~(d[p + i] < 2^GroupBits)

(* If no byte ends the number, the buffer underruns.                       *)
LEMMA UnpackVarnumUnderrun ==
  ASSUME NEW d, NEW p, NothingEnds(d, p), NEW stack, NEW val, NEW max_bits
  PROVE  unpack_varnum(Ready(d, p, stack, val), max_bits).err = "BufferUnderrun"
<1> DEFINE b == Ready(d, p, stack, val)
           ahead == Slice(b, MAX_VARNUM_LEN)
           ends == {i \in DOMAIN ahead : ahead[i] < 2^GroupBits \/ i = MAX_VARNUM_LEN}
<1>. USE DEF NothingEnds
<1>1. IsSlice(ahead, d, p, MAX_VARNUM_LEN)
  BY SliceIs, Widths
<1>2. ends = {}
  <2> HIDE DEF ahead
  <2>1. /\ ahead \in Seq(Byte) /\ Len(ahead) = Len(d) - p /\ Len(d) \in Nat
        /\ \A i \in 1..Len(ahead) : ahead[i] = d[p + i]
    BY <1>1, Widths DEF IsSlice
  <2>2. DOMAIN ahead = 1..Len(d) - p
    BY <2>1
  <2> QED
    BY <2>1, <2>2, Widths
<1>3. unpack_varnum(b, max_bits) = Raise([b EXCEPT !.pos = Len(b.data)], "BufferUnderrun")
  <2> HIDE DEF b
  <2> QED
    BY <1>2 DEF unpack_varnum
<1>4. Raise([b EXCEPT !.pos = Len(b.data)], "BufferUnderrun").err = "BufferUnderrun"
  BY DEF Raise, Ok, Ready
<1> QED
  BY <1>3, <1>4 DEF b

LEMMA HighBit ==
  ASSUME NEW n \in Int, NEW h \in Nat \ {0}, h = 2^(VarintBits - 1)
  PROVE  /\ n \in 0..h - 1 => Bits(n, VarintBits - 1, 1) # 1
         /\ n \in h..2 * h - 1 => Bits(n, VarintBits - 1, 1) = 1
<1>1. 2^1 = 2
  BY PowerZero, PowerStep
<1>2. Bits(n, VarintBits - 1, 1) = ((n \div h) % 2)
  BY <1>1 DEF Bits
<1>3. ASSUME n \in 0..h - 1 PROVE (n \div h) = 0
  BY <1>3, DivSmall
<1>4. ASSUME n \in h..2 * h - 1 PROVE (n \div h) = 1
  <2>1. n = 1 * h + (n - h) /\ n - h \in 0..h - 1
    BY <1>4
  <2> QED
    BY <2>1, DivUnique
<1>5. (0 % 2) = 0 /\ (1 % 2) = 1
  OBVIOUS
<1> QED
  BY <1>2, <1>3, <1>4, <1>5

(* The range of a varnum, with half = 2^(VarintBits - 1)                   *)
LEMMA VarnumRange ==
  ASSUME NEW max_bits \in {VarintBits, VarlongBits}, NEW n \in SignedRange(max_bits)
  PROVE  \E half \in Nat \ {0}, top \in Nat \ {0}, room \in Nat \ {0} :
           /\ half = 2^(VarintBits - 1) /\ 2^VarintBits = 2 * half
           /\ room = 2^(GroupBits * MAX_VARNUM_LEN)
           /\ n \in -top..top - 1 /\ top <= room /\ 2 * half <= room
           /\ max_bits = VarintBits => top = half
           /\ max_bits # VarintBits => max_bits > VarintBits
<1> DEFINE half == 2^(VarintBits - 1)
           top == 2^(max_bits - 1)
           room == 2^(GroupBits * MAX_VARNUM_LEN)
<1>1. /\ max_bits \in Nat \ {0} /\ max_bits - 1 \in Nat /\ VarintBits \in Nat \ {0}
      /\ GroupBits * MAX_VARNUM_LEN \in Nat /\ max_bits - 1 <= GroupBits * MAX_VARNUM_LEN
      /\ VarintBits <= GroupBits * MAX_VARNUM_LEN
  BY Widths
<1>2. /\ half \in Nat \ {0} /\ 2^VarintBits = 2 * half
      /\ top \in Nat \ {0} /\ room \in Nat \ {0}
  BY <1>1, HalfPower, PowerPositive
<1>3. top <= room /\ 2^VarintBits <= room
  BY <1>1, PowerMonotonic
<1>4. n \in -top..top - 1
  BY DEF SignedRange
<1>5. (max_bits = VarintBits => top = half) /\ (max_bits # VarintBits => max_bits > VarintBits)
  BY Widths
<1> HIDE DEF half, top, room
<1> QED
  BY <1>2, <1>3, <1>4, <1>5 DEF half, room

(* If all of the number was read, it is n unless it is lost; a number that *)
(* is negative even with its 32 bits is lost.                              *)
LEMMA MeantBack ==
  ASSUME NEW max_bits \in {VarintBits, VarlongBits}, NEW n \in SignedRange(max_bits),
         NEW m, m = pack_varnum_negative(n)
  PROVE  /\ n \in Int /\ m \in Int /\ m < 2^(GroupBits * MAX_VARNUM_LEN)
         /\ m \in Nat => (Meant(m) = n <=> ~VarnumLost(n, max_bits))
         /\ m < 0 => VarnumLost(n, max_bits) /\ \A x \in Nat : Meant(x) # n
<1>1. PICK half \in Nat \ {0}, top \in Nat \ {0}, room \in Nat \ {0} :
        /\ half = 2^(VarintBits - 1) /\ 2^VarintBits = 2 * half
        /\ room = 2^(GroupBits * MAX_VARNUM_LEN)
        /\ n \in -top..top - 1 /\ top <= room /\ 2 * half <= room
        /\ max_bits = VarintBits => top = half
        /\ max_bits # VarintBits => max_bits > VarintBits
  BY VarnumRange
<1>2. m = IF n < 0 THEN n + 2 * half ELSE n
  BY <1>1 DEF pack_varnum_negative
<1>3. n \in Int /\ m \in Int /\ m < room
  BY <1>1, <1>2
<1>4. \A x : Meant(x) = IF Bits(x, VarintBits - 1, 1) = 1 THEN x - 2 * half ELSE x
  BY <1>1 DEF Meant
<1>5. VarintBits \in Int
  BY Widths
<1>6. VarnumLost(n, max_bits) <=>
        /\ max_bits # VarintBits
        /\ \/ n \in Nat /\ Bits(n, VarintBits - 1, 1) = 1
           \/ n < -half
  BY <1>1, <1>5 DEF VarnumLost
<1>7. ASSUME m \in Nat PROVE Meant(m) = n <=> ~VarnumLost(n, max_bits)
  <2>1. CASE n >= 0
    <3>1. m = n /\ n \in Nat /\ ~(n < -half)
      BY <1>2, <1>3, <2>1
    <3>2. Meant(m) = n <=> ~(Bits(n, VarintBits - 1, 1) = 1)
      BY <1>1, <1>3, <1>4, <3>1
    <3>3. max_bits = VarintBits => ~(Bits(n, VarintBits - 1, 1) = 1)
      BY <1>1, <3>1, HighBit
    <3> QED
      BY <1>6, <3>1, <3>2, <3>3
  <2>2. CASE n < 0 /\ n >= -half
    <3>1. m = n + 2 * half /\ m \in half..2 * half - 1
      BY <1>2, <1>3, <2>2
    <3>2. Bits(m, VarintBits - 1, 1) = 1
      BY <1>1, <1>3, <3>1, HighBit
    <3>3. Meant(m) = n
      BY <1>3, <1>4, <3>1, <3>2
    <3> QED
      BY <1>3, <1>6, <2>2, <3>3
  <2>3. CASE n < -half
    <3>1. m = n + 2 * half /\ m \in 0..half - 1
      BY <1>2, <1>3, <1>7, <2>3
    <3>2. Bits(m, VarintBits - 1, 1) # 1
      BY <1>1, <1>3, <3>1, HighBit
    <3>3. Meant(m) # n
      BY <1>1, <1>3, <1>4, <2>3, <3>1, <3>2
    <3>4. max_bits # VarintBits
      BY <1>1, <2>3
    <3> QED
      BY <1>6, <2>3, <3>3, <3>4
  <2> QED
    BY <1>1, <1>3, <2>1, <2>2, <2>3
<1>8. ASSUME m < 0 PROVE VarnumLost(n, max_bits) /\ \A x \in Nat : Meant(x) # n
  <2>1. n < -(2 * half) /\ n < -half
    BY <1>1, <1>2, <1>3, <1>8
  <2>2. max_bits # VarintBits
    BY <1>1, <2>1
  <2>3. ASSUME NEW x \in Nat PROVE Meant(x) # n
    BY <1>1, <1>3, <1>4, <2>1
  <2> QED
    BY <1>6, <2>1, <2>2, <2>3
<1> QED
  BY <1>1, <1>3, <1>7, <1>8

LEMMA GivenIs ==
  ASSUME NEW d, NEW p, NEW q, NEW stack, NEW val, NEW x, NEW n, NEW max_bits,
         n \in SignedRange(max_bits)
  PROVE  Given(Ready(d, p, stack, val), x, max_bits) = Ready(d, q, stack, Num(n))
           <=> x = n /\ p = q
<1> DEFINE given == Given(Ready(d, p, stack, val), x, max_bits)
<1>1. CASE x \in SignedRange(max_bits)
  <2>1. given = Ready(d, p, stack, Num(x))
    BY <1>1 DEF Given, Return, Ready, Ok
  <2>2. Ready(d, p, stack, Num(x)) = Ready(d, q, stack, Num(n)) => p = q /\ Num(x) = Num(n)
    <3>1. /\ Ready(d, p, stack, Num(x)).pos = p /\ Ready(d, p, stack, Num(x)).val = Num(x)
          /\ Ready(d, q, stack, Num(n)).pos = q /\ Ready(d, q, stack, Num(n)).val = Num(n)
      BY DEF Ready
    <3> QED
      BY <3>1
  <2>3. Num(x) = Num(n) => x = n
    <3>1. Num(x).num = x /\ Num(n).num = n
      BY DEF Num
    <3> QED
      BY <3>1
  <2> QED
    BY <2>1, <2>2, <2>3
<1>2. CASE x \notin SignedRange(max_bits)
  <2>1. given.err = "ValueError" /\ Ready(d, q, stack, Num(n)).err = "none"
    BY <1>2 DEF Given, Raise, Ready, Ok
  <2>2. given # Ready(d, q, stack, Num(n))
    BY <2>1
  <2> QED
    BY <1>2, <2>2
<1> QED
  BY <1>1, <1>2

(* What unpack_varnum makes of n, written as the groups s of m.            *)
LEMMA VarnumReadBack ==
  ASSUME NEW max_bits \in {VarintBits, VarlongBits}, NEW n \in SignedRange(max_bits),
         NEW m, m = pack_varnum_negative(n), NEW s, Grouped(s, m),
         NEW d \in Seq(Byte), NEW p \in Nat, p + Len(s) <= Len(d),
         \A i \in 1..Len(s) : d[p + i] = s[i], NEW stack, NEW val
  PROVE  unpack_varnum(Ready(d, p, stack, val), max_bits)
             = Ready(d, p + Len(s), stack, Num(n))
           <=> ~VarnumLost(n, max_bits)
<1>1. /\ n \in Int /\ m \in Int /\ m < 2^(GroupBits * MAX_VARNUM_LEN)
      /\ m \in Nat => (Meant(m) = n <=> ~VarnumLost(n, max_bits))
      /\ m < 0 => VarnumLost(n, max_bits) /\ \A x \in Nat : Meant(x) # n
  BY MeantBack
<1>2. PICK last \in 1..MAX_VARNUM_LEN : last = IF m < 0 THEN 1 ELSE Len(s)
  BY Widths DEF Grouped
<1>3. PICK len \in 1..MAX_VARNUM_LEN : len = Len(s) /\ last <= len
  BY <1>1, <1>2, Widths DEF Grouped
<1>4. /\ p <= Len(d) /\ p + last <= Len(d) /\ MAX_VARNUM_LEN \in Nat
      /\ Len(d) \in Nat /\ \A i \in 1..last : d[p + i] = s[i]
  <2>1. Len(d) \in Nat /\ MAX_VARNUM_LEN \in Nat
    BY Widths
  <2>2. 1..last \subseteq 1..len
    BY <1>3, <2>1
  <2> QED
    BY <1>3, <2>1, <2>2
<1>5. \A i \in 1..last : (s[i] % 2^GroupBits) = (Left(m, i - 1) % 2^GroupBits)
  BY <1>3, Widths DEF Grouped
<1>6. \A i \in 1..last - 1 : ~(d[p + i] < 2^GroupBits)
  <2>1. SUFFICES ASSUME NEW i \in 1..last - 1 PROVE ~(d[p + i] < 2^GroupBits)
    OBVIOUS
  <2>2. ~(m < 0) /\ last = len
    BY <1>2, <1>3, <2>1
  <2>3. i \in 1..Len(s) - 1 /\ i \in 1..Len(s) /\ i \in 1..last /\ i \in Nat
    BY <1>3, <2>2, Widths
  <2>4. Left(m, i) # 0 /\ Left(m, i) \in Nat
    <3>1. m \in Nat
      BY <1>1, <2>2
    <3> QED
      BY <2>3, <3>1, LeftStep DEF Grouped
  <2>5. Left(m, i) > 0
    BY <2>4
  <2> QED
    BY <1>4, <2>3, <2>5 DEF Grouped
<1>7. d[p + last] < 2^GroupBits \/ last = MAX_VARNUM_LEN
  <2>1. last \in 1..Len(s) /\ last \in 1..last /\ last \in Nat
    BY <1>3, <1>4
  <2>2. CASE m < 0
    <3>1. Left(m, last) < 0 /\ Left(m, last) \in Int
      BY <1>1, <2>1, <2>2, LeftStep
    <3>2. ~(Left(m, last) > 0)
      BY <3>1
    <3> QED
      BY <1>4, <2>1, <3>2 DEF Grouped
  <2>3. CASE ~(m < 0)
    <3>1. Left(m, last) = 0 \/ last = MAX_VARNUM_LEN
      BY <1>2, <2>3 DEF Grouped
    <3>2. Left(m, last) = 0 => ~(Left(m, last) > 0)
      OBVIOUS
    <3> QED
      BY <1>4, <2>1, <3>1, <3>2 DEF Grouped
  <2> QED
    BY <2>2, <2>3
<1>8. PICK ahead \in Seq(Byte) :
        /\ last <= Len(ahead) /\ \A i \in 1..last : ahead[i] = d[p + i]
        /\ unpack_varnum(Ready(d, p, stack, val), max_bits)
             = Given(Ready(d, p + last, stack, val), Meant(FromGroups(ahead, last)), max_bits)
  <2>1. EndsAt(d, p, last)
    BY <1>4, <1>6, <1>7 DEF EndsAt
  <2>2. ReadsUpTo(d, p, last, stack, val, max_bits)
    BY <1>4, <2>1, UnpackVarnum
  <2> QED
    BY <2>2 DEF ReadsUpTo
<1>9. PICK raw \in Int : raw = FromGroups(ahead, last)
                         /\ m = raw + Left(m, last) * 2^(GroupBits * last)
  <2>1. \A i \in 1..last : (ahead[i] % 2^GroupBits) = (Left(m, i - 1) % 2^GroupBits)
    BY <1>4, <1>5, <1>8
  <2>2. last \in Nat
    BY <1>4
  <2> QED
    BY <1>1, <1>8, <2>1, <2>2, GroupsWorth
<1>10. unpack_varnum(Ready(d, p, stack, val), max_bits) = Ready(d, p + Len(s), stack, Num(n))
         <=> Meant(raw) = n /\ p + last = p + Len(s)
  BY <1>8, <1>9, GivenIs
<1>11. CASE m \in Nat
  <2>1. last = len
    BY <1>2, <1>3, <1>11
  <2>2. Left(m, last) = 0
    <3>1. CASE last = MAX_VARNUM_LEN
      <4>1. PICK room \in Nat \ {0} : room = 2^(GroupBits * MAX_VARNUM_LEN)
        <5>1. GroupBits * MAX_VARNUM_LEN \in Nat
          BY Widths
        <5> QED
          BY <5>1, PowerPositive
      <4>2. m \in 0..room - 1
        BY <1>1, <1>11, <4>1
      <4>3. (m \div room) = 0
        BY <4>1, <4>2, DivSmall
      <4>4. Left(m, MAX_VARNUM_LEN) = (m \div room)
        BY <4>1 DEF Left
      <4> QED
        BY <3>1, <4>3, <4>4
    <3>2. CASE last # MAX_VARNUM_LEN
      BY <1>3, <2>1, <3>2 DEF Grouped
    <3> QED
      BY <3>1, <3>2
  <2>3. 0 * 2^(GroupBits * last) = 0
    <3>1. GroupBits * last \in Nat
      BY Widths
    <3>2. 2^(GroupBits * last) \in Nat
      BY <3>1, PowerPositive
    <3> QED
      BY <3>2
  <2>4. raw = m
    BY <1>9, <2>2, <2>3
  <2> QED
    BY <1>1, <1>3, <1>10, <1>11, <2>1, <2>4
<1>12. CASE m < 0
  <2>1. last = 1
    BY <1>2, <1>12
  <2>2. PICK e \in Nat \ {0} : e = 2^GroupBits /\ e = 2^(GroupBits * 1)
    <3>1. GroupBits * 1 = GroupBits
      BY Widths
    <3> QED
      BY <3>1, GroupPower
  <2>3. m = Left(m, 0 + 1) * e + (m % e) /\ Left(m, 0 + 1) \in Int
    <3>1. /\ Left(m, 0 + 1) \in Int
          /\ Left(m, 0) = Left(m, 0 + 1) * 2^GroupBits + (Left(m, 0) % 2^GroupBits)
      BY <1>1, LeftStep
    <3>2. Left(m, 0) = m
      BY <1>1, LeftNothing
    <3> QED
      BY <2>2, <3>1, <3>2
  <2>4. 0 + 1 = 1
    OBVIOUS
  <2>5. PICK a \in Int : a = Left(m, 1) /\ m = a * e + (m % e) /\ m = raw + a * e
    BY <1>9, <2>1, <2>2, <2>3, <2>4
  <2>6. (m % e) \in Nat
    BY <1>1, <2>2
  <2>7. raw = (m % e)
    <3>1. PICK r \in Int, t \in Int : r = (m % e) /\ t = a * e
      BY <2>2, <2>6
    <3>2. m = t + r /\ m = raw + t
      BY <2>5, <3>1
    <3>3. \A x, y, z \in Int : m = z + x /\ m = y + z => y = x
      OBVIOUS
    <3>4. raw = r
      BY <3>1, <3>2, <3>3
    <3> QED
      BY <3>1, <3>4
  <2> QED
    BY <1>1, <1>10, <1>12, <2>6, <2>7
<1> QED
  BY <1>1, <1>11, <1>12

(* A varint or varlong is read back from where it was put, whatever comes  *)
(* behind it, except for exactly the numbers that are lost; as long as     *)
(* bytes of it are missing the buffer underruns.                           *)
THEOREM VarnumRoundTrip ==
  ASSUME NEW max_bits \in {VarintBits, VarlongBits}, NEW n \in SignedRange(max_bits),
         NEW before \in Seq(Byte), NEW after \in Seq(Byte), NEW pos, NEW stack, NEW val
  PROVE  LET s == Groups(pack_varnum_negative(n))
             start == Len(before)
             whole == before \o s \o after
         IN  /\ s \in Seq(Byte) /\ Len(s) \in 1..MAX_VARNUM_LEN
             /\ pack_varnum(Ready(before, pos, stack, val), n, max_bits)
                  = Ready(before \o s, pos, stack, val)
             /\ unpack_varnum(Ready(whole, start, stack, val), max_bits)
                    = Ready(whole, start + Len(s), stack, Num(n))
                  <=> ~VarnumLost(n, max_bits)
             /\ ~VarnumLost(n, max_bits) =>
                  \A k \in 0..Len(s) - 1 :
                    unpack_varnum(Ready(before \o SubSeq(s, 1, k), start, stack, val), max_bits).err
                      = "BufferUnderrun"
<1> DEFINE m == pack_varnum_negative(n)
           s == Groups(m)
           start == Len(before)
           whole == before \o s \o after
<1>1. m \in Int /\ (m < 0 => VarnumLost(n, max_bits))
  BY MeantBack
<1>2. Grouped(s, m)
  BY <1>1, GroupsAre
<1>3. s \in Seq(Byte) /\ Len(s) \in 1..MAX_VARNUM_LEN /\ MAX_VARNUM_LEN \in Nat
  BY <1>2, Widths DEF Grouped
<1>4. pack_varnum(Ready(before, pos, stack, val), n, max_bits) = Ready(before \o s, pos, stack, val)
  <2> HIDE DEF s
  <2> QED
    BY DEF pack_varnum, pack_bytes, Ready, Ok, s
<1> HIDE DEF m, s
<1>5. unpack_varnum(Ready(whole, start, stack, val), max_bits)
          = Ready(whole, start + Len(s), stack, Num(n))
        <=> ~VarnumLost(n, max_bits)
  <2>1. /\ whole \in Seq(Byte) /\ start \in Nat /\ start + Len(s) <= Len(whole)
        /\ \A i \in 1..Len(s) : whole[start + i] = s[i]
    BY <1>3, Between
  <2> HIDE DEF whole, start
  <2> QED
    BY <1>2, <2>1, VarnumReadBack DEF m
<1>6. ASSUME ~VarnumLost(n, max_bits), NEW k \in 0..Len(s) - 1
      PROVE  unpack_varnum(Ready(before \o SubSeq(s, 1, k), start, stack, val), max_bits).err
               = "BufferUnderrun"
  <2> DEFINE t == SubSeq(s, 1, k)
             d == before \o t
  <2>1. k \in Nat /\ k < MAX_VARNUM_LEN /\ 1..k \subseteq 1..Len(s) /\ 1..k \subseteq 1..Len(s) - 1
    BY <1>3
  <2>2. t \in Seq(Byte) /\ Len(t) = k /\ \A i \in 1..k : t[i] = s[i]
    BY <1>3, <2>1
  <2> HIDE DEF t
  <2>3. /\ d \in Seq(Byte) /\ Len(d) = start + k /\ start \in Nat
        /\ \A i \in 1..k : d[start + i] = s[i]
    <3>1. /\ Len(before) \in Nat /\ d \in Seq(Byte) /\ Len(d) = Len(before) + Len(t)
          /\ \A i \in 1..Len(before) + Len(t) :
               d[i] = IF i <= Len(before) THEN before[i] ELSE t[i - Len(before)]
      <4>1. t \in Seq(Byte)
        BY <2>2
      <4> QED
        BY <4>1, ConcatProperties
    <3>2. ASSUME NEW i \in 1..k PROVE d[start + i] = s[i]
      <4>1. /\ start + i \in 1..Len(before) + Len(t) /\ ~(start + i <= Len(before))
            /\ (start + i) - Len(before) = i
        BY <2>1, <2>2, <3>1
      <4> HIDE DEF d
      <4> QED
        BY <2>2, <3>1, <4>1
    <3> QED
      BY <2>1, <2>2, <3>1, <3>2
  <2> HIDE DEF d, start
  <2>4. ASSUME NEW i \in 1..k PROVE ~(d[start + i] < 2^GroupBits)
    <3>1. i \in 1..Len(s) - 1 /\ i \in 1..Len(s) /\ i \in Nat
      BY <2>1
    <3>2. m \in Nat
      BY <1>1, <1>6
    <3>3. Left(m, i) # 0 /\ Left(m, i) \in Nat
      BY <1>2, <3>1, <3>2, LeftStep DEF Grouped
    <3>4. Left(m, i) > 0
      BY <3>3
    <3>5. ~(s[i] < 2^GroupBits)
      BY <1>2, <3>1, <3>4 DEF Grouped
    <3> QED
      BY <2>3, <3>5
  <2>5. NothingEnds(d, start)
    <3>1. start <= Len(d) /\ Len(d) - start = k
      BY <2>1, <2>3
    <3> QED
      BY <2>1, <2>3, <2>4, <3>1 DEF NothingEnds
  <2>6. unpack_varnum(Ready(d, start, stack, val), max_bits).err = "BufferUnderrun"
    BY <2>5, UnpackVarnumUnderrun
  <2> QED
    BY <2>6 DEF d, t
<1> QED
  BY <1>3, <1>4, <1>5, <1>6 DEF s, m

=============================================================================
