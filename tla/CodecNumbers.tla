---------------------------- MODULE CodecNumbers ----------------------------
(***************************************************************************)
(* What the codec, types/buffer.py, is built from: the buffer and the      *)
(* numbers in it, integers of a number of bytes and varnums.               *)
(*                                                                         *)
(* Widths are scaled: a byte has GroupBits + 1 bits, a varint VarintBits   *)
(* and a varlong VarlongBits (7 + 1, 32 and 64 in the code).  A value is a *)
(* record whose only field says of what kind it is, and a Buffer a record  *)
(* with the last value read and the exception in flight, if any.           *)
(***************************************************************************)
EXTENDS Integers, SequencesExt

CONSTANTS GroupBits, VarintBits, VarlongBits, MAX_VARNUM_LEN

ASSUME WidthsNat == {GroupBits, VarintBits, VarlongBits, MAX_VARNUM_LEN} \subseteq Nat \ {0}
ASSUME WidthsFit == /\ GroupBits * MAX_VARNUM_LEN >= VarlongBits
                    /\ VarlongBits > VarintBits

Num(n) == [num |-> n]
None == [none |-> TRUE]
Text(chars) == [text |-> chars]
List(s) == [list |-> s]
Dict(f) == [dict |-> f]
Buffer(data, stack) ==
    [data |-> data, pos |-> 0, stack |-> stack, val |-> None, err |-> "none"]
Ok(b) == b.err = "none"
Raise(b, e) == IF Ok(b) THEN [b EXCEPT !.err = e] ELSE b
Return(b, v) == IF Ok(b) THEN [b EXCEPT !.val = v] ELSE b
Then(b, Call(_)) == IF Ok(b) THEN Call(b) ELSE b

---------------------------------------------------------------------------
(* Bytes and numbers                                                       *)

ByteBits == GroupBits + 1
Bits(n, from, count) == (n \div 2^from) % 2^count
BigEndian(n, size) ==
    [i \in 1..size |-> (n \div 2^(ByteBits * (size - i))) % 2^ByteBits]
FromBigEndian(bytes) ==
    LET number[k \in 0..Len(bytes)] ==
            IF k = 0 THEN 0 ELSE number[k - 1] * 2^ByteBits + bytes[k]
    IN  number[Len(bytes)]
SignedRange(bits) == -(2^(bits - 1))..(2^(bits - 1) - 1)
IntRange(size, signed) ==
    IF signed THEN SignedRange(ByteBits * size) ELSE 0..(2^(ByteBits * size) - 1)

pack_bytes(b, bytes) == IF Ok(b) THEN [b EXCEPT !.data = @ \o bytes] ELSE b

\* A place in the bytes as slices take it: a negative one counts from the end,
\* one too large is the end.
Place(b, i) == IF i < 0 THEN Max({0, Len(b.data) + i}) ELSE Min({i, Len(b.data)})
Slice(b, count) == SubSeq(b.data, Place(b, b.pos) + 1, Place(b, b.pos + count))
Advance(b, count) == [b EXCEPT !.pos = @ + count, !.val = [bytes |-> Slice(b, count)]]
unpack_bytes_unchecked(b, count) == IF Ok(b) THEN Advance(b, count) ELSE b
unpack_bytes(b, count) ==
    IF ~Ok(b) THEN b
    ELSE IF count # 0 /\ Len(b.data) - b.pos < count THEN Raise(b, "BufferUnderrun")
    ELSE Advance(b, count)

pack_int(b, n, size, signed) ==
    IF n \in IntRange(size, signed) THEN pack_bytes(b, BigEndian(n, size))
                                    ELSE Raise(b, "struct.error")
unpack_int(b, size, signed) ==
    LET twos(n) == IF n \in IntRange(size, signed) THEN n ELSE n - 2^(ByteBits * size)
    IN  Then(unpack_bytes(b, size), LAMBDA r : Return(r, Num(twos(FromBigEndian(r.val.bytes)))))

\* A negative number is given 32 bits, whatever its width.
pack_varnum_negative_kept(n) == n
pack_varnum_negative(n) == IF n < 0 THEN n + 2^VarintBits ELSE n
\* The groups of m, the lowest first: a byte says whether another one follows.
Groups(m) ==
    LET rest(i) == m \div 2^(GroupBits * i)
        last == Min({i \in 1..MAX_VARNUM_LEN : rest(i) = 0} \cup {MAX_VARNUM_LEN})
    IN  [i \in 1..last |-> (rest(i - 1) % 2^GroupBits)
                           + IF rest(i) > 0 THEN 2^GroupBits ELSE 0]
pack_varnum(b, n, max_bits) ==
    IF n \in SignedRange(max_bits) THEN pack_bytes(b, Groups(pack_varnum_negative(n)))
                                   ELSE Raise(b, "ValueError")

\* What the first groups are worth
FromGroups(bytes, last) ==
    LET number[i \in 0..last] ==
            IF i = 0 THEN 0
            ELSE number[i - 1] + (bytes[i] % 2^GroupBits) * 2^(GroupBits * (i - 1))
    IN  number[last]
unpack_varnum(b, max_bits) ==
    LET ahead == Slice(b, MAX_VARNUM_LEN)
        ends == {i \in DOMAIN ahead : ahead[i] < 2^GroupBits \/ i = MAX_VARNUM_LEN}
        last == Min(ends)
        raw == FromGroups(ahead, last)
        n == IF Bits(raw, VarintBits - 1, 1) = 1 THEN raw - 2^VarintBits ELSE raw
        r == [b EXCEPT !.pos = @ + last]
    IN  IF ends = {} THEN Raise([b EXCEPT !.pos = Len(b.data)], "BufferUnderrun")
        ELSE IF n \in SignedRange(max_bits) THEN Return(r, Num(n))
        ELSE Raise(r, "ValueError")

\* What pack_varnum writes without an error and unpack_varnum does not read back:
\* varlongs with the bit that is the sign of a varint, and those below a varint.
VarnumLost(n, max_bits) ==
    /\ max_bits > VarintBits
    /\ \/ n \in Nat /\ Bits(n, VarintBits - 1, 1) = 1
       \/ n < -(2^(VarintBits - 1))

=============================================================================
