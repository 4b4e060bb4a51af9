--------------------------- MODULE ProtodefWire ----------------------------
(***************************************************************************)
(* The reference for Codec: the bytes that the other implementations of    *)
(* the protocol write for a value.  Outside the repository.  ctx is the    *)
(* containers around the value.                                            *)
(***************************************************************************)
EXTENDS Codec

Twos(n, bits) == n % 2^bits
WireVarnum(n, max_bits) ==
    LET m == Twos(n, max_bits)
        last == Min({i \in 1..MAX_VARNUM_LEN : m < 2^(GroupBits * i)})
    IN  [i \in 1..last |-> Bits(m, GroupBits * (i - 1), GroupBits)
                           + IF i < last THEN 2^GroupBits ELSE 0]
WireInt(n, size) == BigEndian(Twos(n, ByteBits * size), size)

WireVar(ctx, path) ==
    FoldLeft(LAMBDA v, part : IF "flags" \in DOMAIN v THEN [bool |-> Contains(v.flags, part)]
                                                      ELSE v.dict[part],
             ctx[Len(ctx) - path.up], path.names)

\* The type of the elements of an NBT list
ElementType(v) == IF v.list = <<>> THEN "end"
                  ELSE IF "num" \in DOMAIN v.list[1] THEN "int"
                  ELSE IF "text" \in DOMAIN v.list[1] THEN "string" ELSE "compound"
WireNbtString(text) == WireInt(Len(FlattenSeq(text)), 2) \o FlattenSeq(text)
RECURSIVE WireNbt(_, _)
WireTag(v) == <<NbtId(v.tag)>> \o WireNbtString(v.name.text) \o WireNbt(v.tag, v.value)
WireNbt(type, v) ==
    LET counted(of) == WireInt(Len(v.list), 4)
                       \o FlattenSeq([i \in DOMAIN v.list |-> WireNbt(of, v.list[i])])
    IN  CASE type \in NbtNumbers -> WireInt(v.num, NbtSize(type))
          [] type = "string" -> WireNbtString(v.text)
          [] type = "byte_array" -> counted("byte")
          [] type = "int_array" -> counted("int")
          [] type = "list" -> <<NbtId(ElementType(v))>> \o counted(ElementType(v))
          [] type = "compound" ->
                FlattenSeq([i \in DOMAIN v.list |-> WireTag(v.list[i])]) \o <<0>>

RECURSIVE Wire(_, _, _)
\* The type a switch selects
Selected(t, ctx) ==
    LET v == WireVar(ctx, t.compareTo)
        key == IF v = [bool |-> TRUE] THEN "true" ELSE IF v = [bool |-> FALSE] THEN "false" ELSE Str(v)
    IN  IF key \in DOMAIN t.fields THEN t.fields[key] ELSE t.default
FieldValue(f, v) == IF f.name = "" THEN v ELSE v.dict[f.name]
Wire(t, v, ctx) ==
    LET all(type, s) == FlattenSeq([i \in DOMAIN s |-> Wire(type, s[i], ctx)])
        count(n) == IF "countType" \in DOMAIN t THEN Wire(t.countType, Num(n), ctx) ELSE <<>>
        flat(s) == count(Len(s)) \o s
    IN  CASE t.t = "varnum" -> WireVarnum(v.num, t.max_bits)
          [] t.t = "int" -> WireInt(v.num, t.size)
          [] t.t = "bool" -> <<IF v.bool THEN 1 ELSE 0>>
          [] t.t = "void" -> <<>>
          [] t.t \in {"restBuffer", "buffer"} -> flat(v.bytes)
          [] t.t = "pstring" -> flat(FlattenSeq(v.text))
          [] t.t = "container" ->
                FlattenSeq([i \in DOMAIN t.fields |->
                    Wire(t.fields[i].type, FieldValue(t.fields[i], v), Append(ctx, v))])
          [] t.t = "switch" -> Wire(Selected(t, ctx), v, ctx)
          [] t.t = "option" -> IF v = None THEN <<0>> ELSE <<1>> \o Wire(t.of, v, ctx)
          [] t.t = "array" -> count(Len(v.list)) \o all(t.type, v.list)
          [] t.t = "bitfield" ->
                BigEndian(FoldLeft(LAMBDA n, f : n * 2^f.size + Twos(v.dict[f.name].num, f.size),
                                   0, t.fields), FieldBytes(t.fields))
          [] t.t = "entityMetadataLoop" ->
                LET order == SetToSortSeq(DOMAIN v.meta, <)
                IN  FlattenSeq([i \in DOMAIN order |->
                        <<order[i]>> \o Wire(t.type, v.meta[order[i]], ctx)]) \o <<t.endVal>>
          [] t.t = "mapper" ->
                LET m == SelectInSeq(t.mappings, LAMBDA x : x.name = v.name)
                IN  Wire(t.type, t.mappings[m].key, ctx)
          [] t.t = "bitflags" ->
                Wire(t.type, Num(SumSet({2^(i - 1) : i \in {j \in DOMAIN t.flags :
                                    Contains(v.flags, t.flags[j])}})), ctx)
          [] t.t = "registryEntryHolderSet" ->
                IF t.base.name \in DOMAIN v.dict
                THEN WireVarnum(0, VarintBits) \o Wire(t.base.type, v.dict[t.base.name], ctx)
                ELSE LET s == v.dict[t.otherwise.name].list
                     IN  WireVarnum(Len(s) + 1, VarintBits) \o all(t.otherwise.type, s)
          [] t.t = "nbt" -> WireTag(v)
          [] t.t = "anonOptionalNbt" -> IF v = None THEN <<0>>
                                        ELSE <<NbtId(v.tag)>> \o WireNbt(v.tag, v.value)

=============================================================================
