------------------------------- MODULE Codec -------------------------------
(***************************************************************************)
(* The codec, types/buffer.py: what pack and unpack do to a buffer, for    *)
(* the types of protodef and for NBT.  CodecCalls makes calls of them.     *)
(*                                                                         *)
(* A type is a record whose field t is its protodef name.  A character is  *)
(* the sequence of its UTF-8 bytes.  Floats, UUIDs, JSON and the 64 bit    *)
(* integers are left out, and so is topBitSetTerminatedArray, which        *)
(* assigns to immutable bytes.                                             *)
(***************************************************************************)
EXTENDS CodecNumbers, Bitwise

\* UTF-8: which bytes go on with a character, and how many its first announces.
Continues(x) == x \in 2^GroupBits..(3 * 2^(GroupBits - 1) - 1)
CharLen(x) == IF x < 2^GroupBits THEN 1 ELSE 2
decode(b) ==
    LET bytes == b.val.bytes
        starts == SetToSortSeq({i \in DOMAIN bytes : ~Continues(bytes[i])}, <)
        end(k) == IF k = Len(starts) THEN Len(bytes) ELSE starts[k + 1] - 1
        chars == [k \in DOMAIN starts |-> SubSeq(bytes, starts[k], end(k))]
    IN  IF ~Ok(b) THEN b
        ELSE IF /\ bytes # <<>> => ~Continues(bytes[1])
                /\ \A k \in DOMAIN chars : Len(chars[k]) = CharLen(chars[k][1])
        THEN Return(b, Text(chars))
        ELSE Raise(b, "UnicodeDecodeError")

---------------------------------------------------------------------------
(* Protodef.  A call on a buffer with an exception in flight does nothing, *)
(* so that calls compose.                                                  *)

\* str() of what a switch compares
Str(v) == CASE "num" \in DOMAIN v -> ToString(v.num)
            [] "bool" \in DOMAIN v -> IF v.bool THEN "True" ELSE "False"
            [] "name" \in DOMAIN v -> v.name
            [] OTHER -> "?"
UNPACK_SWITCH_SPECIAL_VALUES_none(key) == key
UNPACK_SWITCH_SPECIAL_VALUES(key) ==
    CASE key = "True" -> "true" [] key = "False" -> "false" [] OTHER -> key

\* A path goes up from the innermost container and then down by names.
Level_outermost(b, path) == 1
Level(b, path) == Len(b.stack) - path.up
get_var(b, path) ==
    LET top == Level(b, path)
        down(r, part) ==
            IF ~Ok(r) THEN r
            ELSE IF "dict" \notin DOMAIN r.val THEN Raise(r, "TypeError")
            ELSE IF part \notin DOMAIN r.val.dict THEN Raise(r, "KeyError")
            ELSE Return(r, r.val.dict[part])
    IN  IF top < 1 THEN Raise(b, "IndexError")
        ELSE FoldLeft(down, Return(b, b.stack[top]), path.names)

BitCount(fields) == FoldLeft(LAMBDA n, f : n + f.size, 0, fields)
Below(fields, i) == BitCount(SubSeq(fields, i + 1, Len(fields)))
\* The code has functions for 8, 16, 32 and 64 bits.
FieldBytes(fields) == BitCount(fields) \div ByteBits

pack_bitfield(t, v, b) ==
    LET bits(f) == v.dict[f.name].num + (IF v.dict[f.name].num < 0 THEN 2^f.size ELSE 0)
        shifted == [i \in DOMAIN t.fields |-> bits(t.fields[i]) * 2^Below(t.fields, i)]
    IN  IF \E i \in DOMAIN shifted : shifted[i] < 0 THEN Raise(b, "struct.error")
        ELSE pack_int(b, FoldLeft(LAMBDA n, x : n | x, 0, shifted), FieldBytes(t.fields), FALSE)
unpack_bitfield(t, b) ==
    LET field(whole, i) == LET f == t.fields[i]
                               n == Bits(whole, Below(t.fields, i), f.size)
                           IN  Num(IF f.signed /\ n >= 2^(f.size - 1) THEN n - 2^f.size ELSE n)
        at(name) == CHOOSE i \in DOMAIN t.fields : t.fields[i].name = name
    IN  Then(unpack_int(b, FieldBytes(t.fields), FALSE), LAMBDA r :
            Return(r, Dict([n \in {f.name : f \in ToSet(t.fields)} |-> field(r.val.num, at(n))])))

NBT_TYPE_MAP == <<"byte", "short", "int", "long", "float", "double", "byte_array",
                  "string", "list", "compound", "int_array", "long_array">>
NbtId(type) == IF type = "end" THEN 0
               ELSE CHOOSE i \in DOMAIN NBT_TYPE_MAP : NBT_TYPE_MAP[i] = type
NbtSize(type) == CASE type \in {"byte", "byte_array"} -> 1
                   [] type = "short" -> 2
                   [] type \in {"int", "int_array"} -> 4
NbtNumbers == {"byte", "short", "int"}
NbtArrays == {"byte_array", "int_array"}

pack_nbt_string(text, b) ==
    LET bytes == FlattenSeq(text) IN pack_bytes(pack_int(b, Len(bytes), 2, TRUE), bytes)
unpack_nbt_string(b) ==
    Then(unpack_int(b, 2, TRUE), LAMBDA n : decode(unpack_bytes(n, n.val.num)))

\* The byte that says of what type a tag or the elements of a list are
unpack_nbt_type(b) ==
    Then(unpack_int(b, 1, TRUE), LAMBDA id :
        CASE id.val.num = 0 -> Return(id, [name |-> "end"])
          [] id.val.num \in DOMAIN NBT_TYPE_MAP -> Return(id, [name |-> NBT_TYPE_MAP[id.val.num]])
          [] OTHER -> Raise(id, "KeyError"))

\* A list is packed from its type and its elements, and written without its
\* type; the end of a compound is packed as an anonymous tag, which fails.
RECURSIVE pack_nbt_value(_, _, _), unpack_nbt_value(_, _)
pack_nbt(b, tag) ==
    pack_nbt_value(tag.tag, tag.value,
        pack_nbt_string(tag.name.text, pack_int(b, NbtId(tag.tag), 1, TRUE)))
pack_nbt_value(type, v, b) ==
    LET counted(of, s) == FoldLeft(LAMBDA r, x : pack_nbt_value(of, x, r),
                                   pack_int(b, Len(s), 4, TRUE), s)
    IN  IF ~Ok(b) THEN b ELSE
        CASE type \in NbtNumbers -> pack_int(b, v.num, NbtSize(type), TRUE)
          [] type = "string" -> pack_nbt_string(v.text, b)
          [] type = "byte_array" -> counted("byte", v.list)
          [] type = "int_array" -> counted("int", v.list)
          [] type = "list" -> IF "of" \in DOMAIN v THEN counted(v.of, v.list)
                                                   ELSE Raise(b, "TypeError")
          [] type = "compound" -> Raise(FoldLeft(pack_nbt, b, v.list), "IndexError")

\* A tag, or None for the end of a compound
unpack_nbt(b) ==
    LET value(id, name) == Then(unpack_nbt_value(id.val.name, name), LAMBDA e :
            Return(e, [tag |-> id.val.name, name |-> name.val, value |-> e.val]))
    IN  Then(unpack_nbt_type(b), LAMBDA id :
            IF id.val.name = "end" THEN Return(id, None)
            ELSE Then(unpack_nbt_string(id), LAMBDA name : value(id, name)))

RECURSIVE unpack_nbt_compound(_)
unpack_nbt_compound(b) ==
    Then(unpack_nbt(b), LAMBDA e :
        IF e.val = None THEN Return(e, b.val)
        ELSE unpack_nbt_compound(Return(e, List(Append(b.val.list, e.val)))))

unpack_nbt_value(type, b) ==
    LET element(of, r) == Then(unpack_nbt_value(of, r), LAMBDA e :
                               Return(e, List(Append(r.val.list, e.val))))
        counted(of, r) == Then(unpack_int(r, 4, TRUE), LAMBDA n :
            IF of = "end" /\ n.val.num > 0 THEN Raise(n, "ValueError")
            ELSE FoldLeft(LAMBDA s, i : element(of, s),
                          Return(n, List(<<>>)), [i \in 1..n.val.num |-> i]))
    IN  IF ~Ok(b) THEN b ELSE
        CASE type \in NbtNumbers -> unpack_int(b, NbtSize(type), TRUE)
          [] type = "string" -> unpack_nbt_string(b)
          [] type \in NbtArrays -> counted(IF type = "byte_array" THEN "byte" ELSE "int", b)
          [] type = "list" -> Then(unpack_nbt_type(b), LAMBDA of : counted(of.val.name, of))
          [] type = "compound" -> unpack_nbt_compound(Return(b, List(<<>>)))

closed(r) == IF Ok(r) THEN [r EXCEPT !.stack = Front(@)] ELSE r

RECURSIVE pack(_, _, _), unpack(_, _)

pack_container(t, v, b) ==
    LET field(r, f) == IF ~Ok(r) THEN r
                       ELSE IF f.name \notin DOMAIN v.dict THEN Raise(r, "KeyError")
                       ELSE pack(f.type, v.dict[f.name], r)
    IN  closed(FoldLeft(field, [b EXCEPT !.stack = Append(@, v)], t.fields))

pack_switch(t, v, b) ==
    Then(get_var(b, t.compareTo), LAMBDA r :
        IF Str(r.val) \in DOMAIN t.fields THEN pack(t.fields[Str(r.val)], v, r)
                                          ELSE Raise(r, "KeyError"))

pack_array(t, v, b) ==
    IF "countType" \notin DOMAIN t THEN Raise(b, "KeyError")
    ELSE FoldLeft(LAMBDA r, x : pack(t.type, x, r),
                  pack(t.countType, Num(Len(v.list)), b), v.list)

pack_buffer(t, v, b) ==
    pack_bytes(IF "countType" \in DOMAIN t THEN pack(t.countType, Num(Len(v.bytes)), b) ELSE b,
               v.bytes)

\* Every mapping to the name is packed: none if there is none.
pack_mapper(t, v, b) ==
    FoldLeft(LAMBDA r, m : IF m.name = v.name THEN pack(t.type, m.key, r) ELSE r,
             b, t.mappings)

pack_entity_metadata_loop(t, v, b) ==
    pack_int(FoldLeft(LAMBDA r, i : pack(t.type, v.meta[i], pack_int(r, i, 1, FALSE)),
                      b, SetToSortSeq(DOMAIN v.meta, <)),
             t.endVal, 1, FALSE)

FlagBit(i) == 2^i           \* 2 << i, where i counts from 0
pack_bitflags(t, v, b) ==
    pack(t.type, Num(SumSet({FlagBit(i) : i \in {j \in DOMAIN t.flags :
                                                 Contains(v.flags, t.flags[j])}})), b)

pack_registry_entry_holder_set(t, v, b) ==
    IF t.base.name \in DOMAIN v.dict
    THEN pack(t.base.type, v.dict[t.base.name], pack_varnum(b, 0, VarintBits))
    ELSE Raise(b, "KeyError")

pack(t, v, b) ==
    IF ~Ok(b) THEN b ELSE
    CASE t.t = "varnum" -> pack_varnum(b, v.num, t.max_bits)
      [] t.t = "int" -> pack_int(b, v.num, t.size, t.signed)
      [] t.t = "bool" -> pack_bytes(b, <<IF v.bool THEN 1 ELSE 0>>)
      [] t.t = "void" -> Raise(b, "TypeError")
      [] t.t = "restBuffer" -> pack_bytes(b, v.bytes)
      [] t.t = "container" -> pack_container(t, v, b)
      [] t.t = "switch" -> pack_switch(t, v, b)
      [] t.t = "pstring" -> pack_bytes(pack(t.countType, Num(Len(v.text)), b), FlattenSeq(v.text))
      [] t.t = "option" -> IF v = None THEN pack_bytes(b, <<0>>)
                                       ELSE pack(t.of, v, pack_bytes(b, <<1>>))
      [] t.t = "bitfield" -> pack_bitfield(t, v, b)
      [] t.t = "array" -> pack_array(t, v, b)
      [] t.t = "buffer" -> pack_buffer(t, v, b)
      [] t.t = "entityMetadataLoop" -> pack_entity_metadata_loop(t, v, b)
      [] t.t = "mapper" -> pack_mapper(t, v, b)
      [] t.t = "bitflags" -> pack_bitflags(t, v, b)
      [] t.t = "registryEntryHolderSet" -> pack_registry_entry_holder_set(t, v, b)
      [] t.t = "nbt" -> pack_nbt(b, v)
      [] t.t = "anonOptionalNbt" -> IF v = None THEN pack_int(b, 0, 1, TRUE)
                                                ELSE Raise(b, "IndexError")

\* What a loop reads is appended to the list that the buffer holds as its value.
unpack_element(type, r) ==
    Then(unpack(type, r), LAMBDA e : Return(e, List(Append(r.val.list, e.val))))
unpack_times(type, r, n) ==
    FoldLeft(LAMBDA s, i : unpack_element(type, s), Return(r, List(<<>>)), [i \in 1..n |-> i])

\* The innermost container is the one being filled.
unpack_container(t, b) ==
    LET filled(r, read) == [r EXCEPT !.stack[Len(r.stack)] = Dict(read @@ @.dict)]
        field(r, f) == Then(unpack(f.type, r), LAMBDA e :
                         IF f.name # "" THEN filled(e, f.name :> e.val)
                         ELSE IF "dict" \in DOMAIN e.val THEN filled(e, e.val.dict)
                         ELSE e)
    IN  Then(FoldLeft(field, [b EXCEPT !.stack = Append(@, Dict(<<>>))], t.fields),
             LAMBDA r : closed(Return(r, Last(r.stack))))

unpack_switch(t, b) ==
    LET of(key) == IF key \in DOMAIN t.fields THEN t.fields[key] ELSE t.default
    IN  Then(get_var(b, t.compareTo), LAMBDA r :
            unpack(of(UNPACK_SWITCH_SPECIAL_VALUES(Str(r.val))), r))

unpack_array(t, b) ==
    Then(IF "countType" \in DOMAIN t THEN unpack(t.countType, b) ELSE get_var(b, t.count),
         LAMBDA n : unpack_times(t.type, n, n.val.num))

\* The bytes of a buffer or a string, as many as a number before them says
unpack_counted(countType, b) ==
    Then(unpack(countType, b), LAMBDA n : unpack_bytes(n, n.val.num))

unpack_buffer(t, b) ==
    IF "count" \in DOMAIN t THEN unpack_bytes(b, t.count) ELSE unpack_counted(t.countType, b)

RECURSIVE unpack_entity_metadata_loop(_, _)
unpack_entity_metadata_loop(t, b) ==
    LET with(index, e) == [meta |-> (index.val.num :> e.val) @@ b.val.meta]
    IN  Then(unpack_int(b, 1, FALSE), LAMBDA index :
            IF index.val.num = t.endVal THEN Return(index, b.val)
            ELSE Then(unpack(t.type, index), LAMBDA e :
                    unpack_entity_metadata_loop(t, Return(e, with(index, e)))))

unpack_mapper(t, b) ==
    LET found(key) == SelectInSeq(t.mappings, LAMBDA m : m.key = key)
    IN  Then(unpack(t.type, b), LAMBDA key :
            IF found(key.val) = 0 THEN Raise(key, "KeyError")
            ELSE Return(key, [name |-> t.mappings[found(key.val)].name]))

unpack_bitflags(t, b) ==
    LET set(n) == SelectSeq(t.flags, LAMBDA f : \E i \in DOMAIN t.flags :
                                t.flags[i] = f /\ (n \div FlagBit(i)) % 2 = 1)
    IN  Then(unpack(t.type, b), LAMBDA n : Return(n, [flags |-> set(n.val.num)]))

\* Every value read is kept under the same name, so that the last one stays.
unpack_registry_entry_holder_set(t, b) ==
    LET read(of, n, times) == Then(unpack_times(of.type, n, times), LAMBDA e :
                                   Return(e, Dict(of.name :> Last(e.val.list))))
    IN  Then(unpack_varnum(b, VarintBits), LAMBDA n :
            IF n.val.num = 0 THEN read(t.base, n, 1) ELSE read(t.otherwise, n, n.val.num))

unpack(t, b) ==
    IF ~Ok(b) THEN b ELSE
    CASE t.t = "varnum" -> unpack_varnum(b, t.max_bits)
      [] t.t = "int" -> unpack_int(b, t.size, t.signed)
      [] t.t = "bool" -> Then(unpack_int(b, 1, FALSE), LAMBDA n :
                              Return(n, [bool |-> n.val # Num(0)]))
      [] t.t = "void" -> Return(b, None)
      [] t.t = "restBuffer" -> unpack_bytes(b, Len(b.data) - b.pos)
      [] t.t = "container" -> unpack_container(t, b)
      [] t.t = "switch" -> unpack_switch(t, b)
      [] t.t = "pstring" -> decode(unpack_counted(t.countType, b))
      [] t.t = "option" -> Then(unpack_int(b, 1, FALSE), LAMBDA n :
                                IF n.val = Num(0) THEN Return(n, None) ELSE unpack(t.of, n))
      [] t.t = "bitfield" -> unpack_bitfield(t, b)
      [] t.t = "array" -> unpack_array(t, b)
      [] t.t = "buffer" -> unpack_buffer(t, b)
      [] t.t = "entityMetadataLoop" ->
            unpack_entity_metadata_loop(t, Return(b, [meta |-> <<>>]))
      [] t.t = "mapper" -> unpack_mapper(t, b)
      [] t.t = "bitflags" -> unpack_bitflags(t, b)
      [] t.t = "registryEntryHolderSet" -> unpack_registry_entry_holder_set(t, b)
      [] t.t = "nbt" -> unpack_nbt(b)
      [] t.t = "anonOptionalNbt" ->
            Then(unpack_nbt_type(b), LAMBDA id :
                IF id.val.name = "end" THEN Return(id, None)
                ELSE Then(unpack_nbt_value(id.val.name, id), LAMBDA e :
                        Return(e, [tag |-> id.val.name, value |-> e.val])))

=============================================================================
