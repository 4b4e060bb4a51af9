------------------------------ MODULE MCCodec ------------------------------
(* The types and values the codec is checked with: bytes of 5 bits, 6 bits *)
(* to a varint and 9 to a varlong, every number of both.                    *)
EXTENDS CodecCalls

Sample(type, val) == [type |-> type, val |-> val, peer |-> TRUE]
\* A value that the protocol does not have: a mistake of the caller
Mistake(type, val) == [type |-> type, val |-> val, peer |-> FALSE]

varint == [t |-> "varnum", max_bits |-> VarintBits]
varlong == [t |-> "varnum", max_bits |-> VarlongBits]
u8 == [t |-> "int", size |-> 1, signed |-> FALSE]
i8 == [t |-> "int", size |-> 1, signed |-> TRUE]
i16 == [t |-> "int", size |-> 2, signed |-> TRUE]
bool == [t |-> "bool"]
void == [t |-> "void"]
string == [t |-> "pstring", countType |-> varint]
Field(name, type) == [name |-> name, type |-> type]
Anon(type) == Field("", type)
Container(fields) == [t |-> "container", fields |-> fields]
Switch(up, names, fields, default) ==
    [t |-> "switch", compareTo |-> [up |-> up, names |-> names], fields |-> fields, default |-> default]
Bits3(name, size, signed) == [name |-> name, size |-> size, signed |-> signed]
True == [bool |-> TRUE]
False == [bool |-> FALSE]
a == <<1>>
e_acute == <<24, 17>>
Name(n) == [name |-> n]
Bytes(s) == [bytes |-> s]
Flags(s) == [flags |-> s]

numbers == [i \in 1..64 |-> Sample(varint, Num(i - 33))]
        \o [i \in 1..512 |-> Sample(varlong, Num(i - 257))]
        \o <<Mistake(varint, Num(32)), Mistake(varint, Num(-33)),
             Sample(i8, Num(-16)), Sample(u8, Num(31)), Mistake(u8, Num(32)), Sample(i16, Num(-512)),
             Sample(i16, Num(33)), Sample(bool, True), Sample(bool, False)>>

option == [t |-> "option", of |-> varint]
texts == <<Sample(string, Text(<<>>)), Sample(string, Text(<<a, a>>)),
           Sample(string, Text(<<e_acute>>)), Sample(string, Text(<<e_acute, a>>)),
           Sample([t |-> "restBuffer"], Bytes(<<7, 31>>)),
           Sample([t |-> "buffer", countType |-> varint], Bytes(<<31, 0>>)),
           Sample([t |-> "buffer", count |-> 2], Bytes(<<5, 6>>)),
           Mistake([t |-> "buffer", count |-> 2], Bytes(<<5>>)),
           Sample(option, None), Sample(option, Num(-1))>>

position == [t |-> "bitfield", fields |-> <<Bits3("x", 4, TRUE), Bits3("z", 4, TRUE), Bits3("y", 2, FALSE)>>]
At(x, z, y) == Dict([x |-> Num(x), z |-> Num(z), y |-> Num(y)])
mapper == [t |-> "mapper", type |-> varint,
           mappings |-> <<[key |-> Num(0), name |-> "add"], [key |-> Num(20), name |-> "move"],
                          [key |-> Num(2), name |-> "same"], [key |-> Num(3), name |-> "same"]>>]
flags == [t |-> "bitflags", type |-> u8, flags |-> <<"p", "q", "r", "s">>]
full_flags == [t |-> "bitflags", type |-> u8, flags |-> <<"p", "q", "r", "s", "l">>]
id_set == [t |-> "registryEntryHolderSet", base |-> Field("name", string), otherwise |-> Field("ids", varint)]
tables == <<Sample(position, At(-8, 7, 3)), Sample(position, At(3, -1, 0)), Mistake(position, At(1, 8, 1)),
            Mistake(position, At(1, 17, 1)), Mistake(position, At(16, 0, 0)), Mistake(position, At(-17, 0, 0)),
            Mistake(position, At(0, 0, -1)),
            Sample(mapper, Name("add")), Sample(mapper, Name("move")), Mistake(mapper, Name("same")),
            Mistake(mapper, Name("unknown")),
            Sample(flags, Flags(<<>>)), Sample(flags, Flags(<<"p">>)), Sample(flags, Flags(<<"q", "s">>)),
            Mistake(flags, Flags(<<"x">>)), Sample(full_flags, Flags(<<"p", "l">>)),
            Sample(id_set, Dict([name |-> Text(<<a>>)])),
            Sample(id_set, Dict([ids |-> List(<<Num(3), Num(-1)>>)]))>>

\* As the packets are described: a name that selects the type of the parameters
packet == Container(<<Field("name", mapper),
                      Field("params", Switch(0, <<"name">>,
                        [add |-> Container(<<Field("id", varint), Field("text", string)>>),
                         move |-> Container(<<Field("on", bool),
                            Field("to", Switch(1, <<"name">>, [move |-> i8], void))>>)], void))>>)
Packet(name, params) == Dict([name |-> Name(name), params |-> Dict(params)])
\* As an item slot is: fields without a name, lists with their count elsewhere
slot == Container(<<Field("count", varint),
                    Anon(Switch(0, <<"count">>, ("0" :> void),
                        Container(<<Field("n", i8),
                            Field("more", [t |-> "array", count |-> [up |-> 0, names |-> <<"n">>], type |-> i8])>>)))>>)
optional == Container(<<Field("known", bool),
                        Field("at", Switch(0, <<"known">>, [true |-> i8, false |-> string], void)),
                        Field("end", [t |-> "array", countType |-> varint, type |-> i8])>>)
\* As the changes of a player list are
player_info == Container(<<Field("action", flags),
                  Field("data", [t |-> "array", countType |-> i8, type |->
                    Container(<<Field("who", Switch(1, <<"action", "p">>, [true |-> i8], void))>>)])>>)
Players(f, who) == Dict([action |-> Flags(f), data |-> List(<<Dict([who |-> who])>>)])
\* As the nodes of the command graph are: a bit that selects
command_node == Container(<<Field("flags", [t |-> "bitfield", fields |->
                     <<Bits3("type", 4, FALSE), Bits3("has_redirect", 1, FALSE)>>]),
                   Field("redirect", Switch(0, <<"flags", "has_redirect">>, ("1" :> varint), void))>>)
Node(type, has, redirect) ==
    Dict([flags |-> Dict([type |-> Num(type), has_redirect |-> Num(has)]), redirect |-> redirect])
metadata == [t |-> "entityMetadataLoop", endVal |-> 31, type |-> option]
containers == <<
    Sample(packet, Packet("add", [id |-> Num(5), text |-> Text(<<a>>)])),
    Sample(packet, Packet("add", [id |-> Num(-5), text |-> Text(<<e_acute>>)])),
    Sample(packet, Packet("move", [on |-> True, to |-> Num(-1)])),
    Mistake(packet, Packet("unknown", [on |-> True, to |-> Num(1)])),
    Mistake(packet, Packet("add", [id |-> Num(5)])),
    Sample(slot, Dict([count |-> Num(0)])),
    Sample(slot, Dict([count |-> Num(1), n |-> Num(2), more |-> List(<<Num(1), Num(2)>>)])),
    Sample(optional, Dict([known |-> True, at |-> Num(2), end |-> List(<<>>)])),
    Sample(optional, Dict([known |-> False, at |-> Text(<<a>>), end |-> List(<<Num(1), Num(-1)>>)])),
    Sample(player_info, Players(<<"p">>, Num(3))), Sample(player_info, Players(<<"q">>, None)),
    Sample(command_node, Node(2, 1, Num(-3))), Sample(command_node, Node(15, 0, None)),
    Sample(metadata, [meta |-> <<>>]), Sample(metadata, [meta |-> (0 :> Num(4)) @@ (7 :> None)]),
    Mistake(metadata, [meta |-> (31 :> None)])>>

nbt == [t |-> "nbt"]
optional_nbt == [t |-> "anonOptionalNbt"]
Tag(tag, value) == [tag |-> tag, name |-> Text(<<a>>), value |-> value]
compound == List(<<Tag("short", Num(-3)), Tag("compound", List(<<Tag("byte", Num(1))>>)),
                   Tag("list", List(<<Num(1), Num(-1)>>)), Tag("string", Text(<<e_acute>>))>>)
tags == <<Sample(nbt, Tag("byte", Num(-1))), Sample(nbt, Tag("int", Num(1000))),
          Sample(nbt, Tag("string", Text(<<e_acute, a>>))),
          Sample(nbt, Tag("byte_array", List(<<Num(1), Num(-2)>>))),
          Sample(nbt, Tag("int_array", List(<<Num(500)>>))),
          Sample(nbt, Tag("list", List(<<>>))),
          Sample(nbt, Tag("list", List(<<List(<<Tag("byte", Num(1))>>), List(<<>>)>>))),
          Sample(nbt, Tag("compound", compound)),
          Mistake(nbt, Tag("list", [of |-> "int", list |-> <<Num(1), Num(2)>>])),
          Mistake(nbt, Tag("list", [of |-> "byte", list |-> <<>>])),
          Sample(optional_nbt, None),
          Sample(optional_nbt, [tag |-> "compound", value |-> compound]),
          Sample(optional_nbt, [tag |-> "string", value |-> Text(<<a>>)])>>

MCSamples == numbers \o texts \o tables \o containers \o tags
=============================================================================
