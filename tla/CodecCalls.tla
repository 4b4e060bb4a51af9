---------------------------- MODULE CodecCalls -----------------------------
(***************************************************************************)
(* Calls of the codec, one after the other, on buffers that share          *)
(* container_stack, which belongs to the class: values are packed, or come *)
(* from a peer, and are unpacked as soon as some of their bytes are there. *)
(***************************************************************************)
EXTENDS ProtodefWire

CONSTANTS
    Samples,            \* the types and values tried: a sequence of records
    MaxLeft             \* bound: no call starts with more left on the stack

VARIABLES buf, wire, sample, phase
vars == <<buf, wire, sample, phase>>

Type == Samples[sample].type
Val == Samples[sample].val
Fresh == Buffer(<<>>, buf.stack)

Init == buf = Buffer(<<>>, <<>>) /\ wire = <<>> /\ sample = 0 /\ phase = "idle"

\* send_packet packs a value; a failure is raised to the caller.
PackOne(i) ==
    /\ phase = "idle"
    /\ Len(buf.stack) <= MaxLeft
    /\ buf' = pack(Samples[i].type, Samples[i].val, Fresh)
    /\ wire' = buf'.data
    /\ sample' = i
    /\ phase' = IF Ok(buf') THEN "packed" ELSE "refused"

\* A peer with another implementation writes a value of the protocol.
PeerWrites(i) ==
    /\ phase = "idle"
    /\ Len(buf.stack) <= MaxLeft
    /\ Samples[i].peer
    /\ wire' = Wire(Samples[i].type, Samples[i].val, <<>>)
    /\ buf' = Fresh
    /\ sample' = i
    /\ phase' = "written"

\* The first n bytes are there to unpack: all, or not yet all.
UnpackOne(n) ==
    /\ phase \in {"packed", "written"}
    /\ buf' = unpack(Type, [Fresh EXCEPT !.data = SubSeq(wire, 1, n)])
    /\ phase' = IF phase = "packed" THEN "unpacked" ELSE "read"
    /\ UNCHANGED <<wire, sample>>

NextCall ==
    /\ phase \in {"unpacked", "read", "refused"}
    /\ buf' = Fresh
    /\ wire' = <<>> /\ sample' = 0 /\ phase' = "idle"

Next == \/ \E i \in DOMAIN Samples : PackOne(i) \/ PeerWrites(i)
        \/ \E n \in 0..Len(wire) : UnpackOne(n)
        \/ NextCall

Spec == Init /\ [][Next]_vars

---------------------------------------------------------------------------
(* Properties                                                              *)

TypeOK == /\ buf.pos \in 0..Len(buf.data)
          /\ \A k \in DOMAIN buf.data : buf.data[k] \in 0..(2^ByteBits - 1)
          /\ \A k \in DOMAIN buf.stack : "dict" \in DOMAIN buf.stack[k]
          /\ sample \in 0..Len(Samples)
          /\ phase \in {"idle", "packed", "written", "unpacked", "read", "refused"}

\* What the code is known to do otherwise than the protocol, or than itself:
\* "refused" makes pack raise, "lost" does not come back from its own unpack,
\* "miswritten" and "misread" differ from what a peer writes.
RECURSIVE Faults(_, _, _)
Faults(t, v, ctx) ==
    LET if(c, fault) == IF c THEN {fault} ELSE {}
        of(type, s) == UNION {Faults(type, s[i], ctx) : i \in DOMAIN s}
        within(f) == v.dict[f.name].num \in
                     IF f.signed THEN SignedRange(f.size) ELSE 0..(2^f.size - 1)
    IN  CASE t.t = "varnum" ->
                LET high == v.num \in Nat /\ Bits(v.num, VarintBits - 1, 1) = 1
                    long == t.max_bits > VarintBits
                IN  if(long /\ v.num < 0, "miswritten")
                    \cup if(long /\ (high \/ v.num < 0), "misread")
                    \cup if(VarnumLost(v.num, t.max_bits), "lost")
          [] t.t = "void" -> {"refused"}
          [] t.t = "container" ->
                UNION {Faults(f.type, FieldValue(f, v), Append(ctx, v)) : f \in ToSet(t.fields)}
                \cup if(\E f \in ToSet(t.fields) : f.name = "", "refused")
          [] t.t = "switch" ->
                LET path == t.compareTo
                    of_flags == "flags" \in DOMAIN WireVar(ctx, [path EXCEPT !.names = Front(@)])
                    named == ~of_flags /\ Str(WireVar(ctx, path)) \in DOMAIN t.fields
                IN  Faults(Selected(t, ctx), v, ctx)
                    \cup if(of_flags, "misread") \cup if(~named, "refused")
          [] t.t = "pstring" ->
                IF \E i \in DOMAIN v.text : Len(v.text[i]) > 1 THEN {"lost", "miswritten"} ELSE {}
          [] t.t = "option" -> IF v = None THEN {} ELSE Faults(t.of, v, ctx)
          [] t.t = "bitfield" -> if(\E i \in DOMAIN t.fields : ~within(t.fields[i]), "lost")
          [] t.t = "array" -> of(t.type, v.list) \cup if("countType" \notin DOMAIN t, "refused")
          [] t.t = "buffer" -> if("count" \in DOMAIN t /\ Len(v.bytes) # t.count, "lost")
          [] t.t = "entityMetadataLoop" -> of(t.type, v.meta) \cup if(t.endVal \in DOMAIN v.meta, "lost")
          [] t.t = "mapper" ->
                if(Cardinality({i \in DOMAIN t.mappings : t.mappings[i].name = v.name}) # 1, "lost")
          [] t.t = "bitflags" ->
                (IF v.flags = <<>> THEN {} ELSE {"miswritten", "misread"})
                \cup if(\E i \in DOMAIN v.flags : ~Contains(t.flags, v.flags[i]), "lost")
                \cup if(\E i \in DOMAIN t.flags : /\ Contains(v.flags, t.flags[i])
                                                 /\ 2^i \notin IntRange(t.type.size, FALSE), "refused")
          [] t.t = "registryEntryHolderSet" ->
                IF t.otherwise.name \in DOMAIN v.dict THEN {"misread", "refused"} ELSE {}
          [] t.t = "nbt" ->
                if(v.tag = "list", "lost")
                \cup if(v.tag = "compound" \/ (v.tag = "list" /\ "of" \notin DOMAIN v.value), "refused")
          [] t.t = "anonOptionalNbt" -> if(v # None, "refused")
          [] OTHER -> {}

Whole == Len(buf.data) = Len(wire)
Exact == Ok(buf) /\ buf.val = Val /\ buf.pos = Len(buf.data)

\* A value of the protocol can be packed, what was packed comes back when it is
\* unpacked, and nothing is left over, but for the named faults.
RoundTrip ==
    /\ phase \in {"packed", "refused"} /\ Samples[sample].peer =>
           (phase = "refused" <=> "refused" \in Faults(Type, Val, <<>>))
    /\ phase = "unpacked" /\ Whole => (Exact <=> "lost" \notin Faults(Type, Val, <<>>))

\* Values of the protocol are written as the other implementations write them
\* and read as they meant them, but for the named faults.
AsPeer ==
    /\ phase = "packed" /\ Samples[sample].peer =>
           (wire = Wire(Type, Val, <<>>) <=> "miswritten" \notin Faults(Type, Val, <<>>))
    /\ phase = "read" /\ Whole => (Exact <=> "misread" \notin Faults(Type, Val, <<>>))

\* A value of which the end is missing is never taken for a whole one, and the
\* exception is the one that data_received waits for more bytes on.
PrefixFails ==
    LET faults == Faults(Type, Val, <<>>)
    IN  /\ phase \in {"unpacked", "read"}
        /\ ~Whole
        /\ Type.t # "restBuffer"
        /\ phase = "unpacked" => "lost" \notin faults
        => /\ ~Ok(buf)
           /\ "misread" \notin faults => buf.err = "BufferUnderrun"

\* What failed calls left on the shared container_stack does not change what a
\* later call gives, and a call that succeeds leaves the stack as it was.
StackIrrelevant ==
    [][LET same(alone) == /\ [buf' EXCEPT !.stack = <<>>] = [alone EXCEPT !.stack = <<>>]
                          /\ Ok(buf') => buf'.stack = buf.stack
       IN  CASE phase' \in {"packed", "refused"} ->
                    same(pack(Type', Val', Buffer(<<>>, <<>>)))
             [] phase' \in {"unpacked", "read"} ->
                    same(unpack(Type, Buffer(buf'.data, <<>>)))
             [] OTHER -> buf'.stack = buf.stack]_vars

=============================================================================
