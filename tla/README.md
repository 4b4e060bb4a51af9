# Verification of quarryng

`quarryng` is a Python library for Minecraft's network protocol on top of
Twisted: a server, a client, a proxy that joins the two, and the codec that
turns protocol descriptions into packets. This directory holds TLA+ models of
it, the TLC configurations that check them, and theorems with proofs for
TLAPS. Lines are those of `src/quarryng`.

    tlc -workers 2 -config server.cfg MCServerProtocol     # a run
    tlapm ServerProtocol_proofs.tla                        # the proofs

`PROJECT.json` lists the runs, what each definition translates (`map`), the
hazards of the code with the properties that guard them, and for each property a
mutation of the model that breaks it.

## 1. The system

Everything runs in one thread, Twisted's reactor. A callback (bytes arrived, a
timer is due, an HTTP answer came) runs to its end before the next one; what is
hard is the order of callbacks, what one callback leaves behind for another, and
what an exception in the middle of one leaves undone.

| Component | State | Operations | Talks to |
|---|---|---|---|
| Server connection, `net/server.py` | `protocol_mode`, `login_expecting`, `display_name`, `in_game`, `closed`; the factory's `players` | handlers of handshake, login, configuration, status; `close`, `connection_lost`, `connection_timed_out` | shares `players` and the buffer with all other connections; its ticker; the application through `player_joined` and `player_left` |
| Framing and dispatch, `net/protocol.py` | `recv_buff` (one for the whole class), `compression_threshold`, cipher, mode tables | `data_received`, `unpack_data`, `save_failed_packet`, `send_packet`, `set_compression` | handlers by name; the codec; the timer, restarted per packet |
| Ticker, `net/ticker.py` | tasks, their counts, `tick`, `running` | `add_loop`, `add_delay`, `remove`, `remove_all`, `start`, `stop`, `_update`, `restart` | a `LoopingCall`; callbacks, which call the ticker again |
| Client connection, `net/client.py` | as the server's, plus `shared_secret` and a second connection for the status ping | `connection_made`, handlers, `auth_ok` | the ping's Deferred, `Profile.join`'s Deferred |
| Profile, `net/auth.py`; HTTP, `net/http.py` | the chain of Deferreds of a join | `join`, `refresh`, `validate`, `request` | Mojang's servers |
| Proxy, `net/proxy.py` | a bridge with an upstream and a downstream, forwarding on or off | `connect`, `upstream_ready`, `packet_received`, `..._disconnected` | a server and a client connection |
| Codec, `types/buffer.py` | bytes, position, `container_stack` | `pack_*`, `unpack_*` | - |
| Version lookup, `data/__init__.py` | - | `get_protocol` | the vendored protocol tables |
| Cryptography, chat, UUID, `proxy.py`, `build/` | - | wrappers, conversions, an example, a generated copy | - |

What should hold, and why it is hard:

* **Server.** No more seats than `max_players` and a seat for everyone served,
  although a handshake that is refused still runs to its end; joins and leaves
  in pairs through closes, losses, timeouts and exceptions in a handler; a
  client is told once why it is closed; a silent client is dropped.
* **Framing.** Each frame once, in order, in the format it was written in,
  however the stream is cut; no frame left behind; nothing of another connection.
* **Ticker.** Delays fire once and on time, loops at every multiple of their
  interval, while callbacks add, remove and restart tasks and ticks come late.
* **Client.** The packets of a login in order, encrypted as announced, nothing
  after the end, whichever of server, ping and session server answers first,
  late or never.
* **Profile.** The Deferred of a join fires, once, and for a reason.
* **Proxy.** Both ends in the same mode, no packet lost between "downstream
  ready" and "upstream ready", both closed when one is.
* **Codec.** `unpack` inverts `pack`; errors leave the buffer usable.

## 2. The modules

| Module | Models | Check |
|---|---|---|
| `PlayerRoster` | what a server promises its application: nobody plays who does not hold one of `MaxPlayers` seats; stages only go forward | implemented by `ServerProtocol` |
| `ServerProtocol` | many server connections over one factory | `server`, `server_login_order` |
| `ServerProtocol_proofs`, `ClientLogin_proofs`, `Ticker_proofs`, `ProxyBridge_proofs`, `RecvBuffer_proofs`, `Session_proofs`, `CodecNumbers_proofs` | theorems about the module each is named after | TLAPS |
| `NumberLemmas` | powers, quotients, remainders and induction over numbers, for the proofs | TLAPS |
| `RecvBuffer` | bytes to packets over the shared buffer | `recv`, `recv_own_packets`, `recv_failed` |
| `Ticker` | the ticker driven by a `LoopingCall` | `ticker`, `ticker_cancel` |
| `ProfileJoin` | the requests and Deferreds of `Profile.join` | within `ClientLogin` |
| `ClientLogin` | one client with its ping and its joins; composes `ProfileJoin` | `client`, `client_auth_ok` |
| `ProxyBridge` | a bridge with its two connections, between a client and a server that follow the protocol | `proxy` |
| `Session` | this library's client (with its ping) against this library's server; composes `ClientLogin` and `ServerProtocol` over streams | `session` |
| `CodecNumbers` | the buffer of the codec and the numbers in it, integers and varnums | within `CodecCalls` |
| `Codec` | what `pack` and `unpack` do to a buffer, for all types of protodef and for NBT; extends `CodecNumbers` | within `CodecCalls` |
| `ProtodefWire` | external: how other implementations write the same values | within `CodecCalls` |
| `CodecCalls` | calls of the codec one after the other, by both sides, whole or cut short | `codec` |

`MC...` modules extend these for TLC and add only what a configuration needs.
Where one definition follows another of the same name with a suffix
(`Full_one_too_many` before `Full`), the former is the faulty variant that the
list of mutants substitutes; no specification uses it.

### ServerProtocol

`link` is the transport: `new` (not yet asked for), `open`, `closing`
(`loseConnection()` was called), `lost`; the code's `closed` is "closing or
lost". `mode` is `protocol_mode`, `idle` counts the updates of
`connection_timer` since its last restart, `players` is the factory's set. The
other variables keep their names; `joins`, `leaves` and `kicks` count calls of
`player_joined` and `player_left` and "disconnect" packets.

One action per handler and callback. A handler that raises is the branch
`drop(c)`: the exception leaves `dataReceived`, Twisted drops the transport and
calls `connectionLost` in the same step. `packet_set_protocol` follows the code
in going on after a refused version, and so taking a seat on its way out.
`close` sends "disconnect" in the login mode only and has no delayed kick in
play, since nothing in the code sets `safe_kick`. `connection_lost` gives the
seat back in the modes `login` and `play` only, as the code does; a player lost
while being configured keeps it. The property `OrphanSeats` shows that these are
the only seats that are lost, and `FreedSeats` that all others come back.

### RecvBuffer

A byte is known by the connection, the frame and the place it was written at;
byte 0 of a frame stands for its whole length prefix, so a chunk here does not end
inside a prefix; that the beginning of one is never taken for a prefix is
`PrefixFails` of the codec and part of `VarnumRoundTrip`. `data_received` appends a
chunk, then each iteration of the loop is a step: a packet is handed on
(ordinary, or one whose handler switches compression on, closes, or raises), a
frame cannot be unpacked (`save_failed_packet`, `unpack_failed`), or the loop
ends. Bytes that are not one frame, or one read in the wrong format, may be read
as anything. `can_save` is whether the directory of the dumps exists.

### Ticker

Ticks come in batches: `LoopingCall.withCount` reports how many
intervals passed, and `_update` runs that many ticks, or one if they are
`max_lag` or more. A tick takes a snapshot of the tasks and updates each; a
callback runs in several steps in which it may add, remove and restart tasks,
remove all, stop the ticker, return or raise. An exception reaches
`self.logger.exception`, which twisted's Logger does not have; the
`AttributeError` ends the `LoopingCall` while `running` stays true.

### ClientLogin and ProfileJoin

The two connections of a login, the real one and the `PingClientProtocol`, run
the same code and are indexed by the factory's `protocol_mode_next`. The
Deferred of the ping is fired inside the ping's handler, so the login goes on in
that same step, over a transport that may have been closed meanwhile. `sent` is
the history of the login packets written, each with the secret the cipher held
(`key`) and what it carries (the version, or the secret). Secrets are numbered
by the `encryption_begin` packets that made them; the n-th one starts the n-th
call of `Profile.join`.

A join that fails changes nothing: `auth_failed` (protocol.py:216) first calls
`self.logger.warning`, which does not exist, and the `AttributeError` leaves it
before `self.close()`. The connection stays open, the login goes on, and further
`encryption_begin`, `success` and answers of other joins follow. `CipherInStep`,
`LoginOrder` and `SilentOnceClosed` are checked and proved for these behaviours
too, and `ResponsesEarned` says that at least no response is sent for a join that
failed.

`ProfileJoin` follows the three requests of a call. When the first fails, both
others are sent at once. The refresh's Deferred is chained to the retry's, and
that one to the caller's, so the first of both to end decides. `Outcomes` says
how a request ends for its caller: Twisted's `Agent` gives a response for every
HTTP status, so a refusal is `ok` here; a body that is not JSON or breaks off is
`lost` and fires nothing; and because the timeout is ignored a request may stay
`sent` for ever.

### ProxyBridge

`down` and `up` are the two transports, `down_mode` and `up_mode` the modes the
proxy reads them in; `client_mode` and `server_mode` are those the outside ends
are really in. Each direction is a TCP stream and modes change with a packet in
it, so a packet is written and read in one step: nothing could overtake it. The
server writes nothing between its `finish_configuration` and the answer
(`ServerWrites`, external). `strays` collects what was read in another mode than
it was written in; `ReadAsWritten` says that this happens only to two kinds of
packets, which the code does let go astray: undecodable ones passed on while the
upstream is logging in (`unpack_failed` does not ask whether forwarding is on),
and ones passed on to a closing side, since `send_packet` drops the
`finish_configuration` there while `send_bytes` still writes what comes after.
`Orphans` and `LostTogether` do the same for lost connections: a client lost
while the upstream connection is being made leaves one that nobody closes, and
that is the only case.

### Session

`Client` is `ClientLogin` and `Server` is `ServerProtocol` with two connections,
the login and the status ping of the client; the streams `to_server` and
`to_client` join each pair. The two modules leave open which packet comes next,
and with what in it; here that is the head of the stream, so a step of `Session`
is a handler of one of them plus what it takes from one stream and appends to the
other. What a server's handler sends is read off the step (`Kick` for a
"disconnect", the rest in `server_handles`); the client's login writes are those
that its history `sent` gained.

A packet carries the mode and the version of the tables it was packed with. When
they are not the reader's it is a stray: the reader takes it for another packet
where the numbers allow it (`ReadAsAnother`, from the tables of version 769:
a login "disconnect" is a `cookie_request` in configuration), or fails to unpack
it, which is reported or, where no dump can be saved (see `recv_failed`), ends
the connection. `server_starts`, `server_sends` and `client_sends` are the
applications; without `server_starts` no session gets past the configuration, as
each end waits for the other's `finish_configuration` (server.py:132).
`ServerBehind` says so as a safety property: neither end plays unless the
application started it. That the two wait for ever otherwise is no property of a
run; only the connection timer ends it.
Packets arrive whole: how they are cut, and the buffer that connections of one
process share, is the subject of `RecvBuffer`.

`ReadAsWritten` names the only two strays there are. The first one is the
`finish_configuration` with which the server answers the client's: the client
plays by then, so between two ends of this library every configuration ends with
a packet that cannot be unpacked, and without a directory for the dump with the
loss of the connection.

### CodecNumbers, Codec, ProtodefWire, CodecCalls

A `Buffer` is a record of bytes, position, the class's `container_stack`, the last
value read and the exception in flight; a call on a buffer with an exception does
nothing, so calls compose as the code's do. Types and values are records. Widths
are parameters: bytes of 5 bits (4 plus the continuation bit), varints of 6 bits
and varlongs of 9 keep every boundary of 7, 32 and 64 in small numbers. A
character is the sequence of its bytes, one or two of them. `CodecNumbers` holds the
buffer, integers and varnums, without recursion through types, so that it can be
proved about; `VarnumLost` there names the varlongs that do not survive.

`ProtodefWire!Wire` says what other implementations write for a value.
`CodecCalls` packs a value, or lets a peer write it, unpacks the bytes or a
prefix of them, and goes on to the next call with the stack as it was left.
`Faults` is a table of what the code does otherwise than the protocol or than
itself, and `RoundTrip` and `AsPeer` say that a value survives *exactly* when the
table has no entry for it. So the properties break when a fault is added, and
also when one is repaired without taking it off the table. The entries:

* varlongs: negative numbers are written with the sign of 32 bits, and bit 31 is
  taken for the sign when reading (buffer.py:207, 225);
* strings: the length counts characters, the bytes of UTF-8 are written
  (buffer.py:335), and on the reading side that many bytes are taken;
* flags: bit i + 1 stands for flag i (buffer.py:630, 638), and the last flag of a full
  number does not fit in it;
* switches: a path that goes on with the name of a flag fails on what
  `unpack_bitflags` gives, which is a list (so `player_info` cannot be unpacked); one
  into a bit field, which is a dictionary, is read well (`command_node`);
  `pack_switch` has no default and no names for booleans (buffer.py:332), and `void`
  takes no value to pack;
* fields without a name, and arrays whose length stands in another field, cannot be
  packed;
* mappers: an unknown name is packed as nothing, a name with two numbers as both;
* bit fields: a number too large for its field runs into its neighbour;
* metadata: an entry whose index is the end mark ends the loop;
* NBT: lists are written without the type of their elements; compounds and
  anonymous tags cannot be packed; registry holder sets are never packed, and the
  last of their values is all that unpacking keeps.

`RoundTrip` also says which values of the protocol `pack` refuses by raising
("refused" in the table): again these and no others. Mistakes of the caller may
be refused too, and what is not refused of them is packed and compared. A count
that a remote made negative, which moves the position back (buffer.py:100), is not
among the samples: nothing is said of what is read then. `PrefixFails` is
what `data_received` relies on when it waits for more bytes, and
`StackIrrelevant` that entries which failed calls leave on `container_stack` are
never looked up by a later call, though they are never removed either.

### Assumptions about Twisted and Python

Code outside `src/` is modelled by what the code here relies on: no data is
delivered after `loseConnection()`; an exception in `dataReceived` ends in
`connectionLost` within the same step; an exception in a Deferred's callback is
logged and goes no further; firing a Deferred twice raises `AlreadyCalledError`;
a closing transport still writes until it
is lost; `withCount` passes the number of intervals since the last call; `Logger` has
`warn` but neither `warning` nor `exception`, so calling these raises `AttributeError`.

## 3. The runs

| Run | Bounds | Shows |
|---|---|---|
| `server` | 3 connections, 2 seats, idle limit 2 | `TypeOK`, `SeatCapacity`, `SeatedWhileIn`, `OrphanSeats`, `JoinLeave`, `OneKick`, `FreedSeats`, `SilentDropped`, and that the server implements `PlayerRoster` (`RosterSpec`) |
| `server_login_order` | 1 connection | **violated** `JoinedNamed` |
| `recv` | 1 connection, up to 3 frames of up to 2 bytes, every chunking | `TypeOK`, `InOrder`, `Drained`, `HandedOn` |
| `recv_own_packets` | 2 connections | **violated** `OwnPackets` |
| `recv_failed` | 1 connection | **violated** `FailedReported` |
| `ticker` | 1 loop, 2 delays, spans 0 and 2, `max_lag` 3, 3 ticks | `TypeOK`, `FiresOnce`, `NotOverdue`, `NoMissedBeat`, `CancelledByNextTick` |
| `ticker_cancel` | the same tasks | **violated** `CancelIsFinal` |
| `client` | 3 versions, 2 supported; idle limit 2; 2 joins | `TypeOK`, `CipherInStep`, `LoginOrder`, `SilentOnceClosed`, `ResponsesEarned`, `DetectedOnce`, `JoinSettled`, `JoinFailureIsReal`, `GivesUp` |
| `proxy` | none: the whole state space | `TypeOK`, `ReadAsWritten`, `Orphans`, `LostTogether` |
| `session` | 3 versions, 2 supported; 1 seat; timers that may always fire; two packets of each application under way | `TypeOK`, `ReadAsWritten`, `ServerBehind`, `VersionAgreed` |
| `codec` | 5 bit bytes, 6 bit varints, 9 bit varlongs: all of their values, and samples of every other type; one entry left on the stack | `TypeOK`, `RoundTrip`, `AsPeer`, `PrefixFails`, `StackIrrelevant` |
| `client_auth_ok` | 1 join | **violated** `AuthOkAnswered` |

Why the bounds are enough:

* *server*: one connection more than seats makes a full server, a refused third,
  and a seat freed and taken again. Connections meet in `players` only, through
  its size and their own membership, and the proofs cover every other size. An
  idle limit of 2 separates "has just heard a packet" from "about to expire".
* *recv*: three frames let one be waiting, one be split and one follow; a body
  of two bytes can itself be split. All 3-frame streams of all kinds are initial
  states. One connection is the case in which the shared buffer does no harm;
  the second connection is what `recv_own_packets` adds.
* *ticker*: a callback of one task can act on the other two, before or after
  they were updated in the same tick; three ticks are a whole span of 2 and the
  tick after it; a lag of 2 runs a batch and one of 3 is cut.
* *client*: a second join is needed for a response encrypted with the first
  secret, for two sessions waiting at once, and for one that succeeds after another
  failed; a third repeats the second.
* *session*: one version that both support but that is not the latest and one
  that only a server forces are the cases in which announced version and tables
  could part. With two packets of an application under way (`MaxData`) one is read
  and the next still to come when a mode changes.
* *codec*: numbers are exhaustive at their widths, and varlongs are long enough
  to have values on both sides of a varint's sign bit. Samples of the other types
  are chosen for the branches of `pack` and `unpack`: each type, nested in a
  container, missing and unknown names, values out of range, all prefixes. One
  entry on the stack is one more than a lookup relative to its end should see.

**Fairness.** The tick of an open connection is weakly fair: the reactor runs
its timers. For the server and the proxy a close that was asked for completes, which supposes
that what was still to be written fits the kernel's send buffer. In `RecvBuffer`
a loop that was entered runs to its end. Nothing is assumed of any remote: not
that packets arrive, that the status is answered, or that Mojang's servers
answer. That is why `JoinSettled` is a safety property: it says who is still
waited for, not that an answer comes.

**Deadlock** is not checked (`CHECK_DEADLOCK FALSE`) since these systems do end:
all connections lost, the stream read, the bound on ticks reached.

### Findings

* `JoinedNamed` (server.py:128): `login_acknowledged` is not checked against
  `login_expecting`, so a client can join before it gave a name, which the
  comment on `login_expecting` says it prevents.
* `OwnPackets` (protocol.py:53): `recv_buff` is a class attribute, one buffer for
  all connections. A partial frame of one is completed with the bytes of another.
* `FailedReported` (protocol.py:287): the dump of a frame that cannot be unpacked
  goes to a directory that nobody creates; the error ends the connection before
  `unpack_failed` is called.
* `CancelIsFinal` (ticker.py:115): a task removed by an earlier callback of the
  same tick is still called. `CancelledByNextTick` is what does hold: it is not called
  in a later tick, nor at all if it was removed between two calls of `_update`.
* `AuthOkAnswered` (auth.py:64): a refresh that succeeds before the second join
  is answered calls `auth_ok`, which is documented to need an answer of the
  session server.

## 4. The proofs

Each `*_proofs` module extends the module it is about. The theorems hold for all
values of the constants under the assumptions that module names; what a run shows
on a small instance is shown there for every one. No invariant of the runs is
inductive alone, but for a few that only say what one step does. Each module
that is about behaviours defines an `IInv` of named parts, which TLC checked before it was proved, one
lemma per action that preserves it, and a step lemma that joins them by the cases
of `Next`.

| Module | For all | Theorems |
|---|---|---|
| `ServerProtocol_proofs` | finite sets of connections, seats, idle limits | `TypeCorrect`, `SeatCapacityHolds`, `SeatedWhileInHolds`, `OrphanSeatsHolds`, `JoinLeaveHolds`, `OneKickHolds`; `ImplementsRoster`: every step is one of `PlayerRoster` or a stutter |
| `ClientLogin_proofs` | versions, supported versions, idle limits, numbers of encryption requests | `TypeCorrect`, `CipherInStepHolds`, `LoginOrderHolds`, `ResponsesEarnedHolds`, `DetectedOnceHolds`, `JoinSettledHolds`, `JoinFailureIsRealHolds`; the action property `SilentOnceClosedHolds` |
| `Ticker_proofs` | tasks, spans, `max_lag`, numbers of ticks | `TypeCorrect`, `FiresOnceHolds`, `NotOverdueHolds`, `NoMissedBeatHolds`, `CancelledByNextTickHolds` |
| `RecvBuffer_proofs` | connections, frames of any number, lengths and kinds, all chunks that keep apart (`ApartChunks`) | `TypeCorrect`, `InOrderHolds`, `DrainedHolds`, `OwnPacketsHold`; `AloneIsApart`: with one connection they always do, hence `AloneHolds` |
| `ProxyBridge_proofs` | (the module has no constants) | `TypeCorrect`, `ReadAsWrittenHolds`, `OrphansHolds` |
| `Session_proofs` | versions, supported versions with `Latest` among them, any bound on the packets under way (`MaxData`) | `TypeCorrect`, `ReadAsWrittenHolds`, `ServerBehindHolds`, `VersionAgreedHolds`, `JoinedNamedHolds`; `ClientConforms`, `ServerConforms`: each end is a behaviour of its own module |
| `CodecNumbers_proofs` | widths of bytes, varints and varlongs, sizes of integers, what stands before and behind in the buffer | `IntRoundTrip`, `VarnumRoundTrip` |

`NumberLemmas` has no theorem of its own to show: it holds what `RecvBuffer_proofs` and
`CodecNumbers_proofs` need about numbers. Induction as a theorem takes an
operator as its parameter, which the provers at hand cannot instantiate;
`SetInduction` says the same of a set of numbers, from their well-foundedness.

### Why the invariants are what they are

**Server.** `SeatMode`: a seat is held only past the handshake and not in
`status`; otherwise a lost connection in another mode could hold one, against
`OrphanSeats`. `InGameMode`: who is in the game is being configured or plays; so
`login_acknowledged` finds nobody who has joined already, and joins stay at one.
`Counted`: `joins` is one exactly when `in_game` is set, without which
`player_left` in `connection_lost` could not be matched with `player_joined`.
`Unkicked`: an open connection was not told to go, so a close tells it once.
`NewIsFresh`: a connection not yet made is still handshaking, so it holds no seat
and has not joined. `SeatCapacity` needs the cardinalities of finite sets from
`FiniteSetTheorems`. The refinement uses `IInv` on both sides of a step: a
connection that joins holds a seat because it is open and past the handshake.

**Client.** Mode, cipher and the last packet written agree only while the
transport is open (`OpenInStep`): an answer of the session server that comes
after a close still changes the cipher, and it is the same condition that keeps
the packet that would follow from being written. `NotStarted` says that nothing is
written before the version is known, `PingState` that the status connection fires
its Deferred only when it closes, which is why `DetectedOnce` holds. `JoinState`
orders the three requests of a join; with it every order of their ends is a case
of one lemma (`ChainKept`). `ResponsesEarned` compares two cardinalities and is
proved on top of `IInv`: a step that writes a response turns one more Deferred to
"ok", which by `IInv` it had not been before (`EarnedByJoin`), and every other step
leaves the responses as they are.

**Ticker.** The properties speak of the time between ticks. During a tick, a task
of `_tasks` is either still in the snapshot, and then as it was when the tick
began, or has been updated, and then as it has to be when the tick ends; `Updated`
says which, and `OnTime` and `OnBeat` are the invariants relative to it. A
callback that adds, removes or restarts tasks changes `_tasks` and not the
snapshot, so `Lists` and `Cancelled` say how the two may differ, and `Once` that a
delay that was called is in neither, but for the one being called. The rest is
about sequences without repetition, and about multiples: the next tick is a
multiple of a span or has the same latest one.

**Framing.** Connections share the buffer, and `OwnPackets` is violated because the
bytes of one may arrive on top of what another left there. The theorems are about
behaviours in which that does not happen (`ApartChunks`: `data_received` starts on
an empty buffer, or on a beginning of a frame of its own connection), for any
number of connections. So they also say that nothing else goes wrong through the
shared buffer: with chunks that keep apart each connection gets its own packets
(`OwnPacketsHold`). That is not assumed of a process with one connection but
proved (`AloneIsApart`), and the theorems are unconditional there (`AloneHolds`).
`Mine` is what a connection has in the buffer. `Ahead`: while it is open, this
followed by its wire is the stream (`Stream`) of its frames not yet handed on, and
compression is on iff a frame handed on switched it on. The invariant also has
that the buffer belongs to the connection whose loop runs (`OwnedBy`).
`Stream` is written byte by byte, what follows each byte, rather than as a
concatenation of frames, so that no induction is needed to use it: a chunk moves
bytes over without changing the sequence (`Rechunk`), and a frame that was taken
leaves the stream of the others (`StreamCut`). That what the remote writes is such
a stream at first (`BytesStream`) does need an induction, over `FlattenSeq`.

**Proxy.** Packets are read in the mode they were written in because the proxy's two
modes follow the two remotes' (`ProxyInStep`), because the upstream logs in after
the downstream did (`UpstreamAfter`), and because from the end of that login on,
when forwarding starts, both remotes are in the same mode (`EndsInStep`) until the
client acknowledged the end of the configuration, which it does once
(`Acknowledged`). An orphan is made before its upstream is opened
(`OrphansInTheMaking`).

**Session.** Each end keeps the invariant of its own module (`CP!IInv`, `SP!IInv`),
since a step of `Session` is a step of that module or leaves it alone
(`ClientTakes`, `ServerTakes`), so the proofs of the two parts are used as they
are. What is added is about what is under way. The packets to the server lead, one
mode to the next, from the mode the server is in to the one that the client's
writes left it in (`Chain`; `Said`, as a client that is lost before it wrote
anything is in `login` all the same): hence the server reads each in the mode it
was written in and is never ahead (`Upto`). The packets to the client are those
that it has a use for in its mode, given where the server is (`Meant`); both
exceptions of `ReadAsWritten` are there, the "disconnect" of a server that closed
in `login` and the `finish_configuration` that answers the client's.
`Stages` orders the two logins, without which a `success` could come twice.
`Versions` and `StatusStreams` follow the version from the server's answer to the
ping to what the login announces. `ClientConforms` and `ServerConforms` say that
`Session` adds no step to its parts: the session, seen through the variables of one
end, is a behaviour of `ClientLogin` (for which `IInv` is needed, as a packet read
has to be one that the client's handlers take) or of `ServerProtocol`. What is
proved of each therefore holds in a session. `JoinedNamedHolds` is the other side
of the finding `JoinedNamed`: this library's client does send its name first, so
only another client can join without one.

**Codec numbers.** A varnum is a sequence of groups, and `Left(m, i)` is what is left
of m after i of them. Writing keeps each group and says by the high bit whether
anything is left (`Grouped`); reading adds up groups, and what it has after i of
them is m less what is left, times its weight (an induction by `SetInduction`). So
whenever the groups are enough for m, the sum read is m, and the number
returned is the one written unless taking off, or not taking off, the sign of a
varint changes it: `VarnumLost` says for which numbers, and `VarnumRoundTrip` that
they are exactly these. A beginning of the bytes ends in a byte that is not the last
of a number, and nothing of it is taken for one, which `data_received` relies on
when it waits for more. Integers are the same with a fixed count of groups and the
two's complement. The provers know nothing of `^`; the library knows that 2^n is the
number of subsets of n elements (`PowerCounts`), of which there are twice as many
with one element more (`PowerStep`). `PowerSum`, `DivMod` and `DivDiv` are what the
arithmetic needs besides.

### Only model-checked

* Liveness: `FreedSeats`, `SilentDropped`, `HandedOn`, `GivesUp`, `LostTogether`.
  Fairness and `ENABLED` are out of reach of the prover.
* `TypeOK`, `RoundTrip`, `AsPeer`, `PrefixFails` and `StackIrrelevant` of
  `CodecCalls`: types nest in types, so `Codec` is written with `RECURSIVE`
  operators, and it uses `Bitwise`; both are out of the prover's reach, and so is
  the induction over types that these properties would need. Their case of a single
  number is what `IntRoundTrip` and `VarnumRoundTrip` prove, at the code's widths
  as at any others.
* `RecvBuffer` where chunks do not keep apart: there `OwnPackets` is violated.

## 5. Not modelled

* Contents: what packets say, logging, chat, UUIDs, JSON, floats, profile files,
  the command line: pure conversions without a decision that another part relies
  on. 64 bit integers of the codec, which differ from the others in width only.
* `topBitSetTerminatedArray`: it assigns to an element of `bytes` and fails on
  every input.
* `auth_ok` and `auth_failed` of the server: no handler calls them.
* `authenticate` and `validate`: one request each, with the outcomes that
  `ProfileJoin` has. `refresh` drops the new access token (auth.py:84), which the
  model, made of outcomes, does not show.
* The reading side of the client's cipher, and the cipher's reset when it is
  enabled a second time.
* How `get_protocol` finds the tables of a version; `Session` has which ones.
* The proxy's fast forwarding and `disable_forwarding`, which nothing calls; a
  server that starts a second configuration (the table of mode switches has no
  way back from play, so the proxy reads all of it wrongly).
* The example script; `build/`, a generated copy with vendored data.

## 6. Plan

Done: the server with its abstract specification, framing, ticker, client with
profile, proxy, and the session of client and server, modelled and proved; the
codec, modelled and checked, its numbers proved. Left:

1. The other types of the codec that do not nest (strings, bit fields, flags): their
   operators would have to move to a module without `RECURSIVE`, as the numbers did.
2. More action properties where a history variable stands in for one now.

Modules that are to be proved about must reach no `RECURSIVE` operator and cannot
use `SelectSeq`, which the prover does not expand.
