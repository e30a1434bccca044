# The IoT gateway's MQTT client, in TLA+

The gateway (`src/gatewayDevice.c`) connects to an MQTT broker, subscribes to one topic and
passes what arrives to the program. The MQTT code is Paho's embedded client with its
transport replaced: a second thread reads the socket and handles the packets, while the
thread that calls `MQTTConnect` and `MQTTSubscribe` polls a word the other one writes.
There is no lock. Most of what can go wrong here is in that change, and it is what these
modules are about.

## Inventory

| Component | State | Operations | Hard |
|---|---|---|---|
| Packet writer, `sendPacket` (`mqtt/MQTTClient.c:51`) | bytes sent, timer | the write loop | partial writes, an error or the timer in the middle |
| MQTT session (`mqtt/MQTTClient.c`, `iot_mqttclient.c`) | `MQTTClient`, `packetBuf`, `sendBuf` | `MQTTConnect`, `MQTTSubscribe`, `waitfor`, `mqttdoNextPacket`, `keepalive`, `deliverMessage`, `MQTTCloseSession` | two threads without a lock, refusals, late answers, end of the connection |
| Framing, `decodePacket`, `readOnePacket` | `inbuf`, `inSize`, `needread` | reading, decoding the length, taking a packet out | TCP cuts and joins packets |
| Codecs (`mqtt/MQTTPacket.c`, `MQTT*Client.c`, `MQTT*Publish.c`) | `bufptr` | sizes, serialise, deserialise | a static pointer shared by two threads, boundaries of the sizes, error returns |
| Topic matching, `isTopicMatched` | none | match | wildcards and the ends of both strings |
| Event loop backend (`selectLoop.c`) | the descriptor set | add, delete, dispatch | the set is changed in place; its growth |
| Event queues and signal bus (`event.h`; code in `libiot.a`) | lists of events, locks | `event_on`, `event_emit`, `loopRunForEver` | callbacks run in the emitting thread; nodes share one bus |
| Start-up (`iot_mqttclient.c:172-288`, `gatewayDevice.c`) | globals | configure, connect, start the thread | a function without a return value; order of thread start and calls; failing calls |
| Timers (`mqtt/MQTTLinux.c`) | end time | count down, expired, left | the wall clock; borrows between two fields |
| HTTP client (`httpclient.c`) | stream | initialise, request, run | shares the bus with the MQTT node; its call in `gatewayDevice.c` is commented out |
| Paho's server side, `MQTTFormat.c` | none | serialise, deserialise, dispatch | the other end of every packet; not called by the gateway |
| Lists (`list.h`) | links of heads and elements | insert, remove, replace, walk | pointers that stay behind; back pointers to pointers |
| JSON (`cJSON.c`) | a heap of linked items, a print buffer | build, detach, replace, copy, delete; print, parse, minify | ownership by flags; room computed before the text; failing malloc |
| `evioutil.c`, `main.c`, `httpserver.c`, `modbusTcp.c`, `iosocket.c`, `xml.c` and the empty files | | | inside `#if 0`, or stubs, or not called |

How they interact: `main` calls `mqttinitInterfaceNode` (configuration, connection), starts
the I/O thread (`mqttinterfaceDispatch`, `runio`) and calls `mqttmakeRequest`, which calls
`MQTTConnect` and `MQTTSubscribe` in turn. The I/O thread runs `loopRunForEver` of
`libiot.a`: select, read into `stream->inbuf`, callback `mqttioRecv`, which calls
`mqttdoNextPacket`. The threads share the `MQTTClient` (`ack`, `runState`, `isconnected`,
`ping_outstanding`, the handler table), `packetBuf` and `sendBuf`. A message goes to
`messageArrived`, which emits an event on the bus, `evinterfaceBase`; its handler runs in the
I/O thread. A node with HTTP, if it is started, has a stream, a loop and a thread of its own
and registers on the same bus.

What makes each component correct: the writer's return code tells whether the packet is out
and nothing but the packet is; the session's return codes are justified by what the broker
did, its shared buffers are used by one thread at a time, keepalive neither stops nor doubles,
messages reach their handler once and in order, and the end of the connection ends both the
session and the thread; the framing hands over the packets sent, each once and in order; what
one side of the codecs writes, the other reads; a filter matches the topics that it matches
level by level; the loop goes on watching the descriptor it was given and ends with the
connection; every message on the bus is heard by its own listener; a list is a queue; JSON
trees own what they contain, and printing and parsing them is the identity.

## Modules

| Module | Models |
|---|---|
| `Timers` | the timers of `MQTTLinux.c`, functions of the end time and the clock |
| `AtomicSend` | what callers rely on: one step writes the packet and succeeds, or writes nothing or something else and fails |
| `SendPacket` | the loop of `sendPacket`, byte by byte, with its timer; implements `AtomicSend` |
| `MqttSession` | main thread, I/O thread and broker over one `MQTTClient` |
| `PacketChannel` | what the session relies on: packets handled one by one, each once, whole and in order |
| `PacketFraming` | reads, `inbuf`, `decodePacket`, `readOnePacket` and the recursion of `mqttdoNextPacket`; implements `PacketChannel` in the regimes the runs name |
| `PacketCodecs` | every serialiser and deserialiser of client and server, `MQTTPacket_len`, the remaining length, MQTT strings, packet identifiers |
| `PacketReader` | `MQTTPacket_readnb` and its `MQTTTransport`, and `MQTTPacket_read` |
| `TopicMatch` | `isTopicMatched` and `MQTTPacket_equals`, and what MQTT says about filters |
| `PacketExchange` | composes the three: what one side writes is cut up, read and understood by the other; implements `PacketChannel` |
| `EventLoop` | one `struct loop_base`: the select set of `selectLoop.c`, event queues, `event_on`, `event_emit` |
| `Gateway` | composes two or three loops: `main`, the start-up of the MQTT and the HTTP node, their I/O threads, the bus and the peers |
| `Queues` | what a linked list promises: queues that change in one place at a time |
| `Lists` | `dLIST` and `dlist_t` of `list.h`, pointer by pointer; implements `Queues`, forwards and backwards |
| `Forest` | what `cJSON.h` promises: trees that own their items, of which the caller holds the roots |
| `Cjson` | the items of `cJSON.c` as a heap of linked records; implements `Forest` |
| `JsonText` | printing, with and without a buffer, parsing and minifying, as functions on characters |
| `Json` | composes the two |
| `MC...` | the instances of the module named behind `MC` |
| `..._proofs` | the theorems about that module; `SendPacket_proofs` holds those about `Timers` too, `SessionMessages_proofs` builds on `MqttSession_proofs`, and `PacketExchange_proofs`, which holds those about `TopicMatch`, on `PacketCodecs_proofs` |

**Timers.** A time is seconds and microseconds; `timeradd` and `timersub` carry as in
`sys/time.h`. Every operation takes the time `gettimeofday` gives as an argument. The
conversion of what is left to an `int` keeps its 32 bits (`AsInt`).

**SendPacket.** `length`, `sent`, `rc` are the variables of the function, `wire` the offsets
in `sendBuf` of the bytes the kernel took. `Write` is one round of the loop (the kernel takes
any part of what it is offered), `WriteError` a `write` of -1, `Return` the code after the
loop. `timer` is the end time its caller has set, `now` the clock, and `Tick` sets the clock to
any time, also back, since `gettimeofday` is not monotonic. The loop offers `length` bytes also
when `sent` of them are out; the model keeps it, and the properties say why it does no harm to
the return code.

**MqttSession.** The main thread's position is `appPc`, the I/O thread's `ioPc`; a step ends
wherever the other thread can see or change what is used next: between serialising and
writing, between seeing `ack` and reading `packetBuf`, between the two assignments of
`MQTTSetMessageHandler`, between clearing `packetBuf` and filling it. A packet is a type and
one argument. `sendPacket` is the one step that `AtomicSend` allows; if `sendBuf` no longer
holds what the caller serialised, what goes out is `Garbage`. `waitfor` is a step that finds
the answer or gives up. After a broker has closed, a write is lost, fails, or kills the
process with SIGPIPE (`Killed`). The broker answers the first CONNECT, grants or refuses
subscriptions, may publish before its SUBACK, answers pings, runs the QoS 1 and 2
handshakes, and may close at any time. `handled`, `delivered`, `pingOverdue` and `faults` are
history that no action reads. `PromptApp` restricts the schedule: the I/O thread does not
wake up from its 200 ms sleep before the main thread, which polls without sleeping, has
acted on an answer.

A read may yield half a packet or several. Half of one sets `needread`, clears `packetBuf` and
`ack` and costs another read (`NeedMore`). Of several, readOnePacket takes the first, and then
copies the head of `inbuf` onto itself instead of moving the rest down: the others are lost, and the
first is handled again (`Unread`, `Again`), as often as what is left is long enough for it. `behind`
says how often, and is chosen up to the bound `MaxAgain`; what is left then is too short, and the
reader takes the start of some other packet for its end. From there on it is out of step with the
stream for good, and its `ioPc` is `lost`: the model follows main thread and broker, and the
I/O thread no further. That a read has yielded several packets is on record, `"joined"` in `faults`, like
a write that has failed and a session that has been closed: the properties that such a read makes
false (`PingAccounting`, `KeepaliveChain`, `HandshakeToken`, `DeliveredWithoutGap`, `DeliveredOnce`,
`PublishedIsDelivered`) hold until then, and say so. The end of the connection comes between packets;
for the other kind see `PacketFraming`.

**PacketFraming.** Bytes are numbers below `2 * Base`, `Base` being 128 in the code and 8 in
the runs, so that a length of two bytes fits. `Arrive` is TCP; `ReadSome`, `ReadNeeded` and
`ReadEnd` are the branches of `srecv` in `libiot.a`, of which `read2`
(`iot_mqttclient.c:72-142`) is a copy kept for debugging; `TooLong`, `NeedMore` and
`PacketDone` are the outcomes of `readOnePacket`. `cut` is where the connection ends. Inside a
packet `srecv` then reads 0 bytes for ever, which is no step. `Coalesced` and `SplitHeaders`
say how TCP may cut the stream.

**PacketCodecs, PacketReader, TopicMatch, PacketExchange.** Packets are sequences of bytes,
and a serialiser returns its return code and the bytes it writes; a deserialiser takes the
buffer and returns what it finds and its code. The state is that of `MQTTPacket_readnb`: state,
length so far, remaining length, multiplier, buffer. `stream` is what the transport has, which
gives any part of what is asked for, nothing, or an error. `PacketExchange` chooses a
conversation and some bytes behind it (`Tails`), writes the packets and lets the reader run. A
message is a record of the arguments of its serialiser; `Messages` are all that are well typed,
`Given` wants a will where one is announced and a QoS for each filter, and `Fitting` leaves out what
no packet is long enough for. `Meaning` is what a reader should make of a message, `Outcome` what it does
make of it: the same but for empty user names and passwords and for SUBACKs of more than two codes, which
are refused. A tail holds no whole packet that the reader
has room for: it may be nothing, a packet cut off, one that is too long, or a length of five
bytes.

**EventLoop, Gateway.** A loop is a record; `SelectAdd`, `SelectDispatch`, `EventOn` are
functions from the loop before to the loop after. The set of descriptors is kept with the number
of words allocated for it. `libiot.a` is modelled by what `src/` relies on: `clientConnect`
gives a stream of zeroes with a loop of its own; `loopRunForEver` runs while the stream is
connected, and asks the backend and then calls the callbacks of active events; `event_emit`
calls the first function in the queue with the event's name. `main` is `mainPc`, the threads
are `ioPc`, one for each node. A handler of a message that finds no temperature passes on the
uninitialised `value`: a choice of all temperatures and `Junk`. In `libiot.a` `event_emit` ends
at the first match, which the comment at `Listeners` says, and compares as many characters as
the registered name has.

**Lists.** `link` and `back` are `le_next` and `le_prev` (`lh_first` for a head), `next` and
`prev` those of `dlist_t`. The guards are the callers': an element is inserted when it is not in
a list of the kind. What a removed element points to is left as it is.

**Cjson, JsonText, Json.** `heap` is a function from the items allocated to their five fields
that matter for ownership; names stand for classes of strings that differ in case only, as
`cJSON_strcasecmp` compares. Every function is one action; those that allocate succeed for the
first so many calls of `malloc`. When it is the copy of a name that fails, the item goes in without
one. `held` are the roots the caller has. `Forest` says what each call is to do at the place it is given,
and `EachInItsPlace` that it is this call that does it; a null pointer followed by
`cJSON_Create...Array` is `crashed`, a step of its own. In `JsonText` values are records, texts sequences
of characters, and a number is a sign, a whole part and millionths; the room `print_*` computes
before it writes is an operator of its own, and so is the buffer that `ensure` doubles.

## Runs

| Run | Shows | Bounds |
|---|---|---|
| `SendPacket` | the bytes out are a prefix of `sendBuf`; SUCCESS means the packet and nothing else; the call answers; it implements `AtomicSend` | packets of 2 to 6 bytes: every partition of the writes, one overrun; a clock of four times, before the end by a second and by a microsecond, and at it |
| `SessionGateway` | `mqttmakeRequest`: SUCCESS of MQTTSubscribe is justified by the broker, no shared buffer is used twice, the session is not left connected, calls return; until packets are read together, pings are accounted for and messages are delivered without a gap and in the end; the I/O thread notices the end of the connection | 3 messages of QoS 0, which is what the gateway asks for; a broker that accepts or refuses; any scheduling; reads of half a packet and of any number of packets, the first handled once again (`MaxAgain = 1`) |
| `SessionPrompt` | with a main thread that runs within the 200 ms handlers are installed and `isconnected` is true; until packets are read together keepalive goes on and QoS 1 and 2 are acknowledged | a QoS 1 and a QoS 2 message; reads as in `SessionGateway` |
| `SessionAgain` | connecting twice, subscribing twice to a filter and once to another: no double delivery, no unjustified connection | table of 2 handlers, so that it is full and emptied; 2 topics; packets are never read together (`MaxAgain = 0`), which `DeliveredOnce` takes anyway |
| `FramingAligned` | packets of every kind the gateway receives are handled, once and in order, until one that is longer than `packetBuf`: nothing behind it is, and nothing is corrupted; the end of the connection is noticed between packets | 7 packets, one with a length of two bytes and one too long, buffers of 14 and 20 bytes; every cut behind the fixed header, every cut of the first packet, and an end after any byte |
| `PacketExchange` | packets of every type reach the other side whole and in order however they are cut up, and are understood field by field or refused where the code refuses them; a buffer is asked for that takes the packet and no more; filters match level by level | all flags, versions, identifiers around a byte boundary, remaining lengths 125 to 129, strings set by either field, user names and passwords that are missing or empty, SUBACKs of up to four codes, 0x80 among them; one or two packets, and behind them nothing, a packet cut off, one too long for the reader or a length of five bytes; every filter and topic of up to four characters out of a letter, the separator and the two wildcards |
| `Gateway` | the loop goes on watching; the stream is freed only when the broker has closed and its bytes are read; every message is heard, by its own listener and with its own temperature; the end of the connection is seen | the MQTT node alone and behind the HTTP node; descriptors 3, 64 and 127, at the words of the set; two inputs of each peer |
| `Lists` | both lists are linked both ways, and walking them in either direction gives the queue the calls say | one head of each kind, three elements: one before, one at and one behind the place of the change |
| `Json` | every call does its part in its place, nothing dangles or leaks; what is printed is what is read back, but for the sign and the scale of numbers, in the room computed | four items, one name, allocations that fail; strings of up to two of the eight kinds of characters; numbers with sign and fraction and in each of the formats, containers in containers, code points at the limits of UTF-8 and UTF-16 |
| `FindCoalesced`, `FindStaleAck`, `FindRefused` | each is violated; see Findings | the shortest instance that shows it |

Deadlock is not checked where the program may stop: `main` sleeps for ever when its calls have
returned, the I/O thread ends with the connection, and the broker may have nothing to say.
`SendPacket` runs with it off too, since the function returns.

Fairness. `MqttSession!FairSpec` assumes that each thread is scheduled
(`WF_vars(AppNext)`, `WF_vars(IoNext)`) and nothing of the broker. The timer of `waitfor`
expires, so giving up is always one of the steps of the main thread. An I/O thread that is `lost`
takes no step, and none is asked of it: `CallsReturn` is about the main thread. `PacketFraming!FairSpec`
assumes the I/O thread and that TCP delivers what was sent; `AllAreHandled`
needs it, and `ImplementsChannel`, which says that nothing else is handled, does not.
`SendPacket!FairSpec` assumes that the thread runs and the
kernel answers `write`, which has a timeout of 200 ms (`MQTTClient.c:65`); nothing is
assumed of the clock, since every write that succeeds makes the rest shorter.
`Gateway!FairSpec` assumes that both threads are scheduled and that select, when it could
return a descriptor again and again, does so at some point instead of being interrupted for ever
(`SF_vars(Dispatch(n))`).

## Findings

- `FindCoalesced`: `readOnePacket` copies the head of `inbuf` onto itself instead of moving
  the rest down (`MQTTClient.c:852`). A retained message that comes with the SUBACK in one
  read is lost, and the SUBACK is handled twice.
- `FindStaleAck`: nothing clears `client->ack` before a call, so a second `MQTTSubscribe` is
  satisfied by the SUBACK of the first.
- `FindRefused`: 0x80 in a SUBACK goes through a signed `char` and is no longer 0x80
  (`MQTTClient.c:950`).

Seen while modelling, and kept in the models without a run of its own. Where a property is named, it is
violated by the constants given.

*Session.* A refused `MQTTConnect` returns the broker's positive code although `MQTTClient.h:59`
wants failures negative. `KeepaliveChain` needs the prompt main thread: if the I/O thread reads
`runState` before `waitfor` has set it, and the connection is idle, no PINGREQ is ever sent. With
a second subscription both threads may write `sendBuf`. A main thread that looks at the CONNACK only
after the 200 ms sets `isconnected` behind the end of the connection, and `MQTTIsConnected` says so for
ever (`MQTTClient.c:594`; `IsConnectedIsTruth` with `PromptApp = FALSE`). `last_sent` is never set, so
keepalive pings after every packet and reports FAILURE when any packet comes between a ping and its
answer (`MQTTClient.c:290`; `FailureMeansNoPingresp` with the constants of `SessionGateway`); nobody
looks at it.

*Framing.* A read that ends behind the first byte of a header makes `decodePacket` read the length of an
earlier packet (`MQTTClient.c:161`, which does not look at `inSize`); the reader then waits for bytes of
the packets behind, or for ever (`AllAreHandled` with a PUBLISH, a PINGRESP and a CONNACK and
`SplitHeaders = 2`). A connection that ends inside a packet makes `srecv`
spin (`iot_mqttclient.c:96`), and a read that fails, which returns -1, makes it copy that many
bytes.

*Timers.* The clock can be set: back, and a timer goes on. The last millisecond counts as 0
(`MQTTLinux.c:58`), and more than 2^31 - 1 ms left overflows the `int`.

*Codecs.* `MQTTDeserialize_connect` refuses a user name or password that is present but empty,
which is what an empty configuration makes the gateway send, and a password without user name.
The server's CONNACK, UNSUBACK and SUBACK serialisers reserve less than they write
(`MQTTConnectServer.c:119`, `MQTTUnsubscribeServer.c:76`, `MQTTSubscribeServer.c:82`).
`MQTTPacket_len` asks for a byte more than needed at 127, 16383, 2097150 and 2097151. On
packets that are too short deserialisers return the number of length bytes, which may be 1, success
(`MQTTConnectClient.c:148`); a PUBLISH cut off inside its identifier gives a negative
`payloadlen`; the `maxcount` of SUBSCRIBE and UNSUBSCRIBE is not looked at, and a SUBACK may have one code more than there
is room for (`MQTTSubscribeClient.c:123`; `CodesFitMaxcount` with any SUBACK of two codes). `MQTTPacket_read` takes a length of five bytes as
ended after four, `MQTTPacket_readnb` fails on it. Protocol versions other than 3 and 4 are
counted without the name that is written. An `MQTTString` with both fields set is sized by one
and written by the other. The first wildcard of a filter matches no empty level, and `F/#` not
the parent `F`, unlike MQTT 3.1.1.

*Gateway.* `mqttstreamConnect` has no return statement on success; built as in the Makefile it
returns what `event_on` has left. The HTTP stream never gets `istcpconnected`, so its loop ends
at once and `httpioRecv` is never called; without a connection its thread goes through a null
pointer (`httpclient.c:166`). `activeNumqueues` only grows. Active events reuse `ev_next`. A
handler that emits on its own bus would wait for `sigLock` for ever. `select_del` is never
called. A descriptor of 128 or more lies outside of the set. `messageArrived` passes on an
uninitialised buffer when the payload has no temperature.

*JSON.* `parse_number` ignores sign, fraction and exponent, since the line that applies them is a
comment (`cJSON.c:114`): -1 is read as 1, and 1.5, printed as 1.500000, as 1500000 (`NumbersReadBack` with
the constants of `Json`). `cJSON_Create...Array` does not look whether `malloc` has failed
(`cJSON.c:714-717`): an array of one item comes back empty, a longer one goes through a null pointer
(`ArraysAreWhole`). The copy of an item with a constant name owns a string
it does not free (`cJSON.c:729`); `cJSON_ReplaceItemInObject` leaks the old name (701);
`cJSON_AddItemToObject` frees the constant name of an item added before with `...CS` (684);
an item whose name cannot be copied is put in without one (684, 701); `print_string_ptr` looks at the string before it asks whether it is NULL (261, 275),
so that an unnamed child of an object crashes; a reference to an ancestor makes printing and
copying endless; `cJSON_ReplaceItemInArray` out of range leaves the item with the caller; an empty
object within another gets a tab less than it should.

## Proofs

All of them are for every value of the constants, under the assumptions the modules name:
`SendPacket` wants packets of at least 2 bytes and a buffer of twice the longest packet
(`SendBufSizeAssumption`); `MqttSession` wants calls, topics and messages that fit together,
at least one handler, and CONNACK codes within 0..5; `PacketExchange` wants conversations that
are sequences of `Fitting` messages (`ConversationsAssumption`), tails without a packet
(`TailsAssumption`), a null pointer that is no sequence of bytes (`NullAssumption`), and a
buffer of at least 5 bytes (`BufLenAssumption`), since `MQTTPacket_readnb` stores a fixed header
before it compares sizes; `PacketFraming` wants packets as a broker encodes them
(`SentAssumption`), a `packetBuf` that a whole fixed header fits and that one read can fill, and an
`inbuf` with room for four bytes more (`SizeAssumption`; the code has 1024, 1023 and 5120).
Nothing bounds the number of calls, topics, handlers or messages, nor
the length of a conversation, of a list or of a buffer, nor that of a filter or a topic.

**`SendPacket_proofs`.** `Inv` says that what went out are the bytes of `sendBuf` from 0 to
`sent`, without a gap or a repetition, that `sent` stays below twice the length, and that
`rc` agrees with `sent`. It is inductive because the loop is entered with `sent < length`
only, so the overrun of one write cannot add up. From it follow the type invariant, the
three safety properties of the run and the refinement of `AtomicSend`.

About the timers: with times counted in microseconds, `timeradd` and `timersub` are plus
and minus, so a timer has expired exactly from its end time on (`ExpiresAtItsTime`), a
countdown ends exactly the timeout later, for every `unsigned int`
(`CountdownTakesTheTimeout`), and what is left is rounded down (`LeftIsRoundedDown`, for less
than 2^31 ms). `NeverStartedIsExpired` is why keepalive pings after every packet.

**`PacketCodecs_proofs`.** The remaining length is written in base 128, least significant digit
first; `FourDigits` says that four digits give back the number, and `LengthRoundTrip`
that `MQTTPacket_decodeBuf` finds every length below 128^4, in any buffer that contains its
bytes. `ReservesThePacket` bounds `MQTTPacket_len` from both sides; `IntRoundTrip`,
`HeaderRoundTrip` and `NextPacketIdStays` are about 16-bit numbers, header bytes and
identifiers. On these rest two lemmas for each kind of packet: `...Written` says that the
serialiser announces the length of the body it writes, and `...Read` that the deserialiser finds
the arguments of the serialiser in any buffer that holds that body at its place (`Holds`). A
list of filters is written front to back and read by a function of the place; `FiltersRead`
goes from one filter to the one before it, for lists of any length. The library's
induction theorems take an operator, so `Induction` restates one of them for a set of numbers.

**`PacketExchange_proofs`.** What one side of `src/mqtt` makes of the other's packets.

- `ReaderStaysInBuffer`: `TypeOK`, which says that the reader writes inside the caller's
  buffer. It needs to know that the remaining length is below the next multiplier while its
  bytes arrive (`TypeInv`).
- `PacketsArriveAsSent`: the refinement of `PacketChannel`, and that `MQTTPacket_read` takes
  the same bytes. `ReaderInv` says where the reader is: packet k is in the stream at `At[k - 1]`
  (`StreamInv`), the packets given away are the first ones sent (`GotSent`), and what lies
  between the end of the last one and `taken` is the beginning of the next, of which `buf`,
  `len`, `rem_len` and `multiplier` hold what has been read of it (`Position`). Behind
  the last packet the reader must find none: that is what `TailsAssumption` is for.
- `ReadersUnderstand`: what comes of every message, `Outcome`, and so also which are refused.
  `OnePacket` says that what is sent of a message is one packet of its
  first byte and body, and `ReadAsMeant` puts the `...Read` lemmas together; with `GotSent` the
  newest packet is understood as the message it was made of.
- `SerialisersReserveEnough`: `EnoughFor` compares what is reserved for each kind of message
  with the packet that is written, at every size of the buffer.
- `MatchedByLevel`: a filter matches by level, for strings of any length. The pass over the two
  strings is a function of two places, of which `MatchIs` says row by row that it is the one its
  definition describes, so that `MatchingIs` may speak of a set of pairs of places from which the
  rest matches; `LevelsAre` says that levels are what lies between two separators. For one
  level of the filter, `LiteralLevel`, `PlusLevel` and `HashLevel` say what the pass makes of it;
  `LevelMatches` puts them together: from the beginnings of level k the rest matches exactly when
  level k agrees and it either is `#`, or is the last one of both, or the rest matches from level
  k + 1. `PassIsByLevel` goes from the last level of the filter to the first. It needs filters to be
  well formed, with wildcards that are whole levels and `#` last.

**`PacketFraming_proofs`.** All but `OverlongStops` are about a regime that is `Calm`: a byte of a
packet arrives only when what is in front of it has been read, and of the first packet at most the
fixed header is cut. Without that they are false: `FindCoalesced` shows one half, what is said above of
framing the other. The gateway's exchange
with a broker is calm until two messages come together or TCP cuts a header of a few bytes.

- `Invariant`: the I/O thread is `InStep`: `inbuf` begins with the current packet and nothing
  behind it, and neither what has arrived nor `needread` goes beyond its end (`InsideCurrent`). The
  hard part is the length. It is decoded from bytes `inSize` may not cover; in front of the first
  packet those are zero, so what is decoded of a header cut off is too short, never too long
  (`HeaderKnown`), and `needread` asks for no byte of the next packet. Behind the first packet they
  are bytes of the packet before, which is why the regime lets no other header be cut. A
  packet that does not fit ends this for good: the first digits in `inbuf` are already too many
  (`Jammed`), and reading on behind them changes none of them.
- `Types`, `BufferInStep`, `HandledInOrder`: `TypeOK`, `BufferIsUnhandledBytes` and
  `FramesInOrder` follow from it.
- `Implementation`: `ImplementsChannel`. The packet handled is the next one sent, and lies
  before the end of the connection and before the first that `packetBuf` does not take.
- `OverlongStops`: in every regime. Whatever inbuf holds, once the length decoded from it is too
  long the bytes it was decoded from stay.

**`Gateway_proofs`.** For any programs of nodes, each at most once, any descriptors below 128,
any temperatures and any number of inputs. `TypeOK` and the four properties need to know where
everyone is: `Order` relates what `main` has yet to set up to what exists, `Threads` says which
thread has been started when, `Loop` that a loop watches its one descriptor and has enough words
for it, `Connection` when a stream may be freed or not connected, and `Bus` that the MQTT node's
listener is registered, and first of its name, before any message arrives. `IInv` is their
conjunction with `TypeOK` and `EveryMessageHeard`, and it is inductive. `EndIsSeen`, a liveness
property, stays with TLC.

**`Lists_proofs`.** `StaysLinked`: for any number of heads and elements. `LinkedBothWays` and
the types are not inductive by themselves: an element that is its own neighbour satisfies them,
and `dLIST_REPLACE` would then keep the one it replaces. `NoCircle` adds that the elements of a
dLIST can be numbered upwards; what each call has to show is the numbering after it.

`QueuesImplemented`: both lists implement `Queues`, walked forwards, round and backwards. The three
walks are one operator, `Follow`, of the pointers they go along. `Rows` says that pointers lead
through rows, each element in one place of one row; pointers determine their rows
(`FollowsRows`), so it is enough to give the rows after a call: `InsertRow`, `RemoveRow` and
`ReplaceRow` change one row in one place. `QInv` adds to the invariant that the walks find the
elements that are in the list and no others. For `dlist_t` forwards and backwards are two pointers
changed by one call; that they are inverse (`LinkedBothWays`) gives the one place from the other.

**`MqttSession_proofs`.** `TypeCorrect`: `TypeOK` holds throughout. By itself it is not
inductive: the message a PUBREC is for, or the topic of a SUBSCRIBE, comes out of a packet, so
`TypeInv` adds that every packet on the way and in `packetBuf` is `WellFormed`, that the
thread about to write an acknowledgement has a PUBLISH or PUBREL in `packetBuf`. `SlotForType` and `DeliverType` are the facts
about the handler table: the slot looked up is within `MAX_MESSAGE_HANDLERS`, and what is
delivered is a sequence of messages.

The rest is what the return codes of the session mean, and who writes `sendBuf`. The numbers of
calls, topics and messages are open; what a theorem assumes of the application it says by name,
in its hypothesis:

- `ConnectIsJustified`: an approval is in the channel or in `packetBuf` only after the broker
  has accepted (`ApprovalFromBroker`), and the broker never takes that back; so whichever
  packet the main thread finds in `packetBuf`, SUCCESS is justified. No assumption on the
  calls.
- `EofClosesTheSession`: once the I/O thread has seen the end of the connection, `ack` stays
  `none`. A main thread that had already seen its CONNACK may still set `isconnected`, but
  the next subscribe gets no answer and closes the session (`EndInv`). It assumes that the
  last call is a subscribe (`LastSubscribes`): without it, the late connect is the end and
  the session stays connected.
- `SendBufHasOneWriter`: until SUBSCRIBE is on its way, the broker has nothing to
  publish, nothing in the channels or in `packetBuf` calls for an answer, and `runState` is
  not CONNECTED, so the I/O thread does not write (`Quiet`). It assumes that the application
  subscribes once and last (`SubscribesOnceLast`), as `mqttmakeRequest` does: with a second
  subscribe the two threads may serialise into `sendBuf` at the same time.
- `SubscribeIsJustified`: one SUBSCRIBE goes out at most (`OneSubscribe`), so a SUBACK
  anywhere is the broker's answer to it (`SubackFromBroker`). `SubscribesOnceLast` again; the
  run `FindStaleAck` shows what a second subscribe may take for its answer.
- `SuccessHasItsHandler`: a main thread that is past its SUBACK still
  has the SUBACK in hand (`AnswerInHand`) and `isconnected` set (`StaysConnected`), so the
  handler is stored. It assumes besides that the main thread notices `ack` within the 200 ms the I/O thread sleeps (`PromptApp`, as in the run
  `SessionPrompt`): a late one finds another packet in `packetBuf`, or the connection closed.
- `ConnectedMeansOpen`: before CONNACK nothing is connected (`NothingBefore`), and whoever
  sets `isconnected` has its CONNACK in hand (`ConnackInHand`). It assumes one connect
  (`ConnectsOnce`) and `PromptApp`.

**`SessionMessages_proofs`.** What is counted: tokens, PINGREQs, and messages on their way. A
sum over channels, buffers and threads becomes a cardinality (`CountIsNumber`,
`TokensIsNumber`), and the lemmas about sequences say what appending and taking away does to it.

What they state holds until packets are read together (`Apart`): from then on the code has lost all but
the first, and handles that one again, and each of them is false. Until then the I/O thread takes the
packets out of the channel one by one (`IoApart`, of `MqttSession_proofs`), and a fault once on record
stays there (`FaultsStay`).

- `HandshakeHasOneToken`: an unacknowledged message of QoS 1 or 2 has exactly one packet of its
  handshake on its way or in hand (`TokenInv`).
- `PingsAreAccounted`: `ping_outstanding` says whether a PINGREQ or its PINGRESP is on its way;
  it needs `sendBuf` not to be overwritten before it is sent (`IntactAlways`, from
  `SendBufHasOneWriter`). Both assume `SubscribesOnceLast`.
- `KeepaliveGoesOn`: once subscribed the I/O thread comes back to keepalive after every packet
  (`PingsGoOn`), so with the flag goes a ping on its way. It assumes `PromptApp` besides.
- `MessagesAreDeliveredOnce`: no other assumption. A message is in one place at a time
  and the places are in the order of publication (`OrderInv`), and no two slots have the same
  filter (`FilterInv`: the slot of a filter is looked up before a new one is taken).
- `DeliveryHasNoGap`: if all messages are of one topic (`OneTopic`): those of another are rightly
  skipped before its handler is there. What was delivered, and what is on its way, is then one
  run of numbers (`GapInv`) that only grows at its end.

Only model-checked, since the prover cannot do it: liveness under fairness (`Answers`, `CallsReturn`,
`EofEndsLoop`, `PublishedIsDelivered`, `AllAreHandled`, `EndIsSeen`), together with
`ENABLED`; and `Forest`, `Cjson`, `JsonText` and `Json`, whose trees are recursive operators
(`TypeOK`, `TextSurvives`, `ImplementsForest`).

## Not modelled, and the plan

Next in the plan: the session composed with `PacketFraming` itself in place of `MaxAgain`, so that
what follows a packet lost or taken for another is followed too; and the end of the connection
inside a packet in the session.

Left out, and why:

- `libiot.a`, whose source is not in the repository, except where `src/` mirrors it or relies on
  it; so the locks of the queues and `json_parser.h`, which has declarations only.
- `MQTTUnsubscribe`, `MQTTPublish` and `MQTTDisconnect` (`MQTTClient.c:975-1102`): they pass an
  `MQTTClient` where `sendPacket` and `waitfor` take a `ClientStream_t`, which is undefined, and
  nothing calls them. `MQTTYield`, `cycle`, `MQTTRun` and the old `waitfor` are inside `#if 0`.
- `linux_read`, `linux_write` and `NetworkConnect` of `MQTTLinux.c`: nothing calls them since the
  streams of `libiot.a` have taken their place.
- The data race on `bufptr` (`MQTTPacket.c:101`): its outcomes are not a choice of a few.
- The text the `MQTTStringFormat_*` functions print, and logging. Of their dispatch the types are
  modelled.
- In `cJSON.c`: numbers beyond an int or with more than six decimals, the memory of names and strings with
  `cJSON_StringIsConst`, and `malloc` failing while printing.
- `select_del`, which nothing calls, a `realloc` that fails in `select_add`, and the SLIST macros,
  which nothing uses.
- `evioutil.c`, which is one `#if 0`, and the drafts of other interfaces (`httpserver.c`,
  `modbusTcp.c`, `iosocket.c`, `xml.c`, `main.c`), which are inside `#if 0` or not called. They
  are more than a third of the lines of the repository.

Memory errors after `clientDisconnect` has freed the stream are outside TLA+'s reach; the
models end at the freed stream.
