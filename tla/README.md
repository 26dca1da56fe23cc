# insta360ctl: a TLA+ development

insta360ctl talks to Insta360 cameras from Go: over Bluetooth LE as a client of
the camera (`pkg/direct`), over Bluetooth LE as a remote control the camera
connects to (`pkg/remote`), and over TCP through the camera's WiFi access point
(`pkg/wifi`). This directory models the parts of it where goroutines, callbacks,
lost messages and deadlines meet: what a caller may conclude from what comes
back, what happens to answers that come late or never, and which waits end.

    tlc -workers 2 -config DeviceHeader16.cfg MCDevice
    tlapm DeviceProof.tla

## 1. The system

| component | state it keeps | operations | interacts with |
|---|---|---|---|
| Device sessions, `pkg/direct/device.go`, `session.go` | `responseChs` (number → channel), `go2SeqCounter` / `Session.seq`, `notificationCh`, `syncCh`, cached storage info, the connection and its write characteristic | `Init` (connect, discover, subscribe, sync, authorize), `SendCommand`, `SendCommandNoResponse`, the notification handlers, `Close` | callers in any goroutine; handlers in the Bluetooth stack's goroutines; shared maps under `d.mu` |
| Discovery, `pkg/direct/scan.go` | the set of addresses seen, the channels of devices and errors | `Scan`: a goroutine around `Adapter.Scan`, a callback per advertisement | the adapter calls back; the command line selects on both channels |
| Camera commands, `camera_control.go`, `camera_status.go`, `gps.go`, `wifi_config.go` | none, but `cachedStorageInfo` | one method per command on top of `SendCommand`: what it sends, what it makes of the response | Device |
| Command line, `cmd/insta360ctl` | context with deadline, adapter | `runOnDirect`, `runOnRemote`, `runStream`, the wifi commands | all others |
| BLE adapters, `pkg/ble` | HCI: map of peripherals, `connectedCh`; D-Bus: the adapter's connections | `Scan`, `StopScan`, `Connect`, services and characteristics | the Bluetooth stack |
| WiFi connection, `pkg/wifi/conn.go`, `command.go` | socket, receive buffer, `mu`, `lastSend`, the message counter | `Dial` with the sync handshake, `writePacket`, `readPacket`, `keepAliveLoop`, `Close` | two writers and one reader at a time on the socket |
| Preview stream, `stream.go` | `VideoCh`, `GyroCh`, `SyncCh`, `ResponseCh` | `Start`, `waitResponse`, `readLoop`, `dispatchStream`, `WriteVideoTo`, `Stop` | the connection; `runStream` |
| WiFi join and info, `join.go` | acceptance flag, the deadline | `JoinNetwork`, `GetWifiInfo`, `joinWifiThenReconnect` | the connection; a camera that leaves its access point in the middle |
| Wire formats, `pkg/protocol` | none | encoders and decoders of the inner header, the GO 2 packet, the FF frame, chunks, CRC-16 | Device |
| Remote server, `pkg/remote` | `mu`, `running`, `notifier` | `Start`, `Advertise`, `WakeOnBLE`, `SendCommand`, `Stop`, the subscription handler | `runOnRemote`; the camera subscribes, and the handler runs in the stack's goroutines |
| Protocol tables, generated protobuf, probes, entry point | – | – | – |

What is hard in it:

* **Correlation by an 8-bit number.** Commands and answers are matched by a
  sequence number that wraps; the handler looks a channel up under a lock and
  sends after unlocking; a call may time out in between and its number be given
  out again; the deferred delete removes whoever is registered by then.
* **Two disciplines of numbering.** `Session.NextSequence` locks, `nextGo2Seq`
  does not.
* **A camera that takes the initiative.** A GO 3 puts the first command aside
  and asks for a sync, which the notification handler must answer while the main
  goroutine waits for the command.
* **Channels with nobody at the other end.** `notificationCh`, `syncCh`, the
  streamer's channels: a send that waited would stop the only goroutine that
  takes packets off the link.
* **Callbacks that outlive what they were for.** Both adapters' callbacks, and the
  remote's subscription handler, run in the stack's goroutines and meet the
  caller in a map without a lock, a channel of one, a mutex held for a moment.
* **Ends that race.** The scan's end, its error, the context's end; a read
  deadline against a lost connection; a cancelled stream with two goroutines
  still at work.
* **A protocol that cuts its own link.** A camera that joins another network
  drops the connection the answer was to come over.

What makes each component correct is stated with its module below. The full list
of hazards, each at its line, is in `PROJECT.json`.

## 2. The modules

    Bluetooth, camera as server                  WiFi

    Rpc <-implements- Device <- DeviceProof      PacketQueue <-implements- Framing <- FramingProof
     |                                                |
     | what Rpc promises                              | what PacketQueue promises
     v                                                v
    DirectRun <- DirectRunProof                  WifiStream <- WifiStreamProof
                                                 WifiJoin <- WifiJoinProof

    Codec <-extends- Commands <-extends- Wire <- WireProof
      (the bytes of one command and its answer)

    Bluetooth, the adapter                       Bluetooth, camera as client

    HciAdapter <- HciAdapterProof                Remote <- RemoteProof

Each module `M` that is checked has an `MCM` with the values and the symmetry for
TLC; every `.cfg` says in its first lines which instance it is.

### Rpc, Device: commands and their answers

`Rpc` is what `SendCommand` promises, in four actions: a call is asked, served by
the camera, answered or failed; an answer is the camera's answer to that call.

`Device` is how `pkg/direct` does it. A call is a goroutine and a round, and
stands for the channel the call makes: the handler keeps hold of a channel, not
of a number, across its unlock.

| action | code |
|---|---|
| `NextSequence` (locked) | `session.go:18-27` |
| `LoadCounter`, `StoreCounter`, `WrapCounter`, `ReturnCounter` | `device.go:401-407`, one step per access to the shared counter |
| `Register` | the map insert under `d.mu`, `device.go:412-415`, `454-457` |
| `WriteChunk`, `WriteFails` | one `charWrite.Write`, `device.go:466-472`; no lock from one to the next |
| `ReceiveResponse`, `Timeout` | the two cases of the select, with what the command makes of the response |
| `Cleanup` | the deferred delete |
| `LookUp`, `Deliver`, `Garbled`, `StorageNotification` | the handlers: look-up under the lock, send after it, fallbacks to `notificationCh` |
| `CameraAnswers`, `CameraSilent` | the camera and the radio (external): late, reordered, lost, at most one answer a request |

What a message is made of is `Wire`'s subject; here its writes are counted. Messages
whose chunks alternate with another call's are recorded in `torn` and the camera
finds neither.

`WithinWindow` is an assumption on the environment, switched by `Windowed`: while
a request may still be answered fewer than `MaxSeq` further numbers are handed
out. Nothing in the code enforces it; with 254 numbers, deadlines of seconds and
commands of hundreds of milliseconds it is what makes an 8-bit correlation sound.
It is as weak as it can be: without it a call can get the answer of a call one
full cycle older.

Properties: `OwnAnswer`, `StaysRegistered`, `NoLeftovers`, `AnswerKept`,
`ImplementsRpc`, `EveryCallReturns`, `AnswersTaken`.

### Codec, Commands, Wire: the bytes of a command

`Codec` has the formats as pure operators, a packet a sequence of bytes and the
offsets those of the source: both 16-byte headers, the GO 2 envelope, CRC-16,
20-byte chunks, the FF frame with its padding, the payloads of battery, storage
and device info, the little of protobuf and IEEE 754 that the commands use. A CRC
register is the set of its one bits, so an exclusive or is a symmetric
difference. `CrcRemainder` is the reference the camera checks by: the remainder of
the polynomial division the CRC is defined by. What goes byte by byte or field by
field is a recursive function, never a `RECURSIVE` operator, so that it can be
proved about.

`Commands` says what each subcommand of `direct` sends and reads: an operation is
its code, its payload, how the response is read, and `ask`, what the user asked
for, which is what the camera must make of the payload.

`Wire` sends one operation with them, to a GO 3 or an X3, and brings back what the
camera has to say.

| action | code |
|---|---|
| `SendCommand` | encode, envelope or chunks, write: `device.go:409-429`, `450-472` |
| `WriteRefused` | the stack returns an error for a write that is too long, `device.go:427-429` |
| `Decline` | `InjectGPS` refuses a position, `gps.go:29-35` |
| `Handle` | the notification handlers, `device.go:274-380`: envelope, sync response, the second try without an envelope, routing by number, the cache |
| `Receive`, `Timeout` | the select, then `extractPayload` with the text of a refusal, and the parse: `camera_status.go:21-152`, `184-265`, `wifi_config.go` |
| `ReadCache` | `getStorageInfoGo3` |
| `CameraHears` and the other `Camera..` | the camera (external): it reads at the documented offsets, checks the CRC by its definition, decodes payloads by their code, answers, refuses with or without a text, pushes its storage state, syncs |
| `RadioFlips`, `RadioCuts` | one bit turned over; a packet that comes short |

`MaxWrite` is the longest write the link carries whole, its MTU less 3: at least a
chunk (`LinkAssumption`), at most the packet of `Go2BLEMaxInnerSize`. The code makes
one write of a GO 3 packet, however long it is, and asks nobody: not that constant,
which nothing uses, nor the MTU, which it requests and whose refusal it only logs
(`device.go:90-93`; over D-Bus `SetMTU` does nothing). What a longer write comes to is
the stack's business, so the model has every outcome: an error to the caller
(`WriteRefused`), the front of it, or all of it (`Carried`). The camera puts writes
together until it has as much as the packet or message says it is (`Whole`).

A handler is one step and one call is open at a time: the interleavings are
`Device`'s. `syncCh` and the reader's side of `notificationCh`, which there is
none, are `DirectRun`'s and `Device`'s.

Properties: `HeardAsSent` (every command as it was asked: every X3 message, in chunks
any link carries, and each GO 3 packet of at most `MaxWrite` bytes; of a longer one
nothing is claimed, section 6), `DamageUnheeded` (for a GO 3, the second try of the handler included),
`AnswerUnderstood` (what a method returns, a refusal's text and the cached push
included). `FramesDecode`, an assumption of `MCWire` that TLC evaluates, compares
decoded FF frames with what was encoded.

### DirectRun: one command from scan to close

The scanning goroutine and its callback; the scan command with its loop, or
`runOnDirect` with `Device.Init`, the sync handshake, the authorization, the
command's own requests and `Close`. `command` is what the user asked for: `scan`,
a control command (`shutter` stands for each), `photo` with its two requests,
`status` with its two queries, whose failure is only printed, and `power-off`,
which waits for no response. A command's write and its wait are the steps; that an
answer reaches its own call is taken from `Rpc`. `StopsRadio` is the one difference
between the two adapters that matters here: D-Bus stops the scan when the context
ends, HCI returns and leaves it on. The camera (external) follows the comment of
`syncHandshake`: it keeps the first command, sends a sync, and serves the command
once that was answered. What it answers to the check is the status it holds this host
for (`Statuses`, numbered as in `authorization.proto`): `AUTHORIZED`,
`NOT_AUTHORIZED`, or one of the four that `authorize` passes over in silence. Sync
packet and answer may be lost; the connection may fail at each step of `Init`.

Properties: `HeardIsOffered` (the address filter of the callback),
`SilentInitIsReady` (after an `Init` that logged no warning the camera is synced and
does not hold the host for `NOT_AUTHORIZED`; it may be `PENDING`, `DENIED`, `EXPIRED`
or `UNKNOWN`, section 6), `OkWasAnswered` (both requests of `photo`), `RunReturns`, `SyncTaken`.

### HciAdapter: connections over HCI

`Scan` in a goroutine of its own, the callbacks it registers, which the stack runs
one after the other, and a goroutine that calls `Connect` again and again
(`hci.go:61-131`).

| action | code |
|---|---|
| `Start`, `ScanReturns` | the start of the device; the select of `Scan` |
| `Discovered`, `DiscoveredWrites` | the callback begins and ends its write to the map |
| `Connected`, `ConnectedWrites`, `ConnectedTells` | the same write, then the non-blocking send to `connectedCh` |
| `StateChanged`, `Report` | the state callback; its send to `errCh`, which waits for room |
| `LookUp` | the read of the map: while it is written any part of it may be seen, or the runtime ends the program (`raced`) |
| `Ask`, `TakeEvent`, `GiveUp` | `device.Connect`, and the two cases of the select |

The stack (external) answers each request at most once, in time or long after.

Properties: `OwnConnection` (until some `Connect` gives up, each returns the
outcome of its own request), `ConnectReturns`.

### Remote: the camera as client

`Server` with its mutex, called by `runOnRemote` and by any other goroutines, and
the subscription handler, one goroutine of the stack per subscription; they may
overtake one another. Each lock, each access under it and each call into the stack
is a step. `script` is where `runOnRemote` is, from `NewHCIAdapter` (which resets
the radios and tries once more) to the action. The camera (external) connects,
subscribes, unsubscribes and leaves when it likes.

Properties: `OneSetupPerStop`, `SentToCurrent` (a command goes to a camera served
at some time during the call), `CallsReturn`.

### PacketQueue, Framing: packets on a byte stream

`PacketQueue` is what readers of a camera connection are promised: its packets,
whole, in order, each to one reader. `Framing` is `readPacket` and `fillBuf`
(`conn.go:125-168`): any number of readers, `readMu`, the buffer, a `Read` that
returns part of what came or fails with or without bytes, a length that is
refused. The stream is abstracted to its positions: a payload is the stretch it
takes up, the buffer the stretch from `consumed` to `got`. Where no packet
begins, four bytes may be taken for any length. `CameraBabbles` (external) ends
the stream with bytes that are no packet.

Properties: `ImplementsQueue`, `InStep` (a failed call leaves nothing behind that
the next one could take for a length), `BufferBounded`.

### WifiStream: a preview stream

`Dial` with the sync, `writePacket` as lock, two writes, unlock for both writers;
the keep-alive's ticker against `lastSend`; `Start`, `waitResponse`, `readLoop` and
`dispatchStream`; `WriteVideoTo`, `Stop`, and the deferred `Close`. The two
readers of the socket are `main` until the response and `loop` after it. Time is
counted in units of which `Interval` make the keep-alive's period.

Properties: `WholePackets` (no packet inside another), `KeptAlive` (the camera
never waits longer than just under two periods), `VideoInOrder`, `CancelReturns`,
`NoOrphans`.

### WifiJoin: telling the camera to join a network

`JoinNetwork` and `GetWifiInfo` with their loops, deadline and deferred reset,
and what `wifi join`, `wifi info` and `stream --wifi-ssid` do with the outcome.
The camera (external) accepts, refuses or ignores, tries, succeeds or fails,
tells or does not, chatters, and loses the connection at any time. That proto3
sends no default value is `EmptyBody`.

Properties: `CameraSaidSo` (what is reported rests on the camera's word about
this command), `RedialsJoined`, `JoinReturns`.

## 3. The runs

| run | instance | shows |
|---|---|---|
| `device_header16` | two goroutines, two calls each, two handlers, two chunks a message, cycle of 3 | no answer goes astray, no registration is stolen or left behind, a call's answer is never the dropped one, the session implements `Rpc` |
| `device_go3` | one goroutine, three calls over a cycle of 2, more pushes than `notificationCh` holds | the unlocked numbering is safe with one goroutine; every call returns; a full `notificationCh` holds nothing up |
| `direct_run` | every command; three cameras, one of them wanted and one with an address that is refused, one slot in the channel, D-Bus | the command line returns, a silent `Init` hides no missing sync and no `NOT_AUTHORIZED`, success was answered, no camera is hidden by its nameless advertisement |
| `scan_end` ✗ | over HCI, two cameras | `ScanEndsCleanly` fails: the closed channel yields nil devices, and a callback still at work sends on it |
| `wifi_stream` | channels of one, five packets, period of two | whole packets, keep-alive in time, order, and a cancelled run that returns and leaves nothing running |
| `stream_hang` ✗ | the connection breaks | `ErrorEndsStream` fails: `WriteVideoTo` waits for ever |
| `wifi_join` | three commands, four packets | reports rest on the camera's word, redial only to a camera that joined, return by the deadline |
| `join_timeout` ✗ | the camera accepts, then silence | `TimeoutIsAnError` fails: the deadline is reported as success |
| `framing` | two readers, three packets of a prefix and up to two bytes, a `Read` of up to five, errors anywhere | whole packets in order, each to one reader; nothing lost by a failed call; a bounded buffer |
| `wire` | GO 3 and X3; 25 operations, among them messages of two full chunks and of one byte more, packets of just what the link carries and of one byte more, a position out of range and a code of two bytes; three refusals; one push or sync; one damaged packet | what the camera hears, what the caller reads, and that damage goes unheeded |
| `remote` | `runOnRemote`, one other goroutine with two calls of any kind, two subscriptions | one set-up per `Stop`, commands to a camera of the call's time, and every call returns |
| `hci_adapter` | two peripherals, three `Connect`s, three reports of a state | each `Connect` returns its own outcome until one gives up, and always returns |

✗ marks the runs that are expected to end in a counterexample: each checks one
statement a comment of the repository makes, and the findings in `PROJECT.json`
quote it. All three can happen to the command line: `scan_end` when a scan ends
before the context, as over HCI when the radio reports a state other than powered
on, and for every scan that is ended by its deadline; `stream_hang` when the
connection breaks in the middle; `join_timeout` when the camera falls silent.

**Bounds.** A wrap-around, a stale delete, a lost answer and a late one need a
number used twice: four calls over three numbers, or three over two. Two callers
and two handlers give every pair of steps that can race; a third of either adds
no new pair, and the proofs of section 5 do without the bound. Three cameras
are the wanted, the one the filter skips, and the one whose address does not parse; one slot in a channel makes both full and empty
reachable. Five packets from the camera are one sync, one answer, and more video
than the channel holds; four are an answer, a result and two strays. In `framing` a
`Read` of five bytes ends anywhere in the packet after next. In
`wire` the damage falls on every byte of every packet, in its lowest bit and the
one of the mode byte, and on every length; a payload of 24 bytes makes messages of
exactly two chunks and a packet of 47 bytes, which is `MaxWrite` here, and one of 25
bytes is one over in both. 47 stands for the 244 of `doc/ble_protocol.md:1121`: TLC
works out the CRC of a packet by a recursion as deep as the packet is long, so the
limit is low and the packets are short; the proof has it at any value. With the MTU
a link has before it is negotiated, 23, `MaxWrite` is 20 and no command of a GO 3
fits. In `remote` two
calls beside `runOnRemote` are a `Stop` between any two of its steps and a `Start`
after it; in `hci_adapter` three `Connect`s are one given up on, one that gets its
event, and one that gets the second's, and three reports are one more than `Scan`
takes and its channel holds. `AirCap` and `InCap` bound the messages under way; a
full link delays the camera and drops nothing.

**Fairness.** Goroutines are scheduled (weak fairness of each one's steps). A
context given to `SendCommand` has a deadline (`helpers.go:51`), so a call's wait
ends; read deadlines pass; a call into the Bluetooth stack returns. A select with
two ready cases may choose either for ever, in principle; Go chooses at random,
hence strong fairness on `VideoDone` in `WifiStream`. A Go mutex hands itself to a
waiter that has waited long, hence strong fairness on taking it in `Remote`. Camera,
radio, network, user and the other callers promise nothing.

**Deadlock checking** is off in all runs: every one of these programs ends.

## 4. What holds the interesting cases open

A property that holds only because the model cannot do wrong says nothing. For
each property of a passing run `PROJECT.json` names a change of the model, in the
form of a plausible bug of the code, under which TLC finds it violated: a delete
under the wrong number, a dispatch that waits for room, a lock left out, a match
without the number. They are the definitions that precede the ones they replace.

## 5. What is proved

`DeviceProof`, for numbers taken one at a time (`OneAtATime`: under the lock, or by
one goroutine) and under `Windowed`, for any number of callers, rounds, handlers
and chunks and any cycle length:

* `TypeCorrect`, `AnswersAreOwn`, `WaitersStayRegistered`, `NothingLeftOver`,
  `AnswersKept`, and `SessionImplementsRpc`, that every step of the session is a
  step of `Rpc` or none.

None of these is inductive by itself. `IInv` adds *Numbering*: live requests have
tickets within one cycle of the last number handed out and each has the number
its ticket gives, so two live requests never share one; *Routing*: what is
registered under a number is the call that has it, and a handler's target is the
call whose answer it holds; *Progress*: an answer exists only after the camera
served a request that was written in full. *Numbering* is where `WithinWindow` is
used, once, when a number is given out. Without the lock the counter passes through
values it does not keep, between `StoreCounter` and `WrapCounter`; `CounterOf` is
what it stands for meanwhile, and one goroutine at most is in between. Several
goroutines without the lock are outside these theorems: there `OwnAnswer` fails
(section 6).

`WifiJoinProof`, for any set of commands, any number of packets and any capacity:

* `TypeCorrect`, `ReportsRestOnTheCamera`, `RedialsAreToJoined`.

The invariant here says that every packet on its way, or in hand, is *backed*:
the camera stands behind what it says. The camera's word never changes
(`CameraKeepsItsWord`), so backing survives every step, and a report, made from a
backed packet, rests on the camera's word.

`FramingProof`, for any number of readers and packets and any sizes:

* `TypeCorrect`, `BufferStaysBounded`, `AlwaysInStep`, and
  `FramingImplementsQueue`, that every step of the readers and the camera is a
  step of `PacketQueue` or none.

The invariant adds that the camera's packets lie end to end on the stream
(*Laid*), that what was handed out is a prefix of what was sent and the buffer
begins where that prefix ends (*InOrder*), and that a reader past the lock is the
lock's holder and, once it has a length, has the next packet's (*OneReader*).
From the first two it follows that the four bytes at the front of the buffer are
a length, or the garbage after the last packet.

`DirectRunProof`, for any cameras and filters, either adapter and any channel
sizes:

* `TypeCorrect`, `HeardAreOffered`, `SilentInitsAreReady`, `OkIsAnswered`. The third
  says no more than `SilentInitIsReady` does: synced, and not `NOT_AUTHORIZED`.

The invariant says that what the camera was heard to say it stands behind
(*AirInv*, *RespInv*: an answer on the air, or in the channel of a call that
waits for it, was given by a synced camera to that very request, the status it names
is the camera's or the camera has granted the authorization since, and if it grants
something the camera has granted it); that a camera without sync and
authorization needs none (*FormatInv*); that `photo` only gets to its second
request with the first one answered (*JobInv*); and that the addresses marked as
seen are the ones whose name was heard (*ScanInv*). What the camera has granted it
does not take back, so an answer stays vouched for while it waits.

`WifiStreamProof`, for any number of packets, any capacities and any interval:

* `TypeCorrect`, `PacketsStayWhole`, `CameraHearsInTime`, `VideoStaysInOrder`.

*MutexInv* ties the mutex to the writer past its lock and, while the connection
works, the payload the camera waits for to that writer; *TimeInv* bounds the time
since the last send together with the time to the next tick, which is what a
skipped tick leaves for the next; *OrderInv* says that video is numbered in
rising order from the output back through channel and reader to the socket, and
needs *ReaderInv*, that `main` and the read loop never both have the socket.

`RemoteProof`, for any number of goroutines, calls and subscriptions:

* `TypeCorrect`, `MutualExclusion`, `SetUpOnce`, `CommandsGoToCurrent`.

*CallsInv* says what a call may rely on at each of its points: a `Start` about to
mark the server found it stopped and still holds the mutex, so nobody else did; a
`SendCommand` that has not read the notifier yet will read one of its own time,
and one that has holds such a one. *ScriptInv* places `runOnRemote`.

`HciAdapterProof`, for any peripherals, calls and reports:

* `TypeCorrect`, `ConnectionsAreOwn`.

*InFlight* lists where the one event under way can be while no `Connect` has given
up: not asked for, asked for, in the callback, or in the channel; so the channel
is empty whenever a `Connect` begins.

`WireProof`, for any operations whose payloads fit a message, any bytes in them, any
answers, pushes and damage, and either format:

* `CrcIsRemainder`: for every sequence of bytes the loop of `crc.go` leaves the
  remainder of the polynomial division.
* `PacketReads`, `MessageReads`: what the camera reads in a GO 2 packet, its check
  by the definition included, or in a Header16 message, is the code, the number and
  the payload that were encoded (of an X3's code the low byte).
* `Chunks`: a message's chunks are of 1 to 20 bytes and are together the message.
* `OneByteIsNoticed`: messages of one length that differ in one byte have different
  checks. `CutsAreNoticed`, `FlipsAreNoticed`: a packet that comes short is no
  envelope, and neither is one with one byte changed, unless the byte is of the length
  and the length is now less than what came.
* `TypeCorrect`, and `CommandsHeardAsSent`: every X3 message, for chunks fit every
  link; and of a GO 3 the packets of at most `MaxWrite` bytes, for any `MaxWrite` of
  `LinkAssumption`. That condition (`PacketFits`) is needed: without it TLC finds the
  packet of which only the front arrives.
* `DamageIsUnheeded`: no damaged packet of a GO 2 or GO 3 answers a call, changes the
  cached storage state or is taken for a sync, unless it *Collides*: a byte of the
  length is turned over, so that the check is looked for inside the data, and what
  stands there is the check of what precedes it. The hypothesis is needed, for there
  are data that have the right two bytes at the right place; the run, which tries
  every bit and every cut of its packets, has none.
* `RepliesAreParsed`: what the parser behind a method reads in a payload of the camera
  is what the camera put into it, for every battery state, storage state, device info
  and WiFi mode whose numbers the fields hold.
* `AnswersAreUnderstood`: a method returns the answer to its own call, and the cache
  holds what was pushed last, if no packet collides and no refusal has a text of 17
  bytes or more (`RefusalsAreShort`). That hypothesis is the code's doing as well: the
  camera's refusals have the number 18 in front of the text, which `extractProtoString`
  takes for the tag, and the tag after it, 18 too, for a length, as soon as so many
  bytes follow.

For the CRC, *Matches* relates the register after some bytes to what is left of the
dividend: each of the register's bits is the coefficient a fixed distance below the
highest power not yet divided away, once the message bits still to come are taken
out; one shift of the register is one step of the division, eight are a byte, and
the bytes are an induction on their number. For the session, *PacketsInOrder* says
that what the camera understood and what is in the air are together what the host
meant, packet by packet, as long as the call's packet fits the link;
*ChunksInOrder* that the one message of an X3 is understood
already, or *Underway*: its first chunks are in `heard` and the rest in the air, and
only all of them are `Whole`. For the damage, a shift of the register by a byte is
one-to-one, in the register and in the byte, so a difference stays one to the end of
the message; *CameraSent* says that what comes in was a packet of the camera's once,
with at most one byte changed or an end missing, and a packet that is no envelope any
more has no sign of a bare message before its sixteenth byte. For the parsers, *Here*
says what stands at a position of a payload and *Seen* which fields were read from
there on; a parser's recursion goes forward through the payload, so it is a recursion
over its positions from the last (`ForwardRecursion`, `FieldsRead`), and what it returns
for a payload of known fields follows field by field from the end. For the answer,
*Transit* says that what comes in is the camera's answer to the call under way, a push
or a sync, or what the radio made of one; *RespInv* that the channel holds the answer to
its call or, without a check, the front of it; *CallInv* that an open call has no result,
so nothing is let in behind a result's back; *AnswerTold* that who looks for an answer
and did not run out of time had one, so no answer comes after the result. The theorems
rest on
`OperationAssumption`, `BatteryAssumption`, `StoreAssumption`, `InfoAssumption` and
`RefusalAssumption` (sizes that the fields hold, and the codes a camera refuses with),
`LinkAssumption` (a link carries a chunk),
`ReadsAssumption` (what is asked in both formats is read the same in both),
`NoneAssumption` (a model value apart), and `AskedAssumption`: the
payload of an operation decodes to what was asked. TLC evaluates that one for each
operation of the run; that every method's payload does so for every argument is not
proved.

An induction over numbers is cited for a set, the numbers for which a fact holds
(`SetInduction`), and from it follows that a recursive function equals its
definition (`Recursion`, `ForwardRecursion`), so recursion over data is within reach:
of any number of steps where they are of known size, and of steps whose size is read
from the data where their number is known.

Only model-checked:

* liveness: fairness and ENABLED are out of the proof system's reach here.
* `AskedAssumption`, as said, and `FramesDecode`.

## 6. What is not modelled, and what is known

Not modelled:

* The probes (`probe.go`, `probe_custom.go`): one goroutine that writes packets,
  sleeps and prints; nothing depends on what comes back.
* Protocol tables, generated protobuf, the entry point, logging, flags: no state,
  or nothing but I/O. Of the generated code the few encodings the commands use are
  in `Codec`, external.
* The adapters' lists of services and characteristics, and the D-Bus adapter's
  calls: they are handed on to the stack.
* Below the adapters: BlueZ, the kernel, the radio. They appear as calls that
  may fail and messages that may be late, lost, reordered or damaged.
* A write to the camera's socket that blocks: in `WifiStream` it succeeds or fails at
  once. The code sets no deadline for writes (`conn.go:118-121`) and `Streamer.Stop` makes
  no use of its context (`stream.go:111-114`), so a `Stop` could wait there.
* A result that the camera still owed to an earlier join: `WifiJoin` begins with
  nothing on the way, and `join.go:106` would take such a one for its own.
* A sync that comes between the subscription and `syncHandshake`, while `syncCh` is
  nil: the handler answers it and passes nothing on, which nothing waits for.

Behaviour the models have and no property excludes. Of the commands:

* Two goroutines that command one GO 2 or GO 3 can be given the same number:
  `nextGo2Seq` (`device.go:401`) is four accesses under no lock. The second
  registration replaces the first, and the first command's answer goes to the
  second caller. `OwnAnswer` fails for `Device` with `Locked = FALSE` and two
  `Callers`. The command line has one goroutine; the package's API is exported.
* Two callers' chunks may alternate (`Device`); the camera hears neither message.
* A GO 3 packet goes out in one write of any size (`device.go:422-427`).
  `doc/ble_protocol.md:1126-1128` says "For packets larger than the MTU, they must be
  split across multiple BLE write operations", and lines 1124-1125 that up to 500 bytes
  of inner data are supported; the code does neither split nor check, and
  `Go2BLEMaxInnerSize` (`go2blepacket.go:64-65`) is used nowhere. With a long `raw`
  payload or a small MTU a command fails with the stack's error, or the camera hears
  its front and waits for the rest (`WriteRefused`, `Carried`); `HeardAsSent` excludes it by `PacketFits`.
* `authorize` asks for the authorization only on `NOT_AUTHORIZED` (`device.go:230`);
  `doc/ble_protocol.md:549` has "(if status != Authorized)". On `PENDING`, `DENIED`,
  `EXPIRED` and `UNKNOWN`, which an empty payload is, `Init` goes on without a request and
  without a warning, and the camera may ignore the command (`Checked` in `DirectRun`).
* The same document numbers the statuses otherwise (`doc/ble_protocol.md:499-506`: 1 Not
  Authorized, 2 Pending, 3 Authorized, 4 Expired, 5 Denied) than
  `authorization.proto:37-44` (1 authorized, 2 not authorized, 3 pending, 4 denied, 5
  expired). The model's camera numbers them as the code does; one that followed the
  document would have its "Not Authorized" taken for an authorization.
* A control command reported as done may have been refused: `camera_control.go`
  drops the response (`Device`, `DirectRun`, `Wire`). `raw` shows the response
  and does not look at its status, and `status` reports success when both its
  queries failed.
* `raw` takes a code of two bytes; an X3 is sent its low byte (`Wire`, `CodeFits`).
* A status code that is none of 400, 500 and 501 counts as success, and the text of
  a refusal is looked for byte by byte, so a value may be taken for a tag
  (`extractProtoString`): after the error number 18 a text of 17 bytes or more is shown
  as its length byte and its first 17 bytes. The device info is read as two strings with their
  lengths for every camera.
* A Header16 message has no check: a bit turned over in an answer is read as it
  is, and `extractPayload` looks at no status there (`Wire`).
* `getStorageInfoGo3` fails while nothing was pushed (`Wire`); its comment,
  `camera_status.go:166-168`, says it returns a zero value.
* `stripABBAPadding` looks for pairs one byte off after an odd number of padding
  bytes, so `AB BA` stays, and takes parameters that end like padding for it
  (`FramesDecode`). Nothing in the program decodes a frame.

Of the command line and the adapters:

* When `Init` fails after the connection is up, `runOnDirect` returns before it
  has deferred `Close` (`DirectRun`); over D-Bus the connection stays.
* A `Connect` over HCI that was given up leaves its event to the next one, whatever
  camera that asked for, whose own event goes to the one after it, and so on
  (`HciAdapter`; `OwnConnection` ends with the first `gaveUp`).
* `Connect` may read the map of peripherals while a callback writes it; the
  runtime may then end the program (`raced`).
* An error reported to `Scan` after it has returned waits in the stack's only
  goroutine once the channel is full: no callback runs any more (`Report`).
* A join whose result has no details would be an empty body in proto3, and
  `join.go:127` reports it as a failure (`WifiJoin`).

Of the remote:

* `runOnRemote` acts as soon as it advertises, when no camera can have subscribed:
  `remote shutter` fails with "no camera connected" although `helpers.go:95-96`
  and the flag `--wait` (`main.go:75`, true by default) say it waits for one. The
  flags `--wait` and `--camera-id` are never read, nothing calls `WakeOnBLE`, and
  nothing calls `Stop` at the end.
* A `Start` whose set-up failed leaves the server running; it cannot be started
  again before a `Stop`.
* A handler that was overtaken stores an older notifier over a newer one, and one
  that was held up stores one after `Stop`; a `SendCommand` under way during `Stop`
  still sends. `SentToCurrent` says what remains true.
* `NewHCIAdapter` resets every radio of the machine when the device cannot be
  opened, whoever else uses them.

## 7. Plan

What is left, in this order:

1. A proof that the payloads of `SetWifiConfig`, `SetWifiMode` and the like decode
   to what was asked, for every argument, which discharges `AskedAssumption`.
   `FieldsRead` says how far into a payload the camera's reader is; what is missing is
   each message's fields, strings of any length among them.
2. `Device` with chunks of `Wire`: several commands in a row, byte by byte, and
   the routing of a damaged packet among several calls.
3. `Remote` over `HciAdapter`: one device for both, as `GattDevice` allows.
