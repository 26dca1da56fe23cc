-------------------------------- MODULE Wire ---------------------------------
(***************************************************************************)
(* One command on its way from pkg/direct to the camera and back, byte by   *)
(* byte: what SendCommand writes, what the camera can make of it, what the  *)
(* notification handlers make of what the camera sends, intact or damaged   *)
(* by the radio, and what the caller reads out of its answer.               *)
(*                                                                          *)
(* Who waits for which number, and the interleavings of several callers,    *)
(* are module Device's; here one call is under way at a time, a handler     *)
(* runs in one step, and only the bytes matter.  The camera is external: it *)
(* reads at the offsets documented in header.go:29-56 and go2blepacket.go,  *)
(* and writes as the tests of the repository have it write.                 *)
(***************************************************************************)
EXTENDS Commands

CONSTANTS
  Formats,      \* the formats in play, a subset of {"go2", "header16"}
  Numbers,      \* the sequence numbers a call may have
  Asked,        \* operations in play that both formats have, raw ones among them
  Batteries,    \* battery states in play: [level, charging, voltage]
  Stores,       \* storage states in play: [total, free, files, formatted]
  Infos,        \* device infos in play: [firmware, serial]
  Refusals,     \* refusals in play: [code, text]
  Pushes,       \* bound: notifications and syncs the camera sends of its own accord
  MaxWrite,     \* the longest write that reaches the camera whole: the MTU less 3
  Harms,        \* bound: packets the radio damages
  Flippable,    \* bound: the bits of a byte that it turns over, of 0 .. 7
  None          \* stands for what is not there

ASSUME WireAssumption ==
  /\ Formats \subseteq {"go2", "header16"}
  /\ Numbers \subseteq 1 .. 254
  /\ Pushes \in Nat
  /\ Harms \in Nat
  /\ Flippable \subseteq 0 .. 7

\* No link takes less than a chunk.  Whatever the MTU, a camera takes no longer packet
\* than Go2BLEMaxInnerSize says; the code does not look at it.
ASSUME LinkAssumption ==
  MaxWrite \in BLEMaxPacketSize .. Go2BLEMaxInnerSize + Go2BLEOverhead

\* A code has 16 bits, and a message with its payload fits the 16-bit size of an
\* envelope.
ASSUME OperationAssumption ==
  \A op \in Asked : /\ op.code \in Nat /\ op.code < 65536
                    /\ op.payload \in Seq(Byte) /\ Len(op.payload) < 65520

\* What is asked of a battery or a storage depends on the format.
ASSUME ReadsAssumption ==
  \A op \in Asked :
    op.reads \in {"nothing", "silent", "whole", "status", "bytes", "info", "wifi mode"}

\* What the camera says of itself fits the bytes it has for it, which for the varints of
\* a GO 3 are two here (PutVarint), and the packet fits one notification: an attribute
\* has no more than 512 bytes.
Words == [hi : Nat, lo : Nat]
BatteryStates == [level : Byte, charging : BOOLEAN, voltage : Nat]
StorageStates == [total : Words, free : Words, files : Words, formatted : BOOLEAN]
DeviceInfos == [firmware : Seq(Byte), serial : Seq(Byte)]

ASSUME BatteryAssumption ==
  /\ Batteries \subseteq BatteryStates
  /\ \A b \in Batteries : b.voltage < 65536

ASSUME StoreAssumption ==
  /\ Stores \subseteq StorageStates
  /\ \A s \in Stores : \A w \in {s.total, s.free, s.files} :
       /\ w.hi < 65536 /\ w.lo < 65536
       /\ "go2" \in Formats => ~ s.formatted /\ w.hi = 0 /\ w.lo < 16384

ASSUME InfoAssumption ==
  /\ Infos \subseteq DeviceInfos
  /\ \A i \in Infos : /\ Len(i.firmware) < 256 /\ Len(i.serial) < 256
                      /\ Len(i.firmware) + Len(i.serial) <= 487

ASSUME RefusalAssumption ==
  \A refusal \in Refusals : /\ refusal.code \in {400, 500, 501}
                            /\ refusal.text \in Seq(Byte) /\ Len(refusal.text) <= 484

\* Every call there may be: an operation asked for, or one whose code the format has
\* a say in.
Calls == [op : Asked \cup {GetBatteryInfo("go2"), GetBatteryInfo("header16"), GetStorageInfo},
          seq : Numbers,
          open : BOOLEAN]

VARIABLES
  format,       \* the camera's format, Cam.DirectProtoFormat()
  call,         \* the caller's operation: [op, seq, open], open while its channel is registered
  air,          \* the BLE writes on their way to the camera
  heard,        \* the writes the camera has put together so far
  understood,   \* what the camera has made of them, in order
  inbound,      \* the packet on its way to the host: [bytes, damage, state]
  answered,     \* whether the camera has answered, and what: [code, value, text]
  pushed,       \* how many packets the camera has sent of its own accord
  harmed,       \* how many packets the radio has damaged
  respCh,       \* the bytes in the call's channel
  notified,     \* how many messages sit in notificationCh, which nobody reads
  cachedStorageInfo,
  result,       \* what the operation returned: [error, value, text]
  meant,        \* history: what the host has sent, in order
  told,         \* history: the storage state of the last push that arrived intact
  spoilt        \* history: what the radio did to the packet in respCh

hostVars == <<call, respCh, notified, cachedStorageInfo, result, told, spoilt>>
cameraVars == <<heard, understood, answered, pushed, harmed>>
vars == <<format, hostVars, air, meant, inbound, cameraVars>>

NotifCap == 64
Packet == [bytes : Seq(Byte), damage : {"none", "flipped", "cut"}, state : Stores \cup {None}]

\* What the camera answers, with a value of the kind that was asked for.
Values == BatteryStates \cup StorageStates \cup DeviceInfos \cup Nat \cup Seq(Byte) \cup {None}
Answers == [code : {200, 400, 500, 501}, value : Values, text : Seq(Byte)]
Errors == {"refused", "undecodable", "timeout", "not written", "not yet", "out of range"}

\* None is no member of what it stands for the lack of.
ASSUME NoneAssumption ==
  None \notin Calls \cup Packet \cup Stores \cup Seq(Byte) \cup Answers \cup Errors

TypeOK ==
  /\ format \in Formats
  /\ call \in Calls \cup {None}
  /\ air \in Seq(Seq(Byte))
  /\ heard \in Seq(Byte)
  /\ inbound \in Packet \cup {None}
  /\ respCh # None => respCh \in Seq(Byte)
  /\ notified \in 0 .. NotifCap
  /\ pushed \in 0 .. Pushes
  /\ harmed \in 0 .. Harms

Init ==
  /\ format \in Formats
  /\ call = None
  /\ air = <<>> /\ meant = <<>>
  /\ heard = <<>> /\ understood = <<>>
  /\ inbound = None
  /\ answered = None
  /\ pushed = 0 /\ harmed = 0
  /\ respCh = None /\ spoilt = None
  /\ notified = 0
  /\ cachedStorageInfo = None /\ told = None
  /\ result = None

------------------------------------------------------------------------------
(* The caller.                                                               *)

\* GetStorageInfo sends nothing to a GO 3: see ReadCache.
Operations ==
  Asked \cup {GetBatteryInfo(format)} \cup
    IF format = "header16" THEN {GetStorageInfo} ELSE {}

Succeeded(value) == [error |-> None, value |-> value, text |-> <<>>]
Failed(error, text) == [error |-> error, value |-> None, text |-> text]

\* What SendCommand writes: one packet, or as many as it takes.
PacketOf(op, n) ==
  EncodeGo2BlePacket(Go2BLETypeMessage, Go2BLESubtypeMessage,
                     EncodeGo2Message(op.code, n, op.payload))
MessageOf(op, n) == EncodeMessage(op.code, n, op.payload)
ChunksOf(op, n) == ChunkForBLE(MessageOf(op, n), BLEMaxPacketSize)
Writes(op, n) == IF format = "go2" THEN <<PacketOf(op, n)>> ELSE ChunksOf(op, n)

\* Whether the link carries each of them whole; nothing in the code asks.
Fits(op, n) == \A i \in DOMAIN Writes(op, n) : Len(Writes(op, n)[i]) <= MaxWrite

\* What arrives of writes (external): every one as it is, for a stack may take a longer
\* one to pieces and put it together again; or of the longer ones only the front.
Trimmed(b) == IF Len(b) > MaxWrite THEN SubSeq(b, 1, MaxWrite) ELSE b
Carried(writes) == {writes, [i \in DOMAIN writes |-> Trimmed(writes[i])]}

\* A command as the host means it.
Command(op, n) == [says |-> "command", code |-> op.code, seq |-> n, ask |-> op.ask]

\* A command whose answer nobody waits for registers nothing.
SendCommand(op, n) ==
  /\ call = None /\ result = None
  /\ InRange(op)
  /\ call' = [op |-> op, seq |-> n, open |-> op.reads # "silent"]
  /\ result' = IF op.reads = "silent" THEN Succeeded(None) ELSE None
  /\ \E writes \in Carried(Writes(op, n)) : air' = air \o writes
  /\ meant' = Append(meant, Command(op, n))
  /\ UNCHANGED <<format, respCh, notified, cachedStorageInfo, told, spoilt, inbound, cameraVars>>

\* Or the stack refuses a write that is too long: the call returns its error.
WriteRefused(op, n) ==
  /\ call = None /\ result = None
  /\ InRange(op)
  /\ ~ Fits(op, n)
  /\ call' = [op |-> op, seq |-> n, open |-> FALSE]
  /\ result' = Failed("not written", <<>>)
  /\ UNCHANGED <<format, respCh, notified, cachedStorageInfo, told, spoilt, air, meant, inbound,
                 cameraVars>>

\* InjectGPS refuses a position that is none, and sends nothing.
Decline(op) ==
  /\ call = None /\ result = None
  /\ ~ InRange(op)
  /\ result' = Failed("out of range", <<>>)
  /\ UNCHANGED <<format, call, respCh, notified, cachedStorageInfo, told, spoilt, air, meant,
                 inbound, cameraVars>>

\* Returning takes the channel out of responseChs.
Return(res) ==
  /\ call' = [call EXCEPT !.open = FALSE]
  /\ result' = res
  /\ UNCHANGED <<format, air, meant, respCh, notified, cachedStorageInfo, told, spoilt, inbound,
                 cameraVars>>

\* A switch without the case of 501.
RefusedByTwo(h) == format = "go2" /\ h.code \in {400, 500}

\* Status 400, 500 and 501 are the camera's refusals; Header16 has no status.
Refused(h) == format = "go2" /\ h.code \in {400, 500, 501}

\* The text a refusal comes with; 501 is not asked for one.
Reason(h, payload) ==
  IF h.code \in {400, 500} /\ Len(payload) > 2 THEN extractProtoString(payload) ELSE <<>>

HeaderOf(b) == IF format = "go2" THEN DecodeGo2Header(b) ELSE DecodeHeader(b)

\* The answer is there.  What looks into it takes the payload out (extractPayload)
\* and reads it.
Receive ==
  /\ call # None /\ call.open
  /\ respCh # None
  /\ LET h == HeaderOf(respCh)
         payload == MessagePayload(respCh, h)
     IN Return(IF call.op.reads = "nothing" THEN Succeeded(None)
               ELSE IF call.op.reads = "whole" THEN Succeeded(respCh)
               ELSE IF ~ ValidMessage(respCh, h) THEN Failed("undecodable", <<>>)
               ELSE IF Refused(h) THEN Failed("refused", Reason(h, payload))
               ELSE IF call.op.reads = "status" THEN Succeeded(None)
               ELSE Succeeded(Parse(call.op, format, payload)))

Timeout == call # None /\ call.open /\ Return(Failed("timeout", <<>>))

------------------------------------------------------------------------------
(* The camera and the radio (external).                                      *)

\* Whether the camera has a whole Go2BlePacket or Header16 message: each says how long
\* it is, and the camera puts writes together until it has that much.
Whole(b) ==
  IF format = "go2" THEN Len(b) >= Go2BLEOverhead /\ Len(b) >= Go2BLEOverhead + U16(b, 3)
  ELSE Len(b) >= 16 /\ Len(b) >= 16 + U16(b, 0)

\* What the camera takes from the payload of a command, by its code.
Meaning(code, payload) ==
  CASE code = 112 -> LET info == BytesField(payload, 1)
                     IN <<BytesField(info, 1), BytesField(info, 3)>>
    [] code = 147 -> <<<<VarintField(payload, 2)>>>>
    [] code = 148 -> <<<<VarintField(payload, 1)>>, <<VarintField(payload, 2)>>>>
    [] code = 53 -> [i \in 1 .. 3 |-> <<NumberOf64(SubSeq(payload, 8 * i - 7, 8 * i))>>]
    [] OTHER -> <<payload>>

\* The payload of an operation encodes what the user asked for.
ASSUME AskedAssumption ==
  \A op \in Asked : InRange(op) => Meaning(op.code, op.payload) = op.ask

\* A message as the documented layouts have it.
ReadMessage(b, payloadLength, code) ==
  [says |-> "command", code |-> code, seq |-> b[11],
   ask |-> Meaning(code, SubSeq(b, 17, 16 + payloadLength))]

\* A Go2BlePacket is what its type says, if its size and its check are right.
ReadPacket(b) ==
  LET size == U16(b, 3)
      inner == SubSeq(b, 6, 5 + size)
  IN IF \/ Len(b) # size + 7
        \/ CrcRemainder(SubSeq(b, 1, 5 + size)) # U16(b, 5 + size)
     THEN [says |-> "noise"]
     ELSE IF b[3] = 65 THEN [says |-> "sync"]
     ELSE ReadMessage(inner, U16(inner, 0) - 16, U16(inner, 7))

Reading(b) ==
  IF format = "header16" THEN ReadMessage(b, U16(b, 0), b[8]) ELSE ReadPacket(b)

CameraHears ==
  /\ air # <<>>
  /\ air' = Tail(air)
  /\ LET got == heard \o Head(air)
     IN IF Whole(got)
        THEN heard' = <<>> /\ understood' = Append(understood, Reading(got))
        ELSE heard' = got /\ UNCHANGED understood
  /\ UNCHANGED <<format, hostVars, meant, inbound, answered, pushed, harmed>>

CameraPacket(code, seq, payload) ==
  IF format = "go2"
  THEN EncodeGo2BlePacket(Go2BLETypeResponse, Go2BLESubtypeMessage,
                          EncodeGo2Message(code, seq, payload))
  ELSE EncodeMessage(code, seq, payload)

\* A packet, and the storage state it carries if it carries one.
CameraSends(bytes, state) ==
  /\ inbound = None
  /\ inbound' = [bytes |-> bytes, damage |-> "none", state |-> state]

BatteryPayload(b) ==
  IF format = "go2" THEN Field(1, b.level) \o Field(2, IF b.charging THEN 1 ELSE 0)
  ELSE <<b.level>> \o LE16(b.voltage)

\* The push of a GO 3 has a state, a field of bytes, then the three numbers.
StoragePayload(s) ==
  IF format = "go2"
  THEN Field(1, 4) \o <<26, 2, 32, 5>> \o Field(4, s.free.lo) \o Field(5, s.files.lo)
         \o Field(6, s.total.lo)
  ELSE LE32(s.total) \o LE32(s.free) \o LE32(s.files) \o <<IF s.formatted THEN 1 ELSE 0>>

InfoPayload(i) == <<Len(i.firmware)>> \o i.firmware \o <<Len(i.serial)>> \o i.serial

\* What a camera of the format can say of a battery: a GO 3 gives no voltage, an X3
\* does not say whether it charges.
Sayable(b) == IF format = "go2" THEN [b EXCEPT !.voltage = 0] ELSE [b EXCEPT !.charging = FALSE]

\* What the camera has to say to an operation: [value, payload].
Replies(op) ==
  CASE op.reads = "battery" ->
         {[value |-> Sayable(b), payload |-> BatteryPayload(b)] : b \in Batteries}
    [] op.reads = "storage" -> {[value |-> s, payload |-> StoragePayload(s)] : s \in Stores}
    [] op.reads = "info" -> {[value |-> i, payload |-> InfoPayload(i)] : i \in Infos}
    [] op.reads = "wifi mode" -> {[value |-> n, payload |-> Field(1, n)] : n \in {0, 2}}
    [] op.reads \in {"bytes", "whole"} -> {[value |-> <<10, 0>>, payload |-> <<10, 0>>]}
    [] OTHER -> {[value |-> None, payload |-> <<>>]}

\* The camera carries a command out and answers under its number.
CameraAnswers(reply) ==
  /\ answered = None
  /\ \E i \in DOMAIN understood : understood[i].says = "command"
  /\ answered' = [code |-> 200, value |-> reply.value, text |-> <<>>]
  /\ CameraSends(CameraPacket(200, call.seq, reply.payload), None)
  /\ UNCHANGED <<format, hostVars, air, meant, heard, understood, pushed, harmed>>

\* Or refuses it, with a number of its own and perhaps a text; only a GO 2 or GO 3 is
\* known to.
CameraRefuses(refusal) ==
  /\ format = "go2"
  /\ answered = None
  /\ \E i \in DOMAIN understood : understood[i].says = "command"
  /\ answered' = [code |-> refusal.code, value |-> None, text |-> refusal.text]
  /\ CameraSends(CameraPacket(refusal.code, call.seq, Field(1, 18) \o Text(2, refusal.text)),
                 None)
  /\ UNCHANGED <<format, hostVars, air, meant, heard, understood, pushed, harmed>>

StorageState == 8208            \* CodeGo2NotifyStorageState

CameraPushes(s) ==
  /\ pushed < Pushes
  /\ pushed' = pushed + 1
  /\ CameraSends(CameraPacket(StorageState, 255, StoragePayload(s)), s)
  /\ UNCHANGED <<format, hostVars, air, meant, heard, understood, answered, harmed>>

CameraSyncs ==
  /\ format = "go2"
  /\ pushed < Pushes
  /\ pushed' = pushed + 1
  /\ CameraSends(EncodeGo2BlePacket(Go2BLETypeResponse, Go2BLESubtypeSync, <<171, 186, 171>>),
                 None)
  /\ UNCHANGED <<format, hostVars, air, meant, heard, understood, answered, harmed>>

\* The radio turns one bit over...
RadioFlips(i, bit) ==
  /\ harmed < Harms /\ inbound.damage = "none"
  /\ harmed' = harmed + 1
  /\ i \in DOMAIN inbound.bytes
  /\ inbound' = [inbound EXCEPT !.damage = "flipped",
                   !.bytes[i] = NumberOf(SymDiff(Bits(@, 8), {bit}))]
  /\ UNCHANGED <<format, hostVars, air, meant, heard, understood, answered, pushed>>

\* ... or the packet comes short, to its first n bytes.
RadioCuts(n) ==
  /\ harmed < Harms /\ inbound.damage = "none"
  /\ harmed' = harmed + 1
  /\ n < Len(inbound.bytes)
  /\ inbound' = [inbound EXCEPT !.damage = "cut", !.bytes = SubSeq(@, 1, n)]
  /\ UNCHANGED <<format, hostVars, air, meant, heard, understood, answered, pushed>>

------------------------------------------------------------------------------
(* The notification handlers.                                                *)

Notify == notified' = IF notified < NotifCap THEN notified + 1 ELSE notified

\* A message whose number somebody waits for goes to that channel, which holds one.
Route(b) ==
  /\ IF respCh = None THEN respCh' = b /\ spoilt' = inbound.damage
     ELSE UNCHANGED <<respCh, spoilt>>
  /\ UNCHANGED <<notified, cachedStorageInfo>>

Awaited(seq) == call # None /\ call.open /\ seq = call.seq

\* handleGo2InnerData.
HandleInner(b) ==
  LET h == DecodeGo2Header(b)
      payload == SubSeq(b, HeaderSize + 1,
                        IF HeaderSize + h.length < Len(b) THEN HeaderSize + h.length ELSE Len(b))
  IN IF ~ ValidHeader(b) THEN Notify /\ UNCHANGED <<respCh, spoilt, cachedStorageInfo>>
     ELSE IF Awaited(h.seq) THEN Route(b)
     ELSE /\ Notify
          /\ cachedStorageInfo' = IF h.code = StorageState THEN ParseGo3Storage(payload)
                                  ELSE cachedStorageInfo
          /\ UNCHANGED <<respCh, spoilt>>

SyncResponse == EncodeGo2BlePacket(Go2BLETypeMessage, Go2BLESubtypeSync, Zeros(7))

\* handleGo2BleNotification: a sync is answered with seven zeros; what is no
\* envelope is tried as a message without one.
HandleGo2(b) ==
  IF ValidEnvelope(b) /\ Subtype(b) = Go2BLESubtypeSync
  THEN /\ air' = Append(air, SyncResponse)
       /\ meant' = Append(meant, [says |-> "sync"])
       /\ UNCHANGED <<respCh, spoilt, notified, cachedStorageInfo>>
  ELSE /\ HandleInner(IF ValidEnvelope(b) THEN InnerData(b) ELSE b)
       /\ UNCHANGED <<air, meant>>

\* handleHeader16Notification.
HandleHeader16(b) ==
  /\ IF ValidHeader(b) /\ Awaited(DecodeHeader(b).seq) THEN Route(b)
     ELSE Notify /\ UNCHANGED <<respCh, spoilt, cachedStorageInfo>>
  /\ UNCHANGED <<air, meant>>

Handle ==
  /\ inbound # None
  /\ IF format = "go2" THEN HandleGo2(inbound.bytes) ELSE HandleHeader16(inbound.bytes)
  /\ told' = IF format = "go2" /\ inbound.damage = "none" /\ inbound.state # None
             THEN inbound.state ELSE told
  /\ inbound' = None
  /\ UNCHANGED <<format, call, result, cameraVars>>

\* getStorageInfoGo3 sends nothing: it returns what the last push said.
ReadCache ==
  /\ format = "go2"
  /\ result = None /\ call = None
  /\ result' = IF cachedStorageInfo = None THEN Failed("not yet", <<>>)
               ELSE Succeeded(cachedStorageInfo)
  /\ UNCHANGED <<format, call, respCh, notified, cachedStorageInfo, told, spoilt, air, meant,
                 inbound, cameraVars>>

------------------------------------------------------------------------------
Host ==
  \/ \E op \in Operations, n \in Numbers : SendCommand(op, n) \/ WriteRefused(op, n)
  \/ \E op \in Operations : Decline(op)
  \/ Receive \/ Timeout \/ Handle \/ ReadCache

Camera ==
  \/ CameraHears
  \/ call # None /\ \E reply \in Replies(call.op) : CameraAnswers(reply)
  \/ \E refusal \in Refusals : CameraRefuses(refusal)
  \/ \E s \in Stores : CameraPushes(s)
  \/ CameraSyncs

Radio ==
  /\ inbound # None
  /\ \/ \E i \in DOMAIN inbound.bytes, bit \in Flippable : RadioFlips(i, bit)
     \/ \E n \in 0 .. Len(inbound.bytes) - 1 : RadioCuts(n)

Next == Host \/ Camera \/ Radio

Spec == Init /\ [][Next]_vars

------------------------------------------------------------------------------
(* Properties.                                                               *)

\* A Header16 message goes out in writes of 1 to 20 bytes, which every link carries
\* (chunker.go:5, BLEMaxPacketSize).  Of a Go2BlePacket the code makes one write,
\* however long it is (device.go:427): see PacketFits.
ChunksFit ==
  format = "header16" => \A i \in DOMAIN air : Len(air[i]) \in 1 .. BLEMaxPacketSize

\* The X3 form has one byte for the code: of a wider one, which only "raw" can ask
\* for, it sends the low byte.
CodeFits == call # None => format = "go2" \/ call.op.code < 256

\* The packet of the command is one that the link carries whole.  A longer one is
\* refused or loses its end, and what the camera then hears is anybody's guess.
PacketFits ==
  call # None /\ format = "go2" =>
    HeaderSize + Len(call.op.payload) + Go2BLEOverhead <= MaxWrite

\* The camera makes of the writes exactly the commands and sync responses the host
\* meant, in their order: code, number and what was asked for, network and password,
\* mode or position.  So it is for every X3 message, cut into chunks that any link
\* carries, and for a GO 3 packet that the link carries in one piece
\* (header.go:61-111, 162-188, chunker.go:9-32, device.go:427).
HeardAsSent ==
  /\ ChunksFit
  /\ CodeFits /\ PacketFits =>
       /\ IsPrefix(understood, meant)
       /\ air = <<>> => heard = <<>> /\ understood = meant

\* A Go2BlePacket that the radio damaged, by a bit or cut short, answers no call,
\* changes no cached state and is not taken for a sync: neither as an envelope nor
\* by way of the second try as a message without one (device.go:274-280).
DamageUnheeded ==
  [][format = "go2" /\ inbound # None /\ inbound' = None /\ inbound.damage # "none"
       => UNCHANGED <<respCh, cachedStorageInfo, air>>]_vars

\* The cached storage state is the one of the last push that arrived intact, skipped
\* fields and two-byte numbers included (camera_status.go:269-335).
StorageAsTold == format = "go2" => cachedStorageInfo = told

Checked(op) == op.reads \notin {"nothing", "silent", "whole"}

\* What a method returns is what the camera said to it: its value if the camera
\* carried it out, an error with the camera's text if it refused, and never the front
\* part of an answer that was cut short.  The response that "raw" shows is the camera's,
\* and whole on a GO 3.  A Header16 message has no check, so a bit turned over in it goes
\* unnoticed.
AsAnswered ==
  result # None /\ call # None /\ spoilt # "flipped" =>
    /\ Checked(call.op) =>
         /\ result.error = None =>
              spoilt = "none" /\ answered.code = 200 /\ result.value = answered.value
         /\ result.error = "refused" =>
              answered.code # 200 /\ (answered.code # 501 => result.text = answered.text)
         /\ result.error = "undecodable" => spoilt = "cut"
    /\ call.op.reads = "whole" /\ result.error = None /\ spoilt = "none" =>
         LET h == HeaderOf(result.value)
         IN /\ format = "go2" => h.code = answered.code
            /\ answered.code = 200 => MessagePayload(result.value, h) = answered.value

\* A method returns what the camera answered, and the cache what it pushed last
\* (camera_status.go:21-74).
AnswerUnderstood == StorageAsTold /\ AsAnswered
=============================================================================
