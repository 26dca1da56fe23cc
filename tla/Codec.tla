-------------------------------- MODULE Codec --------------------------------
(***************************************************************************)
(* The byte formats of pkg/protocol and the payloads of pkg/direct, as pure *)
(* operators.  A byte is a number below 256 and a packet a sequence of      *)
(* bytes; the offsets of the source, which count from 0, are kept.  What a  *)
(* decoder refuses is a predicate of its own (ValidHeader, ValidMessage,    *)
(* ValidEnvelope), and the decoder is applied only where it holds.          *)
(***************************************************************************)
EXTENDS Integers, Sequences, SequencesExt

Byte == 0 .. 255

Zeros(n) == [i \in 1 .. n |-> 0]
At(b, offset) == b[offset + 1]

Low(n) == n % 256
High(n) == (n \div 256) % 256

LE16(n) == <<Low(n), High(n)>>
U16(b, offset) == At(b, offset) + 256 * At(b, offset + 1)

\* A uint32 as its two halves: TLC's integers have 32 bits with the sign.
Word(n) == [hi |-> n \div 65536, lo |-> n % 65536]
LE32(w) == <<Low(w.lo), High(w.lo), Low(w.hi), High(w.hi)>>
U32(b, offset) == [hi |-> U16(b, offset + 2), lo |-> U16(b, offset)]

------------------------------------------------------------------------------
(* The 16-byte message header, in its two forms.                            *)

HeaderSize == 16
headerMode == 4
ContentTypeProtobuf == 2
headerIsLast == 128

\* A code that is written whole into the field's one byte.
EncodeHeaderWide(h) ==
  <<Low(h.length), High(h.length), 0, 0, headerMode, 0, 0, h.code, 0, ContentTypeProtobuf,
    h.seq, 0, 0, headerIsLast, 0, 0>>

\* Header16 (X3, ONE R, ONE RS): the payload's length and the low byte of the code.
EncodeHeader(h) ==
  <<Low(h.length), High(h.length), 0, 0, headerMode, 0, 0, Low(h.code), 0, ContentTypeProtobuf,
    h.seq, 0, 0, headerIsLast, 0, 0>>

\* The total size in 32 bits, the code in 16.
Go2Header(total, h) ==
  <<Low(total.lo), High(total.lo), Low(total.hi), High(total.hi), headerMode, 0, 0,
    Low(h.code), High(h.code), ContentTypeProtobuf, h.seq, 0, 0, headerIsLast, 0, 0>>

\* A size without the header's own.
EncodeGo2HeaderOfPayload(h) == Go2Header(Word(h.length), h)

\* Go2 (GO 2, GO 3).
EncodeGo2Header(h) == Go2Header(Word(HeaderSize + h.length), h)

ValidHeader(b) == Len(b) >= HeaderSize /\ At(b, 4) = headerMode

DecodeHeader(b) == [length |-> U16(b, 0), code |-> At(b, 7), seq |-> At(b, 10)]

\* A total below the header's own size counts as no payload; otherwise the rest
\* is cut to 16 bits.
DecodeGo2Header(b) ==
  LET total == U32(b, 0)
  IN [length |-> IF total.hi = 0 /\ total.lo < HeaderSize THEN 0
                 ELSE (total.lo - HeaderSize) % 65536,
      code |-> U16(b, 7),
      seq |-> At(b, 10)]

\* A header for a payload: the length field is 16 bits wide.
HeaderFor(code, seq, payload) == [length |-> Len(payload) % 65536, code |-> code, seq |-> seq]

EncodeMessage(code, seq, payload) == EncodeHeader(HeaderFor(code, seq, payload)) \o payload
EncodeGo2Message(code, seq, payload) == EncodeGo2Header(HeaderFor(code, seq, payload)) \o payload

\* DecodeMessage, DecodeGo2Message: the payload declared must have come.
ValidMessage(b, header) == ValidHeader(b) /\ Len(b) >= HeaderSize + header.length
MessagePayload(b, header) == SubSeq(b, HeaderSize + 1, HeaderSize + header.length)

------------------------------------------------------------------------------
(* CRC-16/Modbus.  A register is the set of its bits that are 1, so that an  *)
(* exclusive or is a symmetric difference.                                   *)

PowerOf2 == <<1, 2, 4, 8, 16, 32, 64, 128>>
Bit(n, i) == (n \div PowerOf2[i + 1]) % 2 = 1
Bits(n, width) == {i \in 0 .. width - 1 : Bit(n, i)}

Weight(bits, i, w) == IF i \in bits THEN w ELSE 0
FourWeights(bits, i, w) ==
  Weight(bits, i, w) + Weight(bits, i + 1, 2 * w) + Weight(bits, i + 2, 4 * w)
    + Weight(bits, i + 3, 8 * w)
NumberOf(bits) ==
  FourWeights(bits, 0, 1) + FourWeights(bits, 4, 16) + FourWeights(bits, 8, 256)
    + FourWeights(bits, 12, 4096)

Polynomial == {0, 13, 15}       \* 0xA001

ShiftBit(crc) ==
  LET shifted == {i - 1 : i \in crc \ {0}}
  IN IF 0 \in crc THEN SymDiff(shifted, Polynomial) ELSE shifted

\* One byte: into the low bits, then eight shifts.
FourShifts(crc) == ShiftBit(ShiftBit(ShiftBit(ShiftBit(crc))))
EightShifts == [crc \in SUBSET (0 .. 15) |-> FourShifts(FourShifts(crc))]
ShiftByte(crc, byte) == EightShifts[SymDiff(crc, Bits(byte, 8))]

\* The register after each byte of b.
Registers(b) ==
  LET crc[i \in 0 .. Len(b)] == IF i = 0 THEN 0 .. 15 ELSE ShiftByte(crc[i - 1], b[i]) IN crc

CRC16Modbus(b) == NumberOf(Registers(b)[Len(b)])

\* What a cyclic redundancy check is by definition.  The message is a polynomial
\* over GF(2), a set of exponents, with the lowest bit of its first byte its highest
\* coefficient, its first 16 coefficients inverted (init 0xFFFF) and 16 zeros
\* appended; the check is what remains of it after long division by
\* x^16 + x^15 + x^2 + 1, read backwards.
Top(b) == 8 * Len(b) + 15
Coefficients(b) == {e \in 16 .. Top(b) : Bit(b[(Top(b) - e) \div 8 + 1], (Top(b) - e) % 8)}

\* The highest power of p, if it is there, divided away.
Clear(p, high) ==
  IF high \in p THEN SymDiff(p, {high, high - 1, high - 14, high - 16}) ELSE p

\* Powers high to high - 7, one after another.
ClearFour(p, high) == Clear(Clear(Clear(Clear(p, high), high - 1), high - 2), high - 3)
ClearEight(high) == [p \in SUBSET Nat |-> ClearFour(ClearFour(p, high), high - 4)]

\* What remains with the powers of the first bytes divided away.
Division(b) ==
  LET rest[i \in 0 .. Len(b)] ==
        IF i = 0 THEN SymDiff(Coefficients(b), Top(b) - 15 .. Top(b))
        ELSE ClearEight(Top(b) - 8 * (i - 1))[rest[i - 1]]
  IN rest

CrcRemainder(b) == NumberOf({15 - e : e \in Division(b)[Len(b)]})

------------------------------------------------------------------------------
(* The Go2BlePacket envelope.                                                *)

Go2BLEHeaderSize == 5
Go2BLEOverhead == 7
Go2BLEMaxInnerSize == 495
Go2BLEMarker == 255
Go2BLETypeMessage == 7
Go2BLETypeResponse == 6
Go2BLESubtypeMessage == 64
Go2BLESubtypeSync == 65

EncodeGo2BlePacket(type, subtype, data) ==
  LET body == <<Go2BLEMarker, type, subtype, Low(Len(data)), High(Len(data))>> \o data
  IN body \o LE16(CRC16Modbus(body))

\* Where the envelope's check is, and how long the packet must be for it.
CrcOffset(b) == Go2BLEHeaderSize + U16(b, 3)

\* An envelope whose check nobody compares.
UncheckedEnvelope(b) ==
  Len(b) >= Go2BLEOverhead /\ At(b, 0) = Go2BLEMarker /\ Len(b) >= CrcOffset(b) + 2

ValidEnvelope(b) ==
  /\ Len(b) >= Go2BLEOverhead
  /\ At(b, 0) = Go2BLEMarker
  /\ Len(b) >= CrcOffset(b) + 2
  /\ U16(b, CrcOffset(b)) = CRC16Modbus(SubSeq(b, 1, CrcOffset(b)))

Subtype(b) == At(b, 2)
InnerData(b) == SubSeq(b, Go2BLEHeaderSize + 1, CrcOffset(b))

------------------------------------------------------------------------------
(* BLE writes.                                                               *)

BLEMaxPacketSize == 20

ChunkForBLE(msg, maxSize) ==
  LET size == IF maxSize <= 0 THEN BLEMaxPacketSize ELSE maxSize
      count == (Len(msg) + size - 1) \div size
      end(i) == IF i * size > Len(msg) THEN Len(msg) ELSE i * size
  IN [i \in 1 .. count |-> SubSeq(msg, (i - 1) * size + 1, end(i))]

------------------------------------------------------------------------------
(* Payloads.                                                                 *)

\* A base-128 number from position i on: its value, and the position after it.
Varint(pb, i) ==
  LET ends == {j \in i .. Len(pb) : pb[j] < 128}
      last == IF ends = {} THEN Len(pb) ELSE Min(ends)
      value[j \in i .. last + 1] ==
        IF j > last THEN 0 ELSE (pb[j] % 128) + 128 * value[j + 1]
  IN [value |-> value[i], next |-> last + 1]

FieldNum(tag) == tag \div 8
WireType(tag) == tag % 8

\* The value of the last field of a number, or its default.
FieldOf(fields, num, default) ==
  LET found == {k \in DOMAIN fields : fields[k].num = num}
  IN IF found = {} THEN default ELSE fields[Max(found)].value

\* The number fields that the parsers of this package see, one after another until
\* one at a position they do not read.  A field of bytes is skipped by its length.
NumberFields(pb, Reads(_)) ==
  LET from[i \in Nat] ==
        IF ~ Reads(i) THEN <<>>
        ELSE IF WireType(pb[i]) = 2 THEN from[i + 2 + pb[i + 1]]
        ELSE LET v == Varint(pb, i + 1)
             IN <<[num |-> FieldNum(pb[i]), value |-> v.value]>> \o from[v.next]
  IN from[1]

\* parseGo3BatteryProtobuf: field 1 is the level, field 2 whether it charges; any
\* field that is not a varint ends the parse, and so does a tag at the end.
ParseGo3Battery(pb) ==
  LET fields == NumberFields(pb, LAMBDA i : i < Len(pb) /\ WireType(pb[i]) = 0)
  IN [level |-> FieldOf(fields, 1, 0) % 256, charging |-> FieldOf(fields, 2, 0) # 0, voltage |-> 0]

\* GetBatteryInfo on Header16: a byte and, if it came, a uint16.
ParseBattery16(payload) ==
  [level |-> IF Len(payload) >= 1 THEN At(payload, 0) ELSE 0,
   charging |-> FALSE,
   voltage |-> IF Len(payload) >= 3 THEN U16(payload, 1) ELSE 0]

\* parseGo3StorageNotification: a length-delimited field is skipped, any kind but
\* that and a varint ends the parse.
ParseGo3Storage(pb) ==
  LET reads(i) == /\ i <= Len(pb)
                  /\ \/ WireType(pb[i]) = 0
                     \/ WireType(pb[i]) = 2 /\ i < Len(pb)
      fields == NumberFields(pb, reads)
  IN [total |-> Word(FieldOf(fields, 6, 0)), free |-> Word(FieldOf(fields, 4, 0)),
      files |-> Word(FieldOf(fields, 5, 0)), formatted |-> FALSE]

\* getStorageInfoHeader16: three uint32 and a flag, each if it came whole.
ParseStorage16(payload) ==
  LET field(k) == IF Len(payload) >= 4 * k THEN U32(payload, 4 * k - 4) ELSE Word(0)
  IN [total |-> field(1), free |-> field(2), files |-> field(3),
      formatted |-> Len(payload) >= 13 /\ At(payload, 12) # 0]

\* GetDeviceInfo: two strings, each behind its length.  A first one that is longer
\* than what came is not taken, and the second is looked for right behind its length.
ParseInfo(payload) ==
  LET size(i) == At(payload, i)
      there(i) == i < Len(payload) /\ i + 1 + size(i) <= Len(payload)
      text(i) == IF there(i) THEN SubSeq(payload, i + 2, i + 1 + size(i)) ELSE <<>>
      second == IF there(0) THEN 1 + size(0) ELSE 1
  IN [firmware |-> text(0), serial |-> text(second)]

\* The error text of a refusal: what follows the first byte that may be the tag of
\* field 2 and has a length that fits, wherever in the message it is.
extractProtoString(pb) ==
  LET tags == {i \in 1 .. Len(pb) - 1 : pb[i] = 18 /\ i + 1 + pb[i + 1] <= Len(pb)}
  IN IF tags = {} THEN pb ELSE SubSeq(pb, Min(tags) + 2, Min(tags) + 1 + pb[Min(tags) + 1])

------------------------------------------------------------------------------
(* proto3 and IEEE 754, as the library encodes them.                         *)

PutVarint(n) == IF n < 128 THEN <<n>> ELSE <<128 + (n % 128), n \div 128>>

\* A number or a string that is empty is left out; a message is not.
Field(num, n) == IF n = 0 THEN <<>> ELSE <<8 * num>> \o PutVarint(n)
Message(num, b) == <<8 * num + 2>> \o PutVarint(Len(b)) \o b
Text(num, b) == IF b = <<>> THEN <<>> ELSE Message(num, b)

\* The fields of a message: [num, value], a string's value its bytes.
Fields(pb) ==
  LET from[i \in Nat] ==
        IF i > Len(pb) THEN <<>>
        ELSE LET v == Varint(pb, i + 1)
                 after == IF WireType(pb[i]) = 2 THEN v.next + v.value ELSE v.next
                 value == IF WireType(pb[i]) = 2 THEN SubSeq(pb, v.next, after - 1) ELSE v.value
             IN <<[num |-> FieldNum(pb[i]), value |-> value]>> \o from[after]
  IN from[1]

VarintField(pb, num) == FieldOf(Fields(pb), num, 0)
BytesField(pb, num) == FieldOf(Fields(pb), num, <<>>)

\* A whole number below 2^16 as a little-endian double.
Float64(n) ==
  LET size == IF n < 0 THEN -n ELSE n
      exponent == Max({k \in 0 .. 15 : 2^k <= size})
      fraction == (size - 2^exponent) * 2^(16 - exponent)
      sign == IF n < 0 THEN 32768 ELSE 0
  IN IF n = 0 THEN Zeros(8)
     ELSE Zeros(4) \o LE16((fraction % 4096) * 16)
            \o LE16(sign + (1023 + exponent) * 16 + fraction \div 4096)

NumberOf64(b) ==
  LET high == U16(b, 6)
      exponent == (high % 32768) \div 16 - 1023
      fraction == (high % 16) * 4096 + U16(b, 4) \div 16
      size == 2^exponent + fraction \div 2^(16 - exponent)
  IN IF b = Zeros(8) THEN 0 ELSE IF high >= 32768 THEN -size ELSE size

------------------------------------------------------------------------------
(* The FF frame, which the probes send.                                      *)

FFFrameMinSize == 5
Padding(n) == [i \in 1 .. n |-> IF i % 2 = 1 THEN 171 ELSE 186]

\* A size too small for the frame is the frame's own.
EncodeFFFrame(type, command, params, bufSize) ==
  LET head == <<Go2BLEMarker, type, command>> \o params
      pad == IF bufSize < Len(head) + 2 THEN 0 ELSE bufSize - 2 - Len(head)
      data == head \o Padding(pad)
  IN data \o LE16(CRC16Modbus(data))

ValidFFFrame(b) ==
  /\ Len(b) >= FFFrameMinSize
  /\ At(b, 0) = Go2BLEMarker
  /\ U16(b, Len(b) - 2) = CRC16Modbus(SubSeq(b, 1, Len(b) - 2))

\* Pairs go while the end is one; then one AB goes if the end is one.
stripABBAPadding(b) ==
  LET end[n \in 0 .. Len(b)] ==
        IF n >= 2 /\ b[n - 1] = 171 /\ b[n] = 186 THEN end[n - 2] ELSE n
      rest == SubSeq(b, 1, end[Len(b)])
  IN IF rest # <<>> /\ Last(rest) = 171 THEN Front(rest) ELSE rest

FFParams(b) == stripABBAPadding(SubSeq(b, 4, Len(b) - 2))
=============================================================================
