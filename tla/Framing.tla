------------------------------- MODULE Framing -------------------------------
(***************************************************************************)
(* Packets on the camera's TCP stream: Conn.readPacket and fillBuf         *)
(* (pkg/wifi/conn.go), the receive buffer between them, and the goroutines *)
(* that read.                                                              *)
(*                                                                         *)
(* The stream is abstracted to its positions.  A packet is a length prefix *)
(* and a payload, and the payload is known by the stretch of the stream it *)
(* takes up, from one position up to another; Conn.buf is the stretch from *)
(* consumed to got.  Four bytes taken for a length give the length of the  *)
(* packet that begins there; where none begins, they may give any.         *)
(*                                                                         *)
(* TCP delivers the stream in pieces of any size, and a Read may end in an *)
(* error, with or without bytes, at any point: the read deadline, or the   *)
(* end of the connection.                                                  *)
(***************************************************************************)
EXTENDS Integers, Sequences

CONSTANTS
  Readers,      \* goroutines that call ReadRaw
  Prefix,       \* bytes of a length prefix: 4
  MaxSize,      \* maxPacketSize, prefix included
  ReadBuf,      \* readBufSize: the most one Read returns
  Sizes,        \* the sizes of the camera's packets, prefix included
  MaxPackets,   \* bound: packets the camera sends
  Nobody

ASSUME FramingAssumption ==
  /\ Prefix \in Nat \ {0}
  /\ MaxSize \in Nat /\ Prefix <= MaxSize
  /\ ReadBuf \in Nat \ {0}
  /\ Sizes \subseteq Prefix .. MaxSize
  /\ MaxPackets \in Nat
  /\ Nobody \notin Readers

VARIABLES
  sent,         \* the camera's packets, each as the stretch its payload takes up
  written,      \* how many bytes the camera has written
  garbage,      \* whether the last of them are no valid length
  got,          \* how many bytes were read from the socket
  consumed,     \* how many of them have left Conn.buf
  handed,       \* history: the payloads readPacket has returned
  at,           \* at[r]: where reader r is in readPacket
  readMu,       \* holder of Conn.readMu
  pktLen        \* pktLen[r]: the length r has decoded

camVars == <<sent, written, garbage>>
bufVars == <<got, consumed, handed>>
readerVars == <<at, readMu, pktLen>>
vars == <<camVars, bufVars, readerVars>>

Stretch == [from : Nat, to : Nat]

TypeOK ==
  /\ sent \in Seq(Stretch) /\ Len(sent) <= MaxPackets
  /\ written \in Nat /\ garbage \in BOOLEAN
  /\ got \in Nat /\ consumed \in Nat
  /\ handed \in Seq(Stretch)
  /\ at \in [Readers -> {"idle", "lock", "prefix", "body"}]
  /\ readMu \in Readers \cup {Nobody}
  /\ pktLen \in [Readers -> {0} \cup Prefix .. MaxSize]

Init ==
  /\ sent = <<>> /\ written = 0 /\ garbage = FALSE
  /\ got = 0 /\ consumed = 0 /\ handed = <<>>
  /\ at = [r \in Readers |-> "idle"] /\ readMu = Nobody
  /\ pktLen = [r \in Readers |-> 0]

\* Where the first n packets of a sequence end on the stream.
EndOf(packets, n) == IF n = 0 THEN 0 ELSE packets[n].to

\* len(c.buf).
Buffered == got - consumed

------------------------------------------------------------------------------
(* The camera (external).                                                   *)

CameraSends(size) ==
  /\ ~ garbage /\ Len(sent) < MaxPackets
  /\ sent' = Append(sent, [from |-> written + Prefix, to |-> written + size])
  /\ written' = written + size
  /\ UNCHANGED <<garbage, bufVars, readerVars>>

\* It is not the camera that answers, or it has gone wrong: what follows on the
\* stream, little or much, begins with a length below 4 or above maxPacketSize.
CameraBabbles ==
  /\ ~ garbage /\ garbage' = TRUE
  /\ \E n \in {Prefix, MaxSize + ReadBuf} : written' = written + n
  /\ UNCHANGED <<sent, bufVars, readerVars>>

------------------------------------------------------------------------------
(* readPacket.                                                              *)

\* The lengths the first bytes of the buffer may be taken for.
LengthsAt(pos) ==
  LET here == {i \in 1 .. Len(sent) : sent[i].from = pos + Prefix}
  IN IF here # {} THEN {sent[i].to - pos : i \in here}
     ELSE IF garbage /\ pos = EndOf(sent, Len(sent)) THEN {0, MaxSize + 1}
     ELSE Sizes \cup {0, MaxSize + 1}

\* A reader that does not wait for another.
LockNot(r) ==
  /\ at[r] = "idle"
  /\ at' = [at EXCEPT ![r] = "prefix"]
  /\ UNCHANGED <<camVars, bufVars, readMu, pktLen>>

\* ReadRaw is called, and waits for c.readMu.
Call(r) ==
  /\ at[r] = "idle"
  /\ at' = [at EXCEPT ![r] = "lock"]
  /\ UNCHANGED <<camVars, bufVars, readMu, pktLen>>

Lock(r) ==
  /\ at[r] = "lock" /\ readMu = Nobody
  /\ readMu' = r
  /\ at' = [at EXCEPT ![r] = "prefix"]
  /\ UNCHANGED <<camVars, bufVars, pktLen>>

\* readPacket returns; the deferred unlock.
Return(r) ==
  /\ at' = [at EXCEPT ![r] = "idle"]
  /\ readMu' = Nobody
  /\ UNCHANGED pktLen

\* What fillBuf was asked for.
Wanted(r) == IF at[r] = "prefix" THEN Prefix ELSE pktLen[r]

Filling(r) == at[r] \in {"prefix", "body"} /\ Buffered < Wanted(r)

\* n bytes from the socket are appended to the buffer.
Receive(n) ==
  /\ n <= ReadBuf /\ got + n <= written
  /\ got' = got + n
  /\ UNCHANGED <<consumed, handed>>

\* conn.Read returns n bytes and no error.
Read(r, n) ==
  /\ Filling(r)
  /\ n > 0 /\ Receive(n)
  /\ UNCHANGED <<camVars, readerVars>>

\* A fillBuf that keeps nothing of an attempt that failed.
ReadFailsAndDrops(r, n) ==
  /\ Filling(r)
  /\ n <= ReadBuf /\ got + n <= written
  /\ got' = got + n /\ consumed' = got + n
  /\ Return(r)
  /\ UNCHANGED <<camVars, handed>>

\* conn.Read returns an error, with n bytes or none: what was read stays in the
\* buffer, and readPacket fails.
ReadFails(r, n) ==
  /\ Filling(r)
  /\ Receive(n)
  /\ Return(r)
  /\ UNCHANGED camVars

\* A readPacket without the safety limit.
DecodeUnlimited(r) ==
  /\ at[r] = "prefix" /\ Buffered >= Prefix
  /\ \E n \in LengthsAt(consumed) :
       IF n < Prefix
       THEN Return(r)
       ELSE pktLen' = [pktLen EXCEPT ![r] = n] /\ at' = [at EXCEPT ![r] = "body"] /\ UNCHANGED readMu
  /\ UNCHANGED <<camVars, bufVars>>

\* The length is decoded, and refused when it cannot be one.
Decode(r) ==
  /\ at[r] = "prefix" /\ Buffered >= Prefix
  /\ \E n \in LengthsAt(consumed) :
       IF n < Prefix \/ n > MaxSize
       THEN Return(r)
       ELSE pktLen' = [pktLen EXCEPT ![r] = n] /\ at' = [at EXCEPT ![r] = "body"] /\ UNCHANGED readMu
  /\ UNCHANGED <<camVars, bufVars>>

\* The payload is copied and the packet cut off the buffer.
Hand(r) ==
  /\ at[r] = "body" /\ Buffered >= pktLen[r]
  /\ handed' = Append(handed, [from |-> consumed + Prefix, to |-> consumed + pktLen[r]])
  /\ consumed' = consumed + pktLen[r]
  /\ Return(r)
  /\ UNCHANGED <<camVars, got>>

------------------------------------------------------------------------------
Camera == (\E size \in Sizes : CameraSends(size)) \/ CameraBabbles

Reader(r) ==
  \/ Call(r) \/ Lock(r) \/ Decode(r) \/ Hand(r)
  \/ \E n \in 1 .. ReadBuf : Read(r, n)
  \/ \E n \in 0 .. ReadBuf : ReadFails(r, n)

Next == Camera \/ \E r \in Readers : Reader(r)

Spec == Init /\ [][Next]_vars

------------------------------------------------------------------------------
(* Properties.                                                              *)

\* However the stream is cut up, and wherever a deadline falls, even between a
\* prefix and its payload, readers are given the camera's packets, whole, in order,
\* each once (conn.go:125-153).
Queue == INSTANCE PacketQueue WITH Packets <- Stretch

ImplementsQueue == Queue!Spec

\* The receive buffer does not grow beyond one packet and one Read, whatever length
\* the other side claims (maxPacketSize, conn.go:28).
BufferBounded == Buffered < MaxSize + ReadBuf

\* Between two calls the buffer begins where a packet does: a failed call leaves
\* nothing behind that the next one could take for a length (conn.go:155-168).
InStep ==
  readMu = Nobody /\ got > consumed =>
    \/ \E i \in 1 .. Len(sent) : sent[i].from = consumed + Prefix
    \/ garbage /\ consumed = EndOf(sent, Len(sent))

------------------------------------------------------------------------------
(* The inductive invariant behind them; FramingProof proves it inductive.    *)

\* The camera's packets follow one another on the stream.
Laid ==
  /\ \A i \in 1 .. Len(sent) :
       /\ sent[i].from = EndOf(sent, i - 1) + Prefix
       /\ sent[i].from <= sent[i].to
       /\ sent[i].to <= EndOf(sent, i - 1) + MaxSize
  /\ \A i, j \in 1 .. Len(sent) : i < j => sent[i].to < sent[j].from
  /\ EndOf(sent, Len(sent)) <= written
  /\ ~ garbage => written = EndOf(sent, Len(sent))

\* What was handed out is what was sent, and the buffer begins right after it.
InOrder ==
  /\ Len(handed) <= Len(sent)
  /\ \A i \in 1 .. Len(handed) : handed[i] = sent[i]
  /\ consumed = EndOf(sent, Len(handed))
  /\ consumed <= got /\ got <= written

\* One reader at a time; the one with a length has the next packet's.
OneReader ==
  /\ \A r \in Readers : at[r] \in {"prefix", "body"} <=> readMu = r
  /\ \A r \in Readers : at[r] = "body" =>
       /\ Len(handed) < Len(sent)
       /\ pktLen[r] = sent[Len(handed) + 1].to - consumed

IInv == TypeOK /\ Laid /\ InOrder /\ OneReader /\ BufferBounded
=============================================================================
