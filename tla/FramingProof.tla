---------------------------- MODULE FramingProof ----------------------------
(* Machine-checked proofs about Framing.                                     *)
EXTENDS Framing, TLAPS

\* The fields of a packet are positions.
LEMMA Fields ==
  ASSUME NEW s \in Seq(Stretch), NEW i \in 1 .. Len(s)
  PROVE  s[i].from \in Nat /\ s[i].to \in Nat
<1>1. s[i] \in Stretch
  OBVIOUS
<1>2. QED
  BY <1>1 DEF Stretch

LEMMA EndOfNat ==
  ASSUME NEW s \in Seq(Stretch), NEW n \in 0 .. Len(s)
  PROVE  EndOf(s, n) \in Nat
<1>1. CASE n = 0
  BY <1>1 DEF EndOf
<1>2. CASE n # 0
  <2>1. n \in 1 .. Len(s)
    BY <1>2
  <2>2. QED
    BY <1>2, <2>1, Fields DEF EndOf
<1>3. QED
  BY <1>1, <1>2

\* No packet ends after the last one.
LEMMA LastEndsLast ==
  ASSUME TypeOK, Laid, NEW i \in 1 .. Len(sent)
  PROVE  sent[i].to <= EndOf(sent, Len(sent))
<1> DEFINE n == Len(sent)
<1>1. /\ n \in Nat /\ n # 0 /\ n \in 1 .. n
      /\ sent[i].to \in Nat
      /\ sent[n].from \in Nat /\ sent[n].to \in Nat
      /\ sent[n].from <= sent[n].to
      /\ EndOf(sent, n) = sent[n].to
  BY Fields DEF TypeOK, Laid, EndOf
<1>2. CASE i = n
  BY <1>1, <1>2
<1>3. CASE i < n
  <2>1. sent[i].to < sent[n].from
    BY <1>1, <1>3 DEF Laid
  <2>2. QED
    BY <1>1, <2>1
<1>4. QED
  BY <1>1, <1>2, <1>3

LEMMA InitIInv == Init => IInv
<1> SUFFICES ASSUME Init PROVE IInv
  OBVIOUS
<1> USE FramingAssumption DEF Init
<1>1. sent \in Seq(Stretch) /\ handed \in Seq(Stretch) /\ Len(sent) = 0 /\ Len(handed) = 0
  OBVIOUS
<1>2. TypeOK
  <2>1. garbage \in BOOLEAN
    OBVIOUS
  <2>2. /\ at \in [Readers -> {"idle", "lock", "prefix", "body"}]
        /\ pktLen \in [Readers -> {0} \cup Prefix .. MaxSize]
        /\ readMu \in Readers \cup {Nobody}
    OBVIOUS
  <2>3. QED
    BY <1>1, <2>1, <2>2 DEF TypeOK
<1>3. Laid
  BY <1>1 DEF Laid, EndOf
<1>4. InOrder /\ OneReader
  BY <1>1 DEF InOrder, OneReader, EndOf
<1>5. BufferBounded
  BY DEF BufferBounded, Buffered
<1>6. QED
  BY <1>2, <1>3, <1>4, <1>5 DEF IInv

\* The camera only adds to the end of the stream.
LEMMA SendStep ==
  ASSUME IInv, NEW size \in Sizes, CameraSends(size)
  PROVE  IInv'
<1> DEFINE p == [from |-> written + Prefix, to |-> written + size]
           n == Len(sent)
<1> USE FramingAssumption
<1>1. /\ TypeOK /\ Laid /\ InOrder /\ OneReader /\ BufferBounded
      /\ ~ garbage /\ n < MaxPackets
      /\ sent' = Append(sent, p) /\ written' = written + size
      /\ UNCHANGED <<garbage, bufVars, readerVars>>
  BY DEF IInv, CameraSends
<1>2. /\ size \in Nat /\ Prefix <= size /\ size <= MaxSize
      /\ written \in Nat /\ n \in Nat /\ p \in Stretch
  BY <1>1 DEF TypeOK, Stretch
<1>3. /\ sent' \in Seq(Stretch) /\ Len(sent') = n + 1
      /\ \A i \in 1 .. n : sent'[i] = sent[i]
      /\ sent'[n + 1] = p
  BY <1>1, <1>2 DEF TypeOK
<1>4. \A i \in 0 .. n : EndOf(sent, i)' = EndOf(sent, i)
  BY <1>2, <1>3 DEF EndOf
<1>5. TypeOK'
  BY <1>1, <1>2, <1>3 DEF TypeOK, bufVars, readerVars
<1>6. Laid'
  <2>1. EndOf(sent, n) = written
    BY <1>1 DEF Laid
  <2>2. ASSUME NEW i \in 1 .. n + 1
        PROVE  /\ sent'[i].from = EndOf(sent, i - 1)' + Prefix
               /\ sent'[i].from <= sent'[i].to
               /\ sent'[i].to <= EndOf(sent, i - 1)' + MaxSize
    <3>1. CASE i \in 1 .. n
      <4>1. sent'[i] = sent[i] /\ EndOf(sent, i - 1)' = EndOf(sent, i - 1)
        BY <3>1, <1>2, <1>3, <1>4
      <4>2. QED
        BY <4>1, <3>1, <1>1 DEF Laid
    <3>2. CASE i = n + 1
      <4>1. i - 1 = n
        BY <3>2, <1>2
      <4>2. EndOf(sent, i - 1)' = written
        BY <4>1, <1>2, <1>4, <2>1
      <4>3. QED
        BY <4>2, <3>2, <1>2, <1>3
    <3>3. QED
      BY <3>1, <3>2, <1>2
  <2>3. \A i \in 1 .. n : sent[i].to <= written
    BY <2>1, <1>1, LastEndsLast
  <2>4. ASSUME NEW i \in 1 .. n + 1, NEW j \in 1 .. n + 1, i < j
        PROVE  sent'[i].to < sent'[j].from
    <3>1. i \in 1 .. n /\ sent'[i] = sent[i] /\ sent[i] \in Stretch
      BY <2>4, <1>1, <1>2, <1>3 DEF TypeOK
    <3>2. CASE j \in 1 .. n
      BY <2>4, <3>1, <3>2, <1>1, <1>3 DEF Laid
    <3>3. CASE j = n + 1
      <4>1. sent[i].to <= written /\ sent[i].to \in Nat
        BY <3>1, <2>3, <1>1, Fields DEF TypeOK
      <4>2. sent'[j].from = written + Prefix
        BY <3>3, <1>3
      <4>3. QED
        BY <3>1, <4>1, <4>2, <1>2
    <3>4. QED
      BY <3>2, <3>3, <1>2
  <2>5. EndOf(sent, Len(sent))' = written'
    <3>1. EndOf(sent', n + 1) = sent'[n + 1].to
      BY <1>2 DEF EndOf
    <3>2. QED
      BY <3>1, <1>1, <1>2, <1>3 DEF EndOf
  <2>6. EndOf(sent, Len(sent))' <= written'
    BY <2>5, <1>1, <1>2
  <2>7. QED
    BY <2>2, <2>4, <2>5, <2>6, <1>3 DEF Laid
<1>7. InOrder'
  <2>1. /\ Len(handed) \in 0 .. n /\ UNCHANGED <<handed, consumed, got>>
    BY <1>1 DEF InOrder, TypeOK, bufVars
  <2>2. EndOf(sent, Len(handed))' = EndOf(sent, Len(handed))
    BY <2>1, <1>3 DEF EndOf
  <2>3. got <= written'
    BY <1>1, <1>2 DEF InOrder, TypeOK
  <2>4. QED
    BY <2>1, <2>2, <2>3, <1>1, <1>2, <1>3 DEF InOrder
<1>8. OneReader'
  <2>1. Len(handed) < n => sent'[Len(handed) + 1] = sent[Len(handed) + 1]
    BY <1>1, <1>2, <1>3 DEF TypeOK
  <2>2. QED
    BY <2>1, <1>1, <1>2, <1>3 DEF OneReader, bufVars, readerVars, TypeOK
<1>9. BufferBounded'
  BY <1>1 DEF BufferBounded, Buffered, bufVars
<1>10. QED
  BY <1>5, <1>6, <1>7, <1>8, <1>9 DEF IInv

LEMMA BabbleStep == IInv /\ CameraBabbles => IInv'
BY FramingAssumption, EndOfNat
   DEF IInv, CameraBabbles, TypeOK, Laid, InOrder, OneReader, BufferBounded, Buffered, EndOf,
       bufVars, readerVars

\* What a step of a reader needs to know of the stream: where the next packet
\* begins, there is no other, and behind the last one there is only garbage.
LEMMA NextLength ==
  ASSUME IInv, Buffered >= Prefix, NEW len \in LengthsAt(consumed),
         Prefix <= len, len <= MaxSize
  PROVE  /\ Len(handed) < Len(sent)
         /\ len = sent[Len(handed) + 1].to - consumed
<1> DEFINE n == Len(sent)
           k == Len(handed)
           here == {i \in 1 .. n : sent[i].from = consumed + Prefix}
<1> USE FramingAssumption
<1>1. /\ TypeOK /\ Laid /\ InOrder
      /\ n \in Nat /\ k \in Nat /\ k <= n
      /\ consumed \in Nat /\ got \in Nat /\ written \in Nat
      /\ consumed = EndOf(sent, k)
      /\ consumed + Prefix <= written
  BY DEF IInv, TypeOK, InOrder, Buffered
<1>2. CASE k < n
  <2>1. /\ k + 1 \in 1 .. n /\ (k + 1) - 1 = k
        /\ sent[k + 1].from = consumed + Prefix
    <3>1. k + 1 \in 1 .. n /\ (k + 1) - 1 = k
      BY <1>1, <1>2
    <3>2. QED
      BY <3>1, <1>1 DEF Laid
  <2>2. ASSUME NEW i \in here PROVE i = k + 1
    <3>1. /\ sent[i].from \in Nat /\ sent[i].to \in Nat /\ sent[i].from <= sent[i].to
          /\ sent[k + 1].from \in Nat /\ sent[k + 1].to \in Nat
          /\ sent[k + 1].from <= sent[k + 1].to
      BY <1>1, <2>1, Fields DEF TypeOK, Laid
    <3>2. CASE i < k + 1
      <4>1. sent[i].to < sent[k + 1].from
        BY <1>1, <2>1, <3>2 DEF Laid
      <4>2. QED
        BY <4>1, <3>1, <2>1
    <3>3. CASE k + 1 < i
      <4>1. sent[k + 1].to < sent[i].from
        BY <1>1, <2>1, <3>3 DEF Laid
      <4>2. QED
        BY <4>1, <3>1, <2>1
    <3>4. QED
      BY <3>2, <3>3, <1>1
  <2>3. here = {k + 1}
    BY <2>1, <2>2
  <2>4. LengthsAt(consumed) = {sent[i].to - consumed : i \in here}
    BY <2>3 DEF LengthsAt
  <2>5. QED
    BY <2>3, <2>4, <1>2
<1>3. CASE k = n
  <2>1. ASSUME NEW i \in here PROVE FALSE
    <3>1. /\ sent[i].from \in Nat /\ sent[i].to \in Nat /\ sent[i].from <= sent[i].to
          /\ sent[i].to <= EndOf(sent, n)
      BY <1>1, Fields, LastEndsLast DEF TypeOK, Laid
    <3>2. QED
      BY <3>1, <1>1, <1>3
  <2>2. garbage
    BY <1>1, <1>3 DEF Laid
  <2>3. LengthsAt(consumed) = {0, MaxSize + 1}
    BY <2>1, <2>2, <1>1, <1>3 DEF LengthsAt
  <2>4. QED
    BY <2>3
<1>4. QED
  BY <1>1, <1>2, <1>3

LEMMA LengthsAreNumbers ==
  ASSUME TypeOK, NEW pos \in Nat, NEW len \in LengthsAt(pos)
  PROVE  len \in Int
<1> DEFINE here == {i \in 1 .. Len(sent) : sent[i].from = pos + Prefix}
<1>1. \A i \in here : sent[i].to - pos \in Int
  BY Fields DEF TypeOK
<1>2. Sizes \cup {0, MaxSize + 1} \subseteq Int
  BY FramingAssumption
<1>3. QED
  BY <1>1, <1>2 DEF LengthsAt

\* A reader that returns lets go of the mutex it held.
LEMMA ReturnKeepsOneReader ==
  ASSUME IInv, NEW r \in Readers, readMu = r, Return(r), UNCHANGED sent
  PROVE  /\ at' \in [Readers -> {"idle", "lock", "prefix", "body"}]
         /\ readMu' \in Readers \cup {Nobody} /\ pktLen' = pktLen
         /\ \A q \in Readers : at'[q] \notin {"prefix", "body"}
         /\ OneReader'
<1>1. /\ \A q \in Readers : at[q] \in {"prefix", "body"} <=> readMu = q
      /\ at \in [Readers -> {"idle", "lock", "prefix", "body"}]
  BY DEF IInv, OneReader, TypeOK
<1>2. at' = [at EXCEPT ![r] = "idle"] /\ readMu' = Nobody /\ pktLen' = pktLen
  BY DEF Return
<1>3. \A q \in Readers : at'[q] \notin {"prefix", "body"}
  BY <1>1, <1>2
<1>4. QED
  BY <1>1, <1>2, <1>3, FramingAssumption DEF OneReader

LEMMA ReaderStep ==
  ASSUME IInv, NEW r \in Readers, Reader(r)
  PROVE  IInv'
<1> USE FramingAssumption
<1>0. TypeOK /\ Laid /\ InOrder /\ OneReader /\ BufferBounded
  BY DEF IInv
<1>1. CASE Call(r)
  BY <1>0, <1>1
     DEF IInv, Call, camVars, bufVars, TypeOK, Laid, InOrder, OneReader, BufferBounded, Buffered
<1>2. CASE Lock(r)
  BY <1>0, <1>2
     DEF IInv, Lock, camVars, bufVars, TypeOK, Laid, InOrder, OneReader, BufferBounded, Buffered
<1>3. CASE Decode(r)
  <2>1. PICK len \in LengthsAt(consumed) :
          IF len < Prefix \/ len > MaxSize
          THEN Return(r)
          ELSE /\ pktLen' = [pktLen EXCEPT ![r] = len]
               /\ at' = [at EXCEPT ![r] = "body"] /\ UNCHANGED readMu
    BY <1>3 DEF Decode
  <2>2. /\ readMu = r /\ at[r] = "prefix" /\ Buffered >= Prefix
        /\ UNCHANGED <<sent, written, garbage, got, consumed, handed>>
    BY <1>0, <1>3 DEF Decode, OneReader, camVars, bufVars
  <2>3. Laid' /\ InOrder' /\ BufferBounded'
    BY <1>0, <2>2 DEF Laid, InOrder, BufferBounded, Buffered
  <2>4. CASE Return(r)
    BY <1>0, <2>2, <2>3, <2>4, ReturnKeepsOneReader DEF IInv, TypeOK
  <2>5. CASE ~ Return(r)
    <3>1. /\ len \in Int /\ Prefix <= len /\ len <= MaxSize
          /\ pktLen' = [pktLen EXCEPT ![r] = len]
          /\ at' = [at EXCEPT ![r] = "body"] /\ readMu' = readMu
      <4>1. len \in Int
        BY <1>0, LengthsAreNumbers DEF TypeOK
      <4>2. QED
        BY <4>1, <2>1, <2>5
    <3>2. Len(handed) < Len(sent) /\ len = sent[Len(handed) + 1].to - consumed
      BY <2>2, <3>1, NextLength
    <3>3. TypeOK'
      BY <1>0, <2>2, <3>1 DEF TypeOK
    <3>4. OneReader'
      BY <1>0, <2>2, <3>1, <3>2 DEF OneReader, TypeOK
    <3>5. QED
      BY <2>3, <3>3, <3>4 DEF IInv
  <2>6. QED
    BY <2>4, <2>5
<1>4. CASE Hand(r)
  <2> DEFINE k == Len(handed)
             p == [from |-> consumed + Prefix, to |-> consumed + pktLen[r]]
  <2>1. /\ readMu = r /\ at[r] = "body" /\ Buffered >= pktLen[r] /\ Return(r)
        /\ UNCHANGED <<sent, written, garbage, got>>
        /\ handed' = Append(handed, p) /\ consumed' = consumed + pktLen[r]
    BY <1>0, <1>4 DEF Hand, OneReader, camVars
  <2>2. /\ k \in Nat /\ Len(sent) \in Nat /\ k < Len(sent) /\ k + 1 \in 1 .. Len(sent)
        /\ (k + 1) - 1 = k
        /\ consumed \in Nat /\ got \in Nat /\ consumed = EndOf(sent, k)
        /\ pktLen[r] = sent[k + 1].to - consumed
    BY <1>0, <2>1 DEF OneReader, TypeOK, InOrder
  <2>3. /\ sent[k + 1] \in Stretch
        /\ sent[k + 1].from \in Nat /\ sent[k + 1].to \in Nat
        /\ sent[k + 1].from = consumed + Prefix
        /\ sent[k + 1].from <= sent[k + 1].to
    BY <1>0, <2>2, Fields DEF TypeOK, Laid
  <2>4. p = sent[k + 1] /\ consumed' = sent[k + 1].to
    BY <2>1, <2>2, <2>3 DEF Stretch
  <2>5. /\ handed' \in Seq(Stretch) /\ Len(handed') = k + 1
        /\ \A i \in 1 .. k : handed'[i] = handed[i]
        /\ handed'[k + 1] = sent[k + 1]
    BY <1>0, <2>1, <2>3, <2>4 DEF TypeOK
  <2>6. /\ at' \in [Readers -> {"idle", "lock", "prefix", "body"}]
        /\ readMu' \in Readers \cup {Nobody} /\ pktLen' = pktLen
        /\ OneReader'
    BY <2>1, ReturnKeepsOneReader
  <2>7. TypeOK'
    BY <1>0, <2>1, <2>3, <2>4, <2>5, <2>6 DEF TypeOK
  <2>8. Laid'
    BY <1>0, <2>1 DEF Laid, EndOf
  <2>9. InOrder'
    <3>1. EndOf(sent, k + 1) = sent[k + 1].to
      BY <2>2 DEF EndOf
    <3>2. consumed' <= got
      BY <2>1, <2>2, <2>3, <2>4 DEF Buffered
    <3>3. QED
      BY <1>0, <2>1, <2>2, <2>4, <2>5, <3>1, <3>2 DEF InOrder, EndOf
  <2>10. BufferBounded'
    BY SMTT(60), <1>0, <2>1, <2>2, <2>3, <2>4 DEF BufferBounded, Buffered
  <2>11. QED
    BY <2>6, <2>7, <2>8, <2>9, <2>10 DEF IInv
<1>5. ASSUME NEW n \in 1 .. ReadBuf, Read(r, n)
      PROVE  IInv'
  <2>1. /\ Filling(r) /\ n <= ReadBuf
        /\ got + n <= written /\ got' = got + n
        /\ UNCHANGED <<sent, written, garbage, consumed, handed, at, readMu, pktLen>>
    BY <1>5 DEF Read, Receive, camVars, readerVars
  <2>2. TypeOK' /\ Laid' /\ InOrder'
    BY <1>0, <2>1 DEF TypeOK, Laid, InOrder
  <2>3. OneReader'
    BY <1>0, <2>1 DEF OneReader
  <2>4. BufferBounded'
    BY <1>0, <2>1 DEF Filling, Wanted, BufferBounded, Buffered, TypeOK
  <2>5. QED
    BY <2>2, <2>3, <2>4 DEF IInv
<1>6. ASSUME NEW n \in 0 .. ReadBuf, ReadFails(r, n)
      PROVE  IInv'
  <2>1. /\ Filling(r) /\ Return(r)
        /\ got + n <= written /\ got' = got + n
        /\ UNCHANGED <<sent, written, garbage, consumed, handed>>
    BY <1>6 DEF ReadFails, Receive, camVars
  <2>2. readMu = r
    BY <1>0, <2>1 DEF Filling, OneReader
  <2>3. /\ at' \in [Readers -> {"idle", "lock", "prefix", "body"}]
        /\ readMu' \in Readers \cup {Nobody} /\ pktLen' = pktLen
        /\ OneReader'
    BY <2>1, <2>2, ReturnKeepsOneReader
  <2>4. TypeOK' /\ Laid' /\ InOrder'
    BY <1>0, <2>1, <2>3 DEF TypeOK, Laid, InOrder
  <2>5. BufferBounded'
    BY <1>0, <2>1 DEF Filling, Wanted, BufferBounded, Buffered, TypeOK
  <2>6. QED
    BY <2>3, <2>4, <2>5 DEF IInv
<1>7. QED
  BY <1>1, <1>2, <1>3, <1>4, <1>5, <1>6 DEF Reader

------------------------------------------------------------------------------
(* Theorems.                                                                 *)

\* The types, the layout of the stream, the order of what was handed out and the
\* exclusion of readers hold throughout, however the stream is cut up and wherever
\* Reads fail (conn.go:126-168).
THEOREM Inductive == Spec => []IInv
<1>1. ASSUME IInv, [Next]_vars
      PROVE  IInv'
  <2>1. CASE Camera
    BY <1>1, <2>1, SendStep, BabbleStep DEF Camera
  <2>2. ASSUME NEW r \in Readers, Reader(r)
        PROVE  IInv'
    BY <1>1, <2>2, ReaderStep
  <2>3. CASE UNCHANGED vars
    BY <1>1, <2>3
       DEF IInv, TypeOK, Laid, InOrder, OneReader, BufferBounded, Buffered, vars, camVars,
         bufVars,
           readerVars
  <2>4. QED
    BY <1>1, <2>1, <2>2, <2>3 DEF Next
<1>2. QED
  BY <1>1, InitIInv, PTL DEF Spec

\* Every variable keeps its type; a length that was accepted is one a packet may
\* have (conn.go:135-141).
THEOREM TypeCorrect == Spec => []TypeOK
<1>1. IInv => TypeOK
  BY DEF IInv
<1>2. QED
  BY <1>1, Inductive, PTL

\* Conn.buf never grows beyond one packet and one Read, whatever lengths arrive
\* (conn.go:155-168).
THEOREM BufferStaysBounded == Spec => []BufferBounded
<1>1. IInv => BufferBounded
  BY DEF IInv
<1>2. QED
  BY <1>1, Inductive, PTL

\* No failed Read, at a deadline in the middle of a packet either, leaves the buffer
\* out of step with the packets (conn.go:135-152).
THEOREM AlwaysInStep == Spec => []InStep
<1>1. IInv => InStep
  <2> SUFFICES ASSUME IInv, got > consumed
               PROVE  \/ \E i \in 1 .. Len(sent) : sent[i].from = consumed + Prefix
                      \/ garbage /\ consumed = EndOf(sent, Len(sent))
    BY DEF InStep
  <2> DEFINE k == Len(handed)
  <2>1. /\ Laid /\ InOrder /\ k \in Nat /\ Len(sent) \in Nat /\ k <= Len(sent)
        /\ consumed = EndOf(sent, k) /\ consumed \in Nat /\ got \in Nat /\ written \in Nat
        /\ got <= written
    BY DEF IInv, TypeOK, InOrder
  <2>2. CASE k < Len(sent)
    <3>1. k + 1 \in 1 .. Len(sent) /\ (k + 1) - 1 = k
      BY <2>1, <2>2
    <3>2. sent[k + 1].from = consumed + Prefix
      BY <2>1, <3>1 DEF Laid
    <3>3. QED
      BY <3>1, <3>2
  <2>3. CASE k = Len(sent)
    BY <2>1, <2>3 DEF Laid
  <2>4. QED
    BY <2>1, <2>2, <2>3
<1>2. QED
  BY <1>1, Inductive, PTL

\* Readers are given the camera's packets, whole, in order, each once: readPacket
\* implements PacketQueue (conn.go:125-153).
THEOREM FramingImplementsQueue == Spec => ImplementsQueue
<1>1. Init => Queue!Init
  BY DEF Init, Queue!Init
<1>2. ASSUME IInv, [Next]_vars
      PROVE  [Queue!Next]_(Queue!vars)
  <2> USE FramingAssumption
  <2>0. TypeOK /\ InOrder /\ OneReader
    BY <1>2 DEF IInv
  <2>1. ASSUME NEW size \in Sizes, CameraSends(size)
        PROVE  Queue!Send
    <3>1. [from |-> written + Prefix, to |-> written + size] \in Stretch
      BY <2>0 DEF TypeOK, Stretch
    <3>2. QED
      BY <2>0, <2>1, <3>1 DEF CameraSends, Queue!Send, bufVars, TypeOK
  <2>2. CASE CameraBabbles
    BY <2>2 DEF CameraBabbles, bufVars, Queue!vars
  <2>3. ASSUME NEW r \in Readers, Reader(r)
        PROVE  Queue!Hand \/ UNCHANGED <<sent, handed>>
    <3>1. CASE Hand(r)
      <4> DEFINE k == Len(handed)
      <4>1. /\ k < Len(sent) /\ k \in Nat /\ k + 1 \in 1 .. Len(sent) /\ (k + 1) - 1 = k
            /\ pktLen[r] = sent[k + 1].to - consumed /\ consumed \in Nat
        BY <2>0, <3>1 DEF Hand, OneReader, TypeOK
      <4>2. /\ sent[k + 1] \in Stretch
            /\ sent[k + 1].from = consumed + Prefix /\ sent[k + 1].to \in Nat
        <5>1. sent \in Seq(Stretch) /\ Laid /\ consumed = EndOf(sent, k)
          BY <1>2 DEF IInv, TypeOK, InOrder
        <5>2. sent[k + 1].from = EndOf(sent, (k + 1) - 1) + Prefix
          BY <4>1, <5>1 DEF Laid
        <5>3. QED
          BY <4>1, <5>1, <5>2, Fields
      <4>3. [from |-> consumed + Prefix, to |-> consumed + pktLen[r]] = sent[k + 1]
        BY <4>1, <4>2 DEF Stretch
      <4>4. QED
        BY <3>1, <4>1, <4>3 DEF Hand, camVars, Queue!Hand
    <3>2. CASE ~ Hand(r)
      <4>1. CASE Call(r) \/ Lock(r) \/ Decode(r)
        BY <4>1 DEF Call, Lock, Decode, camVars, bufVars
      <4>2. ASSUME NEW n \in Nat, Read(r, n) \/ ReadFails(r, n)
            PROVE  UNCHANGED <<sent, handed>>
        BY <4>2 DEF Read, ReadFails, Receive, camVars
      <4>3. QED
        BY <2>3, <3>2, <4>1, <4>2 DEF Reader
    <3>3. QED
      BY <3>1, <3>2
  <2>4. CASE UNCHANGED vars
    BY <2>4 DEF vars, camVars, bufVars, Queue!vars
  <2>5. QED
    BY <1>2, <2>1, <2>2, <2>3, <2>4 DEF Next, Camera, Queue!Next, Queue!vars
<1>3. QED
  BY <1>1, <1>2, Inductive, PTL DEF Spec, ImplementsQueue, Queue!Spec
=============================================================================
