----------------------------- MODULE PacketQueue -----------------------------
(***************************************************************************)
(* What the framing of the TCP protocol promises to those who read from a  *)
(* connection: the camera's packets, whole, in the order it sent them,     *)
(* each to one reader.                                                     *)
(***************************************************************************)
EXTENDS Naturals, Sequences

CONSTANT Packets        \* what a packet may be

VARIABLES
  sent,                 \* the packets the camera has sent
  handed                \* the packets readers were given, one after another

vars == <<sent, handed>>

Init == sent = <<>> /\ handed = <<>>

\* One more packet; it is written so that TLC need not enumerate Packets.
Send ==
  /\ sent' \in Seq(Packets)
  /\ Len(sent') = Len(sent) + 1
  /\ \A i \in 1 .. Len(sent) : sent'[i] = sent[i]
  /\ UNCHANGED handed

\* A reader is given the next one.
Hand ==
  /\ Len(handed) < Len(sent)
  /\ handed' = Append(handed, sent[Len(handed) + 1])
  /\ UNCHANGED sent

Next == Send \/ Hand

Spec == Init /\ [][Next]_vars
=============================================================================
