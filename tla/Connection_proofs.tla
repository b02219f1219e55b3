------------------------- MODULE Connection_proofs -------------------------
(***************************************************************************)
(* What Connection promises, for every set of messages, every length they  *)
(* have and every size of the socket's buffer: the reader never loses the  *)
(* boundaries of messages, and the connection implements Channel.          *)
(***************************************************************************)
EXTENDS Connection, TLAPS

\* Where messages end follows from their lengths, and they are in the stream
\* one behind the other.
EndsFollow ==
  /\ Len(ends) = Len(sent)
  /\ \A n \in 1..Len(sent) : ends[n] = Boundary(n - 1) + HeaderSize + Length[sent[n]]
  /\ \A i, n \in 0..Len(sent) : i < n => Boundary(i) < Boundary(n)

\* What was delivered is what was sent first.
IsPrefix ==
  /\ Len(delivered) <= Len(sent)
  /\ \A n \in 1..Len(delivered) : delivered[n] = sent[n]

\* The reader is behind the sender, and the size it read is one.
ReaderFollows ==
  /\ received <= written /\ written <= Total
  /\ pc = "sized" => /\ Len(delivered) < Len(sent)
                     /\ size = Length[sent[Len(delivered) + 1]]
  /\ pc = "sized" => it <= received

Inv == TypeOK /\ EndsFollow /\ IsPrefix /\ ReaderFollows /\ AtBoundary

LEMMA InitInv == Init => Inv
  BY MessagesHaveLengths DEF Init, Inv, TypeOK, EndsFollow, IsPrefix, ReaderFollows, AtBoundary,
     Boundary, Total

LEMMA SendKeepsInv == ASSUME NEW m \in Messages, Inv, SendMessage(m) PROVE Inv'
  <1> USE MessagesHaveLengths
  <1>0. PICK k \in Nat : k = Len(sent)
    BY DEF Inv, TypeOK
  <1>1. k = Len(sent) /\ Len(ends) = k /\ Length[m] \in Nat /\ HeaderSize \in Nat /\ HeaderSize > 0
    BY <1>0 DEF Inv, TypeOK, EndsFollow
  <1>2. /\ sent' = Append(sent, m) /\ ends' = Append(ends, Total + HeaderSize + Length[m])
        /\ UNCHANGED <<written, received, erased, it, pc, size, delivered, senderOpen, readerOpen>>
    BY DEF SendMessage, reader_vars
  <1>3. \A n \in 0..k : Boundary(n) \in Nat
    BY <1>1 DEF Inv, TypeOK, Boundary
  <1>4. Total \in Nat /\ Total = Boundary(k)
    BY <1>3, <1>1 DEF Total
  <1>5. Total + HeaderSize + Length[m] \in Nat
    BY <1>4, <1>1
  <1>6. /\ sent' \in Seq(Messages) /\ Len(sent') = k + 1
        /\ sent'[k + 1] = m /\ \A n \in 1..k : sent'[n] = sent[n]
    BY <1>1, <1>2 DEF Inv, TypeOK
  <1>7. /\ ends' \in Seq(Nat) /\ Len(ends') = k + 1
        /\ ends'[k + 1] = Total + HeaderSize + Length[m] /\ \A n \in 1..k : ends'[n] = ends[n]
    BY <1>1, <1>2, <1>5 DEF Inv, TypeOK
  <1>8. TypeOK'
    BY <1>2, <1>6, <1>7 DEF Inv, TypeOK
  <1>9. /\ \A n \in 0..k : Boundary(n)' = Boundary(n)
        /\ Boundary(k + 1)' = Total + HeaderSize + Length[m]
    <2>1. ASSUME NEW n \in 0..k PROVE Boundary(n)' = Boundary(n)
      <3>1. CASE n = 0
        BY <3>1 DEF Boundary
      <3>2. CASE n \in 1..k
        BY <3>2, <1>7 DEF Boundary
      <3> QED BY <3>1, <3>2, <1>1
    <2>2. k + 1 # 0
      BY <1>1
    <2> QED BY <2>1, <2>2, <1>7 DEF Boundary
  <1>10. EndsFollow'
    <2>1. \A n \in 1..(k + 1) : ends'[n] = Boundary(n - 1)' + HeaderSize + Length[sent'[n]]
      <3> TAKE n \in 1..(k + 1)
      <3>1. n - 1 \in 0..k /\ Boundary(n - 1)' = Boundary(n - 1)
        BY <1>1, <1>9
      <3>2. CASE n \in 1..k
        BY <3>1, <3>2, <1>1, <1>6, <1>7 DEF Inv, EndsFollow
      <3>3. CASE n = k + 1
        <4>1. n - 1 = k
          BY <3>3, <1>1
        <4> QED BY <3>1, <3>3, <4>1, <1>4, <1>6, <1>7
      <3> QED BY <3>2, <3>3, <1>1
    <2>2. \A i, n \in 0..(k + 1) : i < n => Boundary(i)' < Boundary(n)'
      <3> SUFFICES ASSUME NEW i \in 0..(k + 1), NEW n \in 0..(k + 1), i < n
                   PROVE Boundary(i)' < Boundary(n)'
        OBVIOUS
      <3>1. CASE n \in 0..k
        BY <3>1, <1>1, <1>9 DEF Inv, EndsFollow
      <3>2. CASE n = k + 1
        <4>1. i \in 0..k /\ Boundary(i)' = Boundary(i)
          BY <3>2, <1>1, <1>9
        <4>2. Boundary(i) <= Total
          BY <4>1, <1>1, <1>3, <1>4 DEF Inv, EndsFollow
        <4> QED BY <3>2, <4>1, <4>2, <1>1, <1>3, <1>4, <1>9
      <3> QED BY <3>1, <3>2, <1>1
    <2> QED BY <2>1, <2>2, <1>6, <1>7 DEF EndsFollow
  <1>11. IsPrefix'
    BY <1>1, <1>2, <1>6 DEF Inv, IsPrefix, TypeOK
  <1>12. Len(delivered) \in 0..k
    BY <1>1 DEF Inv, IsPrefix, TypeOK
  <1>13. ReaderFollows'
    <2>1. Total' = Total + HeaderSize + Length[m]
      BY <1>6, <1>9 DEF Total
    <2>2. pc = "sized" => Len(delivered) + 1 \in 1..k /\ sent'[Len(delivered) + 1] = sent[Len(delivered) + 1]
      BY <1>1, <1>6, <1>12 DEF Inv, ReaderFollows
    <2> QED BY <1>1, <1>2, <1>4, <1>6, <1>12, <2>1, <2>2 DEF Inv, ReaderFollows, TypeOK
  <1>14. AtBoundary'
    BY <1>2, <1>9, <1>12 DEF Inv, AtBoundary
  <1> QED BY <1>8, <1>10, <1>11, <1>13, <1>14 DEF Inv

\* The steps that leave the messages alone.
LEMMA WriteKeepsInv == ASSUME NEW n \in 1..Capacity, Inv, Write(n) PROVE Inv'
  <1> USE MessagesHaveLengths
  <1>1. UNCHANGED <<sent, ends, received, erased, it, pc, size, delivered, senderOpen, readerOpen>>
    BY DEF Write, reader_vars
  <1>2. written' = written + n /\ written' <= Total /\ n \in Nat /\ n > 0
    BY DEF Write
  <1>3. \A i : Boundary(i)' = Boundary(i)
    BY <1>1 DEF Boundary
  <1>4. Total' = Total
    BY <1>1 DEF Total, Boundary
  <1>5. TypeOK' /\ EndsFollow' /\ IsPrefix' /\ AtBoundary'
    BY <1>1, <1>2, <1>3 DEF Inv, TypeOK, EndsFollow, IsPrefix, AtBoundary, Boundary
  <1>6. ReaderFollows'
    BY <1>1, <1>2, <1>4 DEF Inv, TypeOK, ReaderFollows
  <1> QED BY <1>5, <1>6 DEF Inv

\* What the other steps leave alone, and what follows from that.
SenderStays == UNCHANGED <<sent, ends, written>>

LEMMA SenderStaysFacts ==
  ASSUME Inv, SenderStays
  PROVE  EndsFollow' /\ Total' = Total /\ \A n : Boundary(n)' = Boundary(n)
  BY DEF Inv, SenderStays, EndsFollow, Boundary, Total

LEMMA CloseKeepsInv == ASSUME Inv, SenderCloses \/ ReaderCloses PROVE Inv'
  <1>1. /\ UNCHANGED <<sent, ends, written, received, erased, it, pc, size, delivered>>
        /\ senderOpen' \in BOOLEAN /\ readerOpen' \in BOOLEAN
    BY DEF SenderCloses, ReaderCloses, sender_vars, reader_vars, Inv, TypeOK
  <1> QED
    BY <1>1, SenderStaysFacts DEF SenderStays, Inv, TypeOK, IsPrefix, ReaderFollows, AtBoundary

LEMMA ReceiveKeepsInv == ASSUME Inv, Receive PROVE Inv'
  <1>1. /\ UNCHANGED <<sent, ends, written, erased, size, delivered, senderOpen>>
        /\ readerOpen' \in BOOLEAN
    BY DEF Receive, sender_vars, Inv, TypeOK
  <1>2. CASE senderOpen
    <2>1. received' = written /\ it' = erased /\ pc' = "loop" /\ pc = "idle"
      BY <1>2 DEF Receive
    <2> QED
      BY <1>1, <2>1, SenderStaysFacts
      DEF SenderStays, Inv, TypeOK, IsPrefix, ReaderFollows, AtBoundary
  <1>3. CASE ~senderOpen
    <2>1. UNCHANGED <<received, it, pc>>
      BY <1>3 DEF Receive
    <2> QED
      BY <1>1, <2>1, SenderStaysFacts
      DEF SenderStays, Inv, TypeOK, IsPrefix, ReaderFollows, AtBoundary
  <1> QED BY <1>2, <1>3

LEMMA BoundaryIsNat ==
  ASSUME EndsFollow, TypeOK, NEW n \in 0..Len(sent)
  PROVE  Boundary(n) \in Nat
  <1>1. CASE n = 0
    BY <1>1 DEF Boundary
  <1>2. CASE n \in 1..Len(sent)
    <2>1. ends[n] \in Nat
      BY <1>2 DEF TypeOK, EndsFollow
    <2> QED BY <1>2, <2>1 DEF Boundary
  <1> QED BY <1>1, <1>2 DEF TypeOK

\* A boundary is that of one message.
LEMMA BoundariesDiffer ==
  ASSUME EndsFollow, TypeOK, NEW i \in 0..Len(sent), NEW n \in 0..Len(sent), Boundary(i) = Boundary(n)
  PROVE  i = n
  <1>1. Len(sent) \in Nat /\ Boundary(i) \in Nat
    BY DEF TypeOK, EndsFollow, Boundary
  <1>2. ~(i < n) /\ ~(n < i)
    BY <1>1 DEF EndsFollow
  <1> QED BY <1>1, <1>2

\* The reader has the header of a message in its buffer when it reads a size.
LEMMA SizeIsOfNext ==
  ASSUME Inv, ReadSize
  PROVE  Len(delivered) < Len(sent) /\ size' = Length[sent[Len(delivered) + 1]]
  <1> USE MessagesHaveLengths
  <1>0. PICK d \in Nat : d = Len(delivered)
    BY DEF Inv, TypeOK
  <1>1. /\ d = Len(delivered) /\ d <= Len(sent) /\ Len(sent) \in Nat
        /\ it = Boundary(d) /\ it + HeaderSize <= received
    BY <1>0 DEF Inv, TypeOK, IsPrefix, ReadSize, CanRead, AtBoundary
  <1>2. d < Len(sent)
    <2> SUFFICES ASSUME d = Len(sent) PROVE FALSE
      BY <1>1
    <2>1. it = Total /\ received <= Total
      BY <1>1 DEF Total, Inv, ReaderFollows, TypeOK, EndsFollow, Boundary
    <2> QED BY <1>1, <2>1 DEF Inv, TypeOK
  <1>3. d + 1 \in DOMAIN sent /\ Boundary((d + 1) - 1) = it
    BY <1>1, <1>2 DEF Inv, TypeOK
  <1>4. ASSUME NEW n \in DOMAIN sent, Boundary(n - 1) = it PROVE n = d + 1
    <2>1. n \in Nat /\ n - 1 \in 0..Len(sent) /\ d \in 0..Len(sent)
      BY <1>1 DEF Inv, TypeOK
    <2>2. n - 1 = d
      BY <1>1, <1>4, <2>1, BoundariesDiffer DEF Inv
    <2> QED BY <2>1, <2>2
  <1>5. IsSizeAt(it, size')
    BY DEF ReadSize
  <1> QED BY <1>0, <1>2, <1>3, <1>4, <1>5 DEF IsSizeAt

LEMMA ReadSizeKeepsInv == ASSUME Inv, ReadSize PROVE Inv'
  <1> USE MessagesHaveLengths
  <1>1. /\ UNCHANGED <<sent, ends, written, received, erased, delivered, senderOpen, readerOpen>>
        /\ pc = "loop" /\ pc' = "sized" /\ it' = it + HeaderSize /\ it + HeaderSize <= received
        /\ size' \in Nat
    BY DEF ReadSize, sender_vars, CanRead
  <1>2. it = Boundary(Len(delivered))
    BY <1>1 DEF Inv, AtBoundary
  <1>3. TypeOK'
    BY <1>1 DEF Inv, TypeOK
  <1>4. ReaderFollows'
    BY <1>1, SizeIsOfNext, SenderStaysFacts DEF SenderStays, Inv, TypeOK, ReaderFollows
  <1> QED
    BY <1>1, <1>2, <1>3, <1>4, SenderStaysFacts DEF SenderStays, Inv, IsPrefix, AtBoundary

LEMMA EraseKeepsInv == ASSUME Inv, Incomplete \/ AllRead PROVE Inv'
  <1> USE MessagesHaveLengths
  <1>1. /\ UNCHANGED <<sent, ends, written, received, size, delivered, senderOpen, readerOpen>>
        /\ pc' = "idle" /\ erased' = it'
    BY DEF Incomplete, AllRead, EraseUpTo, sender_vars
  <1>2. it' = Boundary(Len(delivered))
    <2>1. CASE Incomplete
      <3>1. it' = it - HeaderSize /\ it = Boundary(Len(delivered)) + HeaderSize
        BY <2>1 DEF Incomplete, EraseUpTo, StopBeforeSize, Inv, AtBoundary
      <3>2. Boundary(Len(delivered)) \in Nat
        BY DEF Inv, TypeOK, IsPrefix, EndsFollow, Boundary
      <3> QED BY <3>1, <3>2
    <2>2. CASE AllRead
      BY <2>2 DEF AllRead, EraseUpTo, Inv, AtBoundary
    <2> QED BY <2>1, <2>2
  <1>3. it' \in Nat
    BY <1>2 DEF Inv, TypeOK, IsPrefix, EndsFollow, Boundary
  <1> QED
    BY <1>1, <1>2, <1>3, SenderStaysFacts
    DEF SenderStays, Inv, TypeOK, IsPrefix, ReaderFollows, AtBoundary

\* What is taken out of the buffer is the first message not delivered yet.
LEMMA MessageIsNext ==
  ASSUME Inv, Deserialize, NEW m, IsBetween(m, it, it + size)
  PROVE  /\ Len(delivered) < Len(sent) /\ m = sent[Len(delivered) + 1]
         /\ it + size = Boundary(Len(delivered) + 1)
  <1> USE MessagesHaveLengths
  <1>0. PICK d \in Nat : d = Len(delivered)
    BY DEF Inv, TypeOK
  <1>1. /\ d = Len(delivered) /\ d < Len(sent) /\ Len(sent) \in Nat
        /\ it = Boundary(d) + HeaderSize /\ size = Length[sent[d + 1]]
        /\ it + size <= received
    BY <1>0 DEF Inv, TypeOK, ReaderFollows, Deserialize, IsComplete, CanRead, AtBoundary
  <1>2. /\ d + 1 \in DOMAIN sent /\ (d + 1) - 1 = d
        /\ ends[d + 1] = Boundary(d) + HeaderSize + Length[sent[d + 1]]
    <2>1. DOMAIN sent = 1..Len(sent)
      BY DEF Inv, TypeOK
    <2>2. d + 1 \in 1..Len(sent) /\ (d + 1) - 1 = d
      BY <1>1
    <2>3. ends[d + 1] = Boundary((d + 1) - 1) + HeaderSize + Length[sent[d + 1]]
      BY <2>2 DEF Inv, EndsFollow
    <2> QED BY <2>1, <2>2, <2>3
  <1>3. /\ ends[d + 1] = it + size /\ Boundary((d + 1) - 1) + HeaderSize = it
        /\ Boundary(d + 1) = it + size
    BY <1>0, <1>1, <1>2 DEF Boundary
  <1>4. ASSUME NEW n \in DOMAIN sent, Boundary(n - 1) + HeaderSize = it PROVE n = d + 1
    <2>1. n \in Nat /\ n - 1 \in 0..Len(sent) /\ d \in 0..Len(sent)
      <3>1. DOMAIN sent = 1..Len(sent)
        BY DEF Inv, TypeOK
      <3> QED BY <1>1, <3>1
    <2>2. Boundary(n - 1) \in Nat /\ Boundary(d) \in Nat
      BY <2>1, BoundaryIsNat DEF Inv
    <2>3. Boundary(n - 1) = Boundary(d)
      BY <1>1, <1>4, <2>2
    <2>4. n - 1 = d
      BY <2>1, <2>3, BoundariesDiffer DEF Inv
    <2> QED BY <2>1, <2>4
  <1> QED BY <1>0, <1>1, <1>2, <1>3, <1>4 DEF IsBetween

\* A message is delivered, or it is one the reader does not know.
LEMMA DeserializeDelivers ==
  ASSUME Inv, Deserialize
  PROVE  /\ Len(delivered) < Len(sent)
         /\ \/ /\ delivered' = Append(delivered, sent[Len(delivered) + 1])
               /\ it' = Boundary(Len(delivered) + 1) /\ it' <= received /\ pc' = "loop"
               /\ readerOpen' = readerOpen
            \/ UNCHANGED <<delivered, it, pc>> /\ readerOpen' = FALSE
  <1>1. PICK m \in Messages \cup {Garbled} :
          /\ IsBetween(m, it, it + size)
          /\ \/ /\ delivered' = Append(delivered, m)
                /\ it' = it + size /\ pc' = "loop"
                /\ UNCHANGED readerOpen
             \/ /\ readerOpen' = FALSE
                /\ UNCHANGED <<delivered, it, pc>>
    BY DEF Deserialize
  <1>2. it + size <= received
    BY DEF Deserialize, IsComplete, CanRead
  <1> QED BY <1>1, <1>2, MessageIsNext

LEMMA DeserializeKeepsInv == ASSUME Inv, Deserialize PROVE Inv'
  <1> USE MessagesHaveLengths
  <1>0. PICK d \in Nat : d = Len(delivered)
    BY DEF Inv, TypeOK
  <1>1. /\ UNCHANGED <<sent, ends, written, received, erased, size, senderOpen>>
        /\ pc = "sized"
    BY DEF Deserialize, sender_vars
  <1>2. CASE /\ delivered' = Append(delivered, sent[Len(delivered) + 1])
             /\ it' = Boundary(Len(delivered) + 1) /\ pc' = "loop"
             /\ readerOpen' = readerOpen
    <2>1. d < Len(sent) /\ sent[d + 1] \in Messages /\ d + 1 \in 1..Len(sent)
      <3>1. d < Len(sent)
        BY <1>0, DeserializeDelivers
      <3> QED BY <3>1 DEF Inv, TypeOK
    <2>2. /\ delivered' \in Seq(Messages) /\ Len(delivered') = d + 1
          /\ delivered'[d + 1] = sent[d + 1] /\ \A n \in 1..d : delivered'[n] = delivered[n]
      BY <1>0, <1>2, <2>1 DEF Inv, TypeOK
    <2>3. it' \in Nat
      <3>1. d + 1 # 0 /\ it' = Boundary(d + 1)
        BY <1>0, <1>2
      <3>2. ends[d + 1] \in Nat
        BY <2>1 DEF Inv, TypeOK, EndsFollow
      <3> QED BY <3>1, <3>2 DEF Boundary
    <2>4. TypeOK'
      BY <1>1, <1>2, <2>2, <2>3 DEF Inv, TypeOK
    <2>5. IsPrefix'
      BY <1>0, <1>1, <2>1, <2>2 DEF Inv, IsPrefix
    <2>6. ReaderFollows'
      BY <1>1, <1>2, SenderStaysFacts DEF SenderStays, Inv, ReaderFollows
    <2>7. AtBoundary'
      <3>1. it' = Boundary(d + 1)'
        BY <1>0, <1>1, <1>2 DEF Boundary
      <3> QED BY <1>2, <2>2, <3>1 DEF AtBoundary
    <2> QED BY <1>1, <2>4, <2>5, <2>6, <2>7, SenderStaysFacts DEF SenderStays, Inv
  <1>3. CASE UNCHANGED <<delivered, it, pc>> /\ readerOpen' = FALSE
    BY <1>1, <1>3, SenderStaysFacts
    DEF SenderStays, Inv, TypeOK, IsPrefix, ReaderFollows, AtBoundary
  <1> QED BY <1>2, <1>3, DeserializeDelivers

LEMMA StutteringKeepsInv == ASSUME Inv, UNCHANGED connection_vars PROVE Inv'
  BY DEF connection_vars, sender_vars, reader_vars, Inv, TypeOK, EndsFollow, IsPrefix,
     ReaderFollows, AtBoundary, Boundary, Total

LEMMA NextKeepsInv == ASSUME Inv, [Next]_connection_vars PROVE Inv'
  BY SendKeepsInv, WriteKeepsInv, CloseKeepsInv, ReceiveKeepsInv, ReadSizeKeepsInv,
     EraseKeepsInv, DeserializeKeepsInv, StutteringKeepsInv DEF Next

THEOREM InvHolds == SafeSpec => []Inv
  BY InitInv, NextKeepsInv, PTL DEF SafeSpec

\* The state of a connection has its type, in particular nothing is delivered
\* that is no message (read_messages).
THEOREM TypeCorrect == SafeSpec => []TypeOK
  BY InvHolds, PTL DEF Inv

\* The reader never loses the boundaries of messages (read_messages), however
\* the stream is cut into parts.
THEOREM AlwaysAtBoundary == SafeSpec => []AtBoundary
  BY InvHolds, PTL DEF Inv

-----------------------------------------------------------------------------
(* The connection implements Channel. *)

LEMMA InitImplements == Init => Whole!Init
  BY DEF Init, Whole!Init

LEMMA StepImplements == ASSUME Inv, [Next]_connection_vars PROVE [Whole!Next]_(Whole!vars)
  <1> USE DEF Whole!Next, Whole!vars
  <1>1. ASSUME NEW m \in Messages, SendMessage(m) PROVE Whole!Send(m)
    BY <1>1 DEF SendMessage, reader_vars, Whole!Send
  <1>2. ASSUME NEW n \in 1..Capacity, Write(n) PROVE UNCHANGED Whole!vars
    BY <1>2 DEF Write, reader_vars
  <1>3. ASSUME SenderCloses \/ ReaderCloses PROVE Whole!Close
    BY <1>3 DEF SenderCloses, ReaderCloses, sender_vars, reader_vars, Whole!Close
  <1>4. ASSUME Receive PROVE Whole!Close \/ UNCHANGED Whole!vars
    BY <1>4 DEF Receive, sender_vars, Whole!Close
  <1>5. ASSUME ReadSize \/ Incomplete \/ AllRead PROVE UNCHANGED Whole!vars
    BY <1>5 DEF ReadSize, Incomplete, AllRead, EraseUpTo, sender_vars
  <1>6. ASSUME Deserialize PROVE Whole!Deliver \/ Whole!Close
    <2>1. UNCHANGED <<sent, senderOpen>> /\ readerOpen
      BY <1>6 DEF Deserialize, sender_vars
    <2> QED BY <1>6, <2>1, DeserializeDelivers DEF Whole!Deliver, Whole!Close
  <1>7. ASSUME UNCHANGED connection_vars PROVE UNCHANGED Whole!vars
    BY <1>7 DEF connection_vars, sender_vars, reader_vars
  <1> QED BY <1>1, <1>2, <1>3, <1>4, <1>5, <1>6, <1>7 DEF Next

\* Messages are delivered whole, once and in order (send_message,
\* read_messages): every step of the connection is one of Channel or none.
THEOREM ImplementsChannel == SafeSpec => Whole!SafeSpec
  BY InvHolds, InitImplements, StepImplements, PTL DEF SafeSpec, Whole!SafeSpec

=============================================================================
