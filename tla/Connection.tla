----------------------------- MODULE Connection -----------------------------
(***************************************************************************)
(* One direction of a connection (src/src/common/Connection.h and .cpp):   *)
(* send_message writes the size of a message and the message to a stream   *)
(* of bytes, of which the socket takes and gives any part; read_messages   *)
(* reads what there is into a buffer, takes the complete messages out of   *)
(* it and keeps the rest for the next time.                                *)
(*                                                                         *)
(* Bytes are positions in the stream: written were given to the socket,    *)
(* received are in the buffer or were, erased are no longer in it, it is   *)
(* the iterator. Which message is where is only looked up (ends) when the  *)
(* reader takes bytes for a size or for a message.                         *)
(***************************************************************************)
EXTENDS Naturals, Sequences

CONSTANTS
  Messages,
  Length,             \* how many bytes each has
  Unknown,            \* those the reader does not know and does not consume
  HeaderSize,         \* sizeof(Size)
  Garbage,            \* sizes that any other bytes may spell
  Capacity,           \* bytes the socket holds
  MaxSent             \* bound: messages sent

ASSUME MessagesHaveLengths ==
  /\ Length \in [Messages -> Nat] /\ Unknown \subseteq Messages
  /\ HeaderSize \in Nat \ {0} /\ Garbage \subseteq Nat
  /\ Capacity \in Nat \ {0} /\ MaxSent \in Nat

Garbled == "garbled"  \* bytes that are no message

VARIABLES
  sent, ends,         \* the messages sent and where each of them ends
  written, received, erased, it,
  pc, size,           \* where read_messages is, and the size that it read
  delivered,          \* the messages read
  senderOpen, readerOpen

sender_vars == <<sent, ends, written, senderOpen>>
reader_vars == <<received, erased, it, pc, size, delivered, readerOpen>>
connection_vars == <<sender_vars, reader_vars>>

\* Where the n-th message ends and the next one starts.
Boundary(n) == IF n = 0 THEN 0 ELSE ends[n]
Total == Boundary(Len(sent))

-----------------------------------------------------------------------------
(* The sender. *)

\* send_message: it goes on when the one before is written.
SendMessage(m) ==
  /\ senderOpen /\ written = Total /\ Len(sent) < MaxSent
  /\ sent' = Append(sent, m)
  /\ ends' = Append(ends, Total + HeaderSize + Length[m])
  /\ UNCHANGED <<written, senderOpen, reader_vars>>

\* send: the socket takes some of the bytes, or would block.
Write(n) ==
  /\ senderOpen /\ n > 0
  /\ written + n <= Total /\ written + n <= received + Capacity
  /\ written' = written + n
  /\ UNCHANGED <<sent, ends, senderOpen, reader_vars>>

\* It disconnects or ends, maybe within a message.
SenderCloses ==
  /\ senderOpen
  /\ senderOpen' = FALSE
  /\ UNCHANGED <<sent, ends, written, reader_vars>>

-----------------------------------------------------------------------------
(* The reader: read_messages. *)

CanRead(length) == it + length <= received

\* Read into the buffer until it would block. At the end of the stream this
\* fails, whatever was there to be read is lost.
Receive ==
  /\ readerOpen /\ pc = "idle"
  /\ \/ /\ senderOpen
        /\ received' = written /\ it' = erased /\ pc' = "loop"
        /\ UNCHANGED readerOpen
     \/ /\ ~senderOpen
        /\ readerOpen' = FALSE
        /\ UNCHANGED <<received, it, pc>>
  /\ UNCHANGED <<sender_vars, erased, size, delivered>>

\* The size that is read at a position. Only at a boundary it is one.
IsSizeAt(position, s) ==
  \/ \E n \in DOMAIN sent : Boundary(n - 1) = position /\ s = Length[sent[n]]
  \/ s \in Garbage /\ \A n \in DOMAIN sent : Boundary(n - 1) # position

ReadSize ==
  /\ readerOpen /\ pc = "loop" /\ CanRead(HeaderSize)
  /\ size' \in Garbage \cup {Length[m] : m \in Messages} /\ IsSizeAt(it, size')
  /\ it' = it + HeaderSize
  /\ pc' = "sized"
  /\ UNCHANGED <<sender_vars, received, erased, delivered, readerOpen>>

\* Bug: the size is not read again with the rest of the message.
StopBehindSize == it

\* "it -= sizeof(Size)": the message is not complete.
StopBeforeSize == it - HeaderSize

\* Bug: what was read stays in the buffer.
EraseNothing(position) ==
  /\ pc' = "idle"
  /\ UNCHANGED <<sender_vars, received, erased, it, size, delivered, readerOpen>>

\* Erase what was read, up to a position.
EraseUpTo(position) ==
  /\ erased' = position /\ it' = position
  /\ pc' = "idle"
  /\ UNCHANGED <<sender_vars, received, size, delivered, readerOpen>>

Incomplete == readerOpen /\ pc = "sized" /\ ~CanRead(size) /\ EraseUpTo(StopBeforeSize)

AllRead == readerOpen /\ pc = "loop" /\ ~CanRead(HeaderSize) /\ EraseUpTo(it)

\* Whether a message is between two positions of the buffer.
IsBetween(m, first, last) ==
  \/ \E n \in DOMAIN sent : /\ Boundary(n - 1) + HeaderSize = first /\ ends[n] = last
                            /\ last <= received /\ m = sent[n]
  \/ m = Garbled /\ ~\E n \in DOMAIN sent : /\ Boundary(n - 1) + HeaderSize = first /\ ends[n] = last
                                             /\ last <= received

\* Bug: whatever the size, what there is is taken for a message.
TakesAny == TRUE

\* can_read: the whole message is in the buffer.
IsComplete == CanRead(size)

\* deserialize. Who does not consume the message fails, and is disconnected.
Deserialize ==
  /\ readerOpen /\ pc = "sized" /\ IsComplete
  /\ \E m \in Messages \cup {Garbled} :
       /\ IsBetween(m, it, it + size)
       /\ \/ /\ m \notin Unknown
             /\ delivered' = Append(delivered, m)
             /\ it' = it + size /\ pc' = "loop"
             /\ UNCHANGED readerOpen
          \/ /\ m \in Unknown
             /\ readerOpen' = FALSE
             /\ UNCHANGED <<delivered, it, pc>>
  /\ UNCHANGED <<sender_vars, received, erased, size>>

ReaderCloses ==
  /\ readerOpen /\ pc = "idle"
  /\ readerOpen' = FALSE
  /\ UNCHANGED <<sender_vars, received, erased, it, pc, size, delivered>>

-----------------------------------------------------------------------------
Init ==
  /\ sent = << >> /\ ends = << >> /\ written = 0
  /\ received = 0 /\ erased = 0 /\ it = 0 /\ pc = "idle" /\ size = 0
  /\ delivered = << >>
  /\ senderOpen = TRUE /\ readerOpen = TRUE

Reads == Receive \/ ReadSize \/ Incomplete \/ AllRead \/ Deserialize

Next ==
  \/ \E m \in Messages : SendMessage(m)
  \/ \E n \in 1..Capacity : Write(n)
  \/ SenderCloses \/ ReaderCloses
  \/ Receive \/ ReadSize \/ Incomplete \/ AllRead \/ Deserialize

\* send tries again until all is written. The reader reads again when there
\* is something to read, and goes on with what is in its buffer.
Fairness ==
  /\ WF_connection_vars(\E n \in 1..Capacity : Write(n))
  /\ WF_connection_vars(Receive /\ (received # written \/ ~senderOpen))
  /\ WF_connection_vars(ReadSize \/ Incomplete \/ AllRead \/ Deserialize)

SafeSpec == Init /\ [][Next]_connection_vars

Spec == SafeSpec /\ Fairness

-----------------------------------------------------------------------------
TypeOK ==
  /\ sent \in Seq(Messages) /\ ends \in Seq(Nat)
  /\ written \in Nat /\ received \in Nat /\ erased \in Nat /\ it \in Nat
  /\ pc \in {"idle", "loop", "sized"} /\ size \in Nat
  /\ delivered \in Seq(Messages)
  /\ senderOpen \in BOOLEAN /\ readerOpen \in BOOLEAN

\* Whatever parts the bytes arrive in, read_messages stands where a message
\* starts whenever it reads a size, and what it keeps for the next time is
\* the beginning of the first message it did not deliver (buffer.erase).
AtBoundary ==
  /\ pc = "idle" => erased = Boundary(Len(delivered))
  /\ pc = "loop" => it = Boundary(Len(delivered))
  /\ pc = "sized" => it = Boundary(Len(delivered)) + HeaderSize

\* Every message is delivered whole, once and in order, and all of them are
\* when nobody closes the connection (send_message, read_messages).
Whole == INSTANCE Channel WITH Messages <- Messages, sent <- sent, delivered <- delivered,
                               senderOpen <- senderOpen, readerOpen <- readerOpen
IsChannel == Whole!Spec

=============================================================================
