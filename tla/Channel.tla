------------------------------ MODULE Channel ------------------------------
(***************************************************************************)
(* What a connection of two processes promises: messages are delivered     *)
(* whole, once and in the order they were sent, until one end is closed.   *)
(***************************************************************************)
EXTENDS Naturals, Sequences

CONSTANT Messages

VARIABLES sent, delivered, senderOpen, readerOpen

vars == <<sent, delivered, senderOpen, readerOpen>>

Init ==
  /\ sent = << >> /\ delivered = << >>
  /\ senderOpen = TRUE /\ readerOpen = TRUE

Send(m) ==
  /\ senderOpen
  /\ sent' = Append(sent, m)
  /\ UNCHANGED <<delivered, senderOpen, readerOpen>>

Deliver ==
  /\ readerOpen
  /\ Len(delivered) < Len(sent)
  /\ delivered' = Append(delivered, sent[Len(delivered) + 1])
  /\ UNCHANGED <<sent, senderOpen, readerOpen>>

Close ==
  /\ \/ senderOpen' = FALSE /\ readerOpen' = readerOpen
     \/ readerOpen' = FALSE /\ senderOpen' = senderOpen
  /\ UNCHANGED <<sent, delivered>>

Next == (\E m \in Messages : Send(m)) \/ Deliver \/ Close

SafeSpec == Init /\ [][Next]_vars

\* What was sent is delivered, as long as both ends stay open.
Spec == SafeSpec /\ WF_vars(senderOpen /\ Deliver)

=============================================================================
