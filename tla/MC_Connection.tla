--------------------------- MODULE MC_Connection ---------------------------
(***************************************************************************)
(* Messages of no byte, of one and of three, and one nobody knows. A size  *)
(* takes two bytes; other bytes may spell one that is too short or too     *)
(* long. The socket holds less than the longest message.                   *)
(***************************************************************************)
EXTENDS Connection

MCLength == [empty |-> 0, short |-> 1, long |-> 3, strange |-> 1]

=============================================================================
