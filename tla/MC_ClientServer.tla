-------------------------- MODULE MC_ClientServer --------------------------
(***************************************************************************)
(* Two configurations, of which the second has fewer contexts, no          *)
(* toggle-active and other devices to grab, and two windows.               *)
(***************************************************************************)
EXTENDS ClientServer

MCConfigs == {"first", "second"}
MCContextCount == [first |-> 3, second |-> 1]
MCMatching ==
  [ first  |-> [w \in Windows \cup {NoWindow} |-> IF w = "editor" THEN {0, 2} ELSE {0, 1}],
    second |-> [w \in Windows \cup {NoWindow} |-> IF w = "editor" THEN {0} ELSE {}] ]
MCHasToggleActive == [first |-> TRUE, second |-> FALSE]
MCGrabs == [first |-> "keyboards", second |-> "mice"]

=============================================================================
