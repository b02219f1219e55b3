----------------------------- MODULE MC_Control -----------------------------
(***************************************************************************)
(* Two configurations, only the first of which names Virtual1 a layer, and *)
(* which both name a key mode, but not the same. The second grabs other    *)
(* devices, setting it makes the server start over. Two processes of       *)
(* keymapperctl with five pairs of command lines.                          *)
(***************************************************************************)
EXTENDS Keymapperctl

MCConfigs == {"first", "second"}
MCContextCount == [c \in MCConfigs |-> 1]
MCMatching == [c \in MCConfigs |-> [w \in Windows \cup {NoWindow} |-> {0}]]
MCHasToggleActive == [c \in MCConfigs |-> FALSE]
MCGrabs == [first |-> "keyboards", second |-> "mice"]
MCToggles == [first |-> {"Virtual1"}, second |-> {"Virtual2"}]

MCDenotes ==
  [c \in MCConfigs \cup {None} |->
     [Virtual1 |-> "Virtual1", Virtual2 |-> "Virtual2", A |-> None, Any |-> Any,
      layer |-> IF c = "first" THEN "Virtual1" ELSE None,
      mode |-> IF c = "second" THEN "Virtual2" ELSE "Virtual1"]]

Do(op, name)     == [op |-> op, name |-> name, timed |-> FALSE]
DoSoon(op, name) == [op |-> op, name |-> name, timed |-> TRUE]

MCCommandLines ==
  { [ p1 |-> << Do("set_instance_id", "x"), Do("wait_pressed", "layer"), Do("restart", None) >>,
      p2 |-> << Do("set_instance_id", "x") >> ],
    [ p1 |-> << DoSoon("wait_toggled", "Any"), Do("is_pressed", "layer") >>,
      p2 |-> << Do("wait_pressed", "Virtual2"), Do("toggle", "Virtual1") >> ],
    [ p1 |-> << DoSoon("next_key_info", None), Do("is_released", "layer") >>,
      p2 |-> << Do("set_config_file", "second"), Do("restart", None) >> ],
    [ p1 |-> << Do("type_stdin", None), Do("press", "layer") >>,
      p2 |-> << Do("toggle", "Any"), Do("release", "A") >> ],
    [ p1 |-> << Do("wait_released", "mode"), Do("wait_toggled", "mode") >>,
      p2 |-> << Do("set_config_file", "first") >> ] }

=============================================================================
