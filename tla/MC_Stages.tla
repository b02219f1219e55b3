----------------------------- MODULE MC_Stages ------------------------------
(***************************************************************************)
(* Two stages that share a virtual key, with output on the activation of a *)
(* context:                                                                *)
(*   A >> Virtual1                                                         *)
(*   B >> Virtual1{C}                                                      *)
(*   [modifier = "Virtual1"]                                               *)
(*   C >> X                                                                *)
(*   ContextActive >> Y                                                    *)
(*   [stage]                                                               *)
(*   [modifier = "Virtual1"]                                               *)
(*   Y >> W                                                                *)
(*   X >> V                                                                *)
(* The client sets the virtual key, too, and changes the active contexts.  *)
(***************************************************************************)
EXTENDS Keymaps

MCContexts == [
  first |-> <<
    Mappings(<<
      <<Input1("A"), Hold("Virtual1")>>,
      <<Input1("B"), Tap("Virtual1") \o Tap("C") \o <<NotKey("Virtual1")>> >> >>),
    MappingsIf(<<Press("Virtual1")>>, <<
      <<Input1("C"), Hold("X")>>,
      <<<<Press("ContextActive")>>, Hold("Y")>> >>) >>,
  second |-> <<
    Mappings(<< >>),
    MappingsIf(<<Press("Virtual1")>>, <<
      <<Input1("Y"), Hold("W")>>,
      <<Input1("X"), Hold("V")>> >>) >> ]
MCConfigurations == {<<"first", "second">>}
MCMaxPressed == [first |-> 2, second |-> 2]
MCKeyboard == {"A", "B", "C", "V", "W", "X", "Y", "I"}
MCKeys == On(0, {"A", "B", "C"})
MCInitialContexts == <<1, 2, 3, 4>>
MCContextChanges == {<<1, 2, 3, 4>>, <<1, 3>>}
MCInjected == {Tap("I")}
MCDevices == <<"Device0">>

=============================================================================
