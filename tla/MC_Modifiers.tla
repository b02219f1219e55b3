---------------------------- MODULE MC_Modifiers ----------------------------
(***************************************************************************)
(* The keymap of the first section of src/src/test/test5_Fuzz.cpp:         *)
(*   Ext           >>                   J           >> 3 ^ 4               *)
(*   Ext{W{K}}     >> 1                 Ext{W{Any}} >>                     *)
(*   ShiftLeft{L}  >> !ShiftLeft 2                                         *)
(* with the keys of the exit sequence, ShiftLeft Escape K.                 *)
(***************************************************************************)
EXTENDS Keymaps

MCContexts == [ main |-> << Mappings(<<
  <<Input1("Ext"),              << >> >>,
  <<Input3("Ext", "W", "K"),    Hold("1")>>,
  <<Input2("ShiftLeft", "L"),   <<NotKey("ShiftLeft"), Press("2")>> >>,
  <<Input1("J"),                Tap("3") \o OnRelease \o Tap("4")>>,
  <<Input3("Ext", "W", "any"),  << >> >> >>) >> ]
MCConfigurations == {<<"main">>}
MCMaxPressed == [main |-> 3]
MCKeyboard == {"Ext", "ShiftLeft", "Escape", "W", "K", "L", "J", "1", "2", "3", "4"}
MCKeys == On(0, {"Ext", "ShiftLeft", "Escape", "W", "K", "L", "J"})
MCInitialContexts == <<1>>
MCDevices == <<"Device0">>

\* The Shift that 2 is output without is down again for what follows.
ShiftIsOutput == \E o \in Elements(LastStage.out) : o.key = "ShiftLeft"
ShiftIsRestored ==
  [][\A i \in DOMAIN sent' :
       /\ sent'[i].state = "Down" /\ sent'[i].key \in {"W", "K", "1"}
       /\ ShiftIsOutput /\ <<0, "ShiftLeft">> \in pressed /\ "2" \notin DownBefore(i)
       => "ShiftLeft" \in DownBefore(i)]_vars

\* The exit sequence leaves no key down in the system.
ExitReleasesAll == server.exit => systemDown = {}

=============================================================================
