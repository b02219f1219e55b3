----------------------------- MODULE MC_Devices -----------------------------
(***************************************************************************)
(* Two keyboards, of which the second context only means one, and keys that*)
(* are released without the server seeing it:                              *)
(*   A    >> X                                                             *)
(*   [device = "Device0"]                                                  *)
(*   B    >> Y                                                             *)
(*   A{B} >> Z                                                             *)
(***************************************************************************)
EXTENDS Keymaps

MCContexts == [ main |-> <<
  Mappings(<<
    <<Input1("A"),       Hold("X")>> >>),
  OnlyDevice("Device0", Mappings(<<
    <<Input1("B"),       Hold("Y")>>,
    <<Input2("A", "B"),  Hold("Z")>> >>)) >> ]
MCConfigurations == {<<"main">>}
MCMaxPressed == [main |-> 2]
MCKeyboard == {"A", "B", "X", "Y", "Z"}
MCKeys == On(0, {"A", "B"}) \cup On(1, {"B"})
MCInitialContexts == <<1, 2>>
MCDevices == <<"Device0", "Device1">>

\* The mappings of a device are not triggered by the keys of another one.
FilteredByDevice ==
  [][\A i \in DOMAIN sent' :
       sent'[i].state = "Down" /\ sent'[i].key \in {"Y", "Z"} => <<0, "B">> \in pressed']_vars

=============================================================================
