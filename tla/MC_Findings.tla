---------------------------- MODULE MC_Findings ----------------------------
(***************************************************************************)
(* A keymap with which the server does something else than the README says:*)
(*   A >> X 500ms Y                                                        *)
(***************************************************************************)
EXTENDS Keymaps

MCContexts == [ main |-> << Mappings(<<
  <<Input1("A"), Tap("X") \o Delay(500) \o Tap("Y")>> >>) >> ]
MCConfigurations == {<<"main">>}
MCMaxPressed == [main |-> 2]
MCKeyboard == {"A", "X", "Y"}
MCKeys == On(0, {"A"})
MCInitialContexts == <<1>>
MCDevices == <<"Device0">>

-----------------------------------------------------------------------------
\* README.md, timeouts: "In output expressions it can be used to delay output".
\* What comes before a delay and what comes after it is not sent together.
OutputIsDelayed ==
  [][~({Press("X"), Press("Y")} \subseteq Elements(sent'))]_vars

=============================================================================
