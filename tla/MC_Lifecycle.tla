---------------------------- MODULE MC_Lifecycle ----------------------------
(***************************************************************************)
(* Everything around the mappings: the client configures the server again, *)
(* reconnects and asks for the next keys, while mappings with delayed      *)
(* output, a wheel, an action and a virtual key (which is not toggled by   *)
(* pressing it, @virtual-keys-toggle false) are used:                      *)
(*   A >> X 500ms Y 500ms Z 500ms Y       Virtual1{A} >> V                 *)
(*   B >> Virtual1 $(command)             WheelUp >> W                     *)
(***************************************************************************)
EXTENDS Keymaps

MCContexts == [ main |-> << Mappings(<<
  <<Input1("A"),              Tap("X") \o Delay(500) \o Tap("Y") \o Delay(500) \o Tap("Z")
                                \o Delay(500) \o Tap("Y")>>,
  <<Input1("WheelUp"),        Hold("W")>>,
  <<Input1("B"),              Tap("Virtual1") \o Hold("Action0")>>,
  <<Input2("Virtual1", "A"),  Hold("V")>> >>) >> ]
MCConfigurations == {<<"main">>}
MCMaxPressed == [main |-> 1]
MCKeyboard == {"A", "B", "V", "W", "X", "Y", "Z"}
MCMouse == {"WheelUp"}
MCKeys == On(0, {"A", "B", "WheelUp"})
MCInitialContexts == <<1>>
MCDevices == <<"Device0">>

\* While the client asks for the next keys, what is pressed is not output.
AskedKeysAreNotOutput ==
  [][server.nextKeyRequested /\ server.buffer = << >> /\ ~TimeoutPending(server)
     /\ server.virtualDown = server'.virtualDown /\ server'.nextKeyRequested
     => \A i \in DOMAIN sent' : sent'[i].state = "Up"]_vars

=============================================================================
