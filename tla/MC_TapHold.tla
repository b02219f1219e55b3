----------------------------- MODULE MC_TapHold -----------------------------
(***************************************************************************)
(* Keys that wait for a timeout. In one configuration they do something    *)
(* else when they are held than when they are tapped:                      *)
(*   A{250ms} >> X       A{B} >> V                                         *)
(*   A        >> Y       B{!250ms} >> W                                    *)
(* In the other one a mapping that may not hold back keys is next to one   *)
(* that does:                                                              *)
(*   ? Z !250ms B >> X                                                     *)
(*   A B          >> Y                                                     *)
(***************************************************************************)
EXTENDS Keymaps

MCContexts == [
  tap_hold |-> << Mappings(<<
    <<HeldFor("A", 250),      Hold("X")>>,
    <<Input1("A"),            Hold("Y")>>,
    <<TappedWithin("B", 250), Hold("W")>>,
    <<Input2("A", "B"),       Hold("V")>> >>) >>,
  history |-> << Mappings(<<
    <<NeverHoldBack \o Input1("Z") \o <<Timeout("Not", 250), Press("B")>>, Hold("X")>>,
    <<InputSequence("A", "B"), Hold("Y")>> >>) >> ]
MCConfigurations == {<<"tap_hold">>, <<"history">>}
MCMaxPressed == [tap_hold |-> 3, history |-> 2]
MCKeyboard == {"A", "B", "Z", "V", "W", "X", "Y"}
MCKeys == On(0, {"A", "B", "Z"})
MCInitialContexts == <<1>>
MCDevices == <<"Device0">>

\* Which configuration the server has.
Has(name) == \E st \in Elements(Stages) : st.stage = name

\* A key is either tapped or held: never is one of its outputs pressed while
\* the other is down, whichever event cancels the timeout.
TapOrHold ==
  [][Has("tap_hold") =>
       \A i \in DOMAIN sent' :
         /\ sent'[i] = Press("X") => "Y" \notin DownBefore(i)
         /\ sent'[i] = Press("Y") => "X" \notin DownBefore(i)]_vars

\* No key that is pressed or released earlier makes A a key that is held.
HoldNeedsTimeout ==
  Has("tap_hold") /\ "X" \notin systemDown =>
    \A k \in Keys, elapsed \in {e \in Elapsed : e < 250} :
      LET event == IF k \in pressed THEN Release(k[2]) ELSE Press(k[2])
      IN  Press("X") \notin
            Elements(FlushSendBuffer(TranslateInput(At(elapsed), event, k[1])).sent)

\* A is output as held, once it is down for as long as it takes.
HoldIsOutput ==
  Has("tap_hold") /\ pressed = {<<0, "A">>} /\ server.timeout = Timeout("Up", 250) ~>
    "X" \in systemDown \/ pressed # {<<0, "A">>}

\* Z is in no mapping that holds it back, and passes through whatever else is.
UnmappedPassesThrough == Has("tap_hold") => PassesThrough({"Z"})

\* The key the no-might-match mapping starts with is never held back by it.
NeverHeldBack ==
  Has("history") =>
    \A st \in Elements(Stages) :
      <<0, "Z">> \in pressed /\ ~(st.might /\ \E i \in DOMAIN st.seq : st.seq[i].key = "A")
        => "Z" \in systemDown

\* What can no longer match is forgotten with the last key that is released: of
\* all keys that were pressed, the history has one that may still match, at most.
HistoryIsForgotten ==
  Has("history") /\ Quiet =>
    \A st \in Elements(Stages) : Len(Select(st.history, LAMBDA ev : ev.key # "timeout")) <= 2

=============================================================================
