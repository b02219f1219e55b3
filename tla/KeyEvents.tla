----------------------------- MODULE KeyEvents -----------------------------
(***************************************************************************)
(* Keys and key events, the data every part of keymapper works on          *)
(* (src/src/runtime/Key.h, KeyEvent.h, Timeout.h).                         *)
(*                                                                         *)
(* A key is a string. Its kind - the numeric ranges of enum Key - is the   *)
(* constant set it belongs to. Three keys are no keys of a device: "any"   *)
(* (a wildcard in expressions), "timeout" and "ContextActive".             *)
(***************************************************************************)
EXTENDS Integers, SequencesExt

CONSTANTS
  KeyboardKeys,     \* keys of a keyboard
  MouseKeys,        \* mouse buttons and wheel directions
  CommonModifiers,  \* Shift, Control, Alt, Meta
  VirtualKeys,      \* Virtual0 ..., toggled by the server
  ActionKeys        \* Action0 ..., trigger a terminal command

ASSUME KeyKindsAreDisjoint ==
  /\ CommonModifiers \subseteq KeyboardKeys
  /\ KeyboardKeys \cap MouseKeys = {}
  /\ (KeyboardKeys \cup MouseKeys) \cap (VirtualKeys \cup ActionKeys) = {}
  /\ VirtualKeys \cap ActionKeys = {}
  /\ {"none", "any", "timeout", "ContextActive"} \cap
       (KeyboardKeys \cup MouseKeys \cup VirtualKeys \cup ActionKeys) = {}

DeviceKeys == KeyboardKeys \cup MouseKeys

\* Timeouts are 12 bit milliseconds, sums saturate.
MaxTimeout == 2^12 - 1

SumTimeouts(a, b) == IF a + b > MaxTimeout THEN MaxTimeout ELSE a + b

\* The first and the last of some positions of a sequence, 0 if there is none.
FirstOf(positions) == IF positions = {} THEN 0 ELSE Min(positions)
LastOf(positions)  == IF positions = {} THEN 0 ELSE Max(positions)

\* The elements of a sequence at some of its positions, and those that pass a
\* test (nothing can be proved about the definition of SelectSeq).
ElementsAt(seq, positions) ==
  LET upTo[n \in 0..Len(seq)] ==
        IF n = 0 THEN << >>
        ELSE IF n \in positions THEN Append(upTo[n - 1], seq[n]) ELSE upTo[n - 1]
  IN  upTo[Len(seq)]
Select(seq, Test(_)) == ElementsAt(seq, {i \in DOMAIN seq : Test(seq[i])})

\* A sequence with an operator applied to each element.
Map(seq, Op(_)) == SubSeq([i \in DOMAIN seq |-> Op(seq[i])], 1, Len(seq))

-----------------------------------------------------------------------------
(***************************************************************************)
(* "NotTimeout" is the only state without a second meaning: for a timeout  *)
(* "Not" is a not-timeout cancelled by a key press, "NotTimeout" one that  *)
(* is also cancelled by a release, "Down" a timeout cancelled by a press   *)
(* and "Up" one cancelled by any key event.                                *)
(***************************************************************************)
KeyStates ==
  { "Up", "Down", "Not", "UpAsync", "DownAsync", "NoMightMatch",
    "OutputOnRelease", "DownMatched", "UpMatched", "HistoryTiming", "NotTimeout" }

\* All there is in an expression or a sequence, of some keys.
AllKeys == DeviceKeys \cup VirtualKeys \cup ActionKeys \cup {"none", "any", "timeout", "ContextActive"}
EventsOf(keys) == [key : keys, state : KeyStates, value : 0..MaxTimeout]

Event(key, state) == [key |-> key, state |-> state, value |-> 0]
Timeout(state, ms) == [key |-> "timeout", state |-> state, value |-> ms]

Press(key)   == Event(key, "Down")
Release(key) == Event(key, "Up")

\* Also the end of a sequence: KeyEvent{} has key none and state Up.
NoEvent == Release("none")

\* Events are compared without their value.
SameEvent(a, b) == a.key = b.key /\ a.state = b.state

IsNotTimeoutState(state) == state \in {"Not", "NotTimeout"}
CancelTimeoutOnUp(state) == state \in {"NotTimeout", "Up"}

IsDown(event)        == event.state \in {"Down", "DownMatched"}
IsNonOptional(event) == event.state \in {"Up", "Down"}

=============================================================================
