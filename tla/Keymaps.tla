------------------------------ MODULE Keymaps ------------------------------
(* The notation for the keymaps of the MC modules: what ParseKeySequence     *)
(* makes of the expressions.                                                *)
EXTENDS ServerProperties

Async(key)  == Event(key, "UpAsync")
NotKey(key) == Event(key, "Not")

\* The input expressions K, K{L} and K{L{M}}.
Input1(k)       == <<Press(k), Async(k)>>
Input2(k, l)    == <<Press(k), Press(l), Async(l), Async(k)>>
Input3(k, l, m) == <<Press(k), Press(l), Press(m), Async(m), Async(l), Async(k)>>

\* K L, K{500ms} and K{!500ms}, ? for a mapping that never holds back.
InputSequence(k, l) == Input1(k) \o Input1(l)
HeldFor(k, ms)      == <<Press(k), Timeout("Up", ms), Async(k)>>
TappedWithin(k, ms) == <<Press(k), Timeout("NotTimeout", ms), Async(k), Release(k)>>
NeverHoldBack       == <<Event("none", "NoMightMatch")>>

\* The output expression K is pressed as long as the trigger, Tap is not.
Hold(key) == <<Press(key)>>
Tap(key)  == <<Press(key), Release(key)>>
Delay(ms) == <<Timeout("Down", ms)>>
OnRelease == <<Event("none", "OutputOnRelease")>>

\* A context of mappings, each a pair of an input and an output.
MappingsIf(modifier, mappings) ==
  [ inputs   |-> [i \in DOMAIN mappings |-> [input |-> mappings[i][1], output |-> i - 1]],
    outputs  |-> [i \in DOMAIN mappings |-> mappings[i][2]],
    commands |-> << >>, modifier |-> modifier, invert |-> FALSE,
    fallthrough |-> FALSE, devices |-> NoFilter ]
Mappings(mappings) == MappingsIf(<< >>, mappings)

OnlyDevice(device, context) == [context EXCEPT !.devices = {device}]

On(device, keys) == {<<device, k>> : k \in keys}

=============================================================================
