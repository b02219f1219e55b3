----------------------------- MODULE ServerLoop -----------------------------
(***************************************************************************)
(* The keymapper server as a process: main_loop of the unix server         *)
(* (src/src/server/unix/main.cpp) around the ServerState, between people   *)
(* who press keys, the client that sends messages and the system that      *)
(* receives the output of the virtual device.                              *)
(*                                                                         *)
(* An iteration of the loop reads at most one key event, translates it,    *)
(* expires the timeout, flushes the send buffer and then handles the       *)
(* messages of the client. Time is what an iteration observes of it: the   *)
(* milliseconds since the timeout was scheduled, and whether the scheduled *)
(* flush is due.                                                           *)
(***************************************************************************)
EXTENDS ServerState

CONSTANTS
  Keys,               \* what can be pressed: pairs <<device, key>>
  MaxPressed,         \* bound by stage: keys pressed at a time
  MaxSequence,        \* bounds: nothing is pressed or asked for when a sequence,
  MaxHistory,         \*   a history
  MaxBuffer,          \*   or the send buffer is longer
  Elapsed,            \* the times an iteration may observe, longer ones saturate
  Configurations,     \* those the client may send: the names of their stages
  ToggleDisabled,     \* the directive disable-virtual-keys-toggle
  DeviceNames,        \* names of the grabbed devices
  InitialContexts,    \* active contexts after the start
  ContextChanges,     \* active contexts the client may send later
  SettableKeys,       \* virtual keys the client may set
  InjectedSequences,  \* sequences the client may inject
  ClientAsksForKeys,  \* the client may request the next key info
  Reconfigures,       \* the client may send the configuration again
  UnseenReleases,     \* keys may be released on another desktop (Windows)
  Reconnects          \* bound: times the connection to the client is lost

ASSUME InputIsOfDevices ==
  /\ \A k \in Keys : k[1] \in 0..63 /\ k[2] \in DeviceKeys
  /\ MaxPressed \in [DOMAIN Contexts -> Nat] /\ MaxSequence \in Nat /\ MaxHistory \in Nat
  /\ Elapsed \subseteq 0..MaxTimeout /\ MaxBuffer \in Nat /\ Reconnects \in Nat

\* The client knows the stages, the virtual keys and the keys of a device. One
\* key it may set does not fit and is left out: keymapperctl can toggle Any,
\* which neither end looks at (ControlPort.cpp:191, ClientPort.cpp:174). The
\* server then has Any as a virtual key that is down; ClientServer models that.
ASSUME ClientSendsWhatFits ==
  /\ Configurations \subseteq Seq(DOMAIN Contexts)
  /\ InitialContexts \in Seq(Nat) /\ ContextChanges \subseteq Seq(Nat)
  /\ SettableKeys \subseteq VirtualKeys
  /\ InjectedSequences \subseteq Seq(EventsOf(OutputKeys))

VARIABLES
  server,             \* the ServerState
  client,             \* the last the client sent of: nothing, configuration, contexts
  grabbed,            \* the devices are grabbed and main_loop runs
  pressed,            \* keys that are physically down on grabbed devices
  repeating,          \* those that repeat
  systemDown,         \* keys that are down for the system
  sent,               \* events the system received in the last step
  told,               \* messages the client received in the last step
  reconnected         \* how often the connection was lost

keyState == <<pressed, repeating>>
connection == <<client, grabbed, reconnected>>
vars == <<server, connection, keyState, systemDown, sent, told>>

NewStages(configuration) == Map(configuration, NewStage)

\* A wheel has no down: the virtual device sends a relative movement.
SystemDown(down, events) ==
  FoldLeft(LAMBDA d, ev : IF ev.key \in WheelKeys THEN d
                          ELSE IF ev.state = "Up" THEN d \ {ev.key} ELSE d \cup {ev.key},
           down, events)

\* main_loop goes on until the exit sequence was read.
Running == grabbed /\ ~server.exit

\* The server does something, everybody sees what became of it.
Becomes(sv) ==
  /\ server' = Delivered(sv)
  /\ sent' = sv.sent
  /\ systemDown' = SystemDown(systemDown, sv.sent)
  /\ told' = sv.told

Init ==
  /\ server = NewServer
  /\ client = "nothing" /\ grabbed = FALSE
  /\ pressed = {} /\ repeating = {}
  /\ systemDown = {} /\ sent = << >> /\ told = << >>
  /\ reconnected = 0

\* The bounds: nothing is pressed or injected while too many keys are pressed,
\* and nothing that makes a queue longer happens while one is too long.
FewArePressed ==
  \A i \in DOMAIN server.stages : Cardinality(pressed) < MaxPressed[server.stages[i].stage]
QueuesAreShort ==
  /\ Len(server.buffer) <= MaxBuffer
  /\ \A i \in DOMAIN server.stages : /\ Len(server.stages[i].seq) <= MaxSequence
                                     /\ Len(server.stages[i].history) <= MaxHistory

-----------------------------------------------------------------------------
(***************************************************************************)
(* An iteration of main_loop. It reads the input of a device, or nothing   *)
(* since a timer woke it.                                                  *)
(***************************************************************************)
At(elapsed) == [server EXCEPT !.elapsed = elapsed]

NoInput == [event |-> NoEvent, device |-> NoDevice]
Inputs  == {NoInput} \cup [event : {Press(k[2]) : k \in Keys} \cup {Release(k[2]) : k \in Keys},
                          device : {k[1] : k \in Keys}]

Pressed(input)  == <<input.device, input.event.key>>
IsWheel(input)  == input.event.key \in WheelKeys

\* A keyboard repeats the key that was pressed last, until one is released.
OthersRepeating(device) == {k \in repeating : k[1] # device}

PressKey(input) ==
  /\ IsDown(input.event) /\ ~IsWheel(input)
  /\ Pressed(input) \in Keys \ pressed
  /\ FewArePressed /\ QueuesAreShort
  /\ pressed' = pressed \cup {Pressed(input)}
  /\ repeating' = OthersRepeating(input.device) \cup {Pressed(input)}

ReleaseKey(input) ==
  /\ ~IsDown(input.event)
  /\ Pressed(input) \in pressed
  /\ pressed' = pressed \ {Pressed(input)}
  /\ repeating' = OthersRepeating(input.device)

RepeatKey(input) ==
  /\ IsDown(input.event)
  /\ Pressed(input) \in repeating
  /\ QueuesAreShort
  /\ UNCHANGED keyState

TurnWheel(input) ==
  /\ ~IsDown(input.event) /\ IsWheel(input)
  /\ Pressed(input) \in Keys
  /\ QueuesAreShort
  /\ UNCHANGED keyState

\* Nobody does anything until the timeout expires or the flush is due. An
\* iteration that is late for one of them may be late for the other, too.
Wake(input, elapsed, due) ==
  /\ input = NoInput
  /\ due \/ (TimeoutPending(server) /\ elapsed >= server.timeout.value)
  /\ UNCHANGED keyState

Read(sv, input) == IF input = NoInput THEN sv ELSE TranslateInput(sv, input.event, input.device)

Expire(sv) ==
  IF TimeoutPending(sv) /\ sv.elapsed >= sv.timeout.value THEN ExpireTimeout(sv) ELSE sv

Flush(sv, due) == IF ~sv.flush \/ due THEN FlushSendBuffer(sv) ELSE sv

\* A flush that is not delayed is due in the next iteration.
MayBeDue == IF server.delayed THEN BOOLEAN ELSE {server.flush}

Iteration(input, elapsed, due) ==
  /\ Becomes(Flush(Expire(Read(At(elapsed), input)), due))
  /\ UNCHANGED connection

MainLoop ==
  /\ Running
  /\ \E input \in Inputs, elapsed \in Elapsed, due \in MayBeDue :
       /\ \/ PressKey(input) \/ ReleaseKey(input) \/ RepeatKey(input) \/ TurnWheel(input)
          \/ Wake(input, elapsed, due)
       /\ Iteration(input, elapsed, due)

\* The iterations of the two timers.
Awakes(elapsed, due) ==
  Running /\ Wake(NoInput, elapsed, due) /\ Iteration(NoInput, elapsed, due)

FlushDue == server.flush /\ \E elapsed \in Elapsed : Awakes(elapsed, TRUE)

TimeoutDue ==
  /\ TimeoutPending(server)
  /\ \E elapsed \in Elapsed, due \in MayBeDue :
       elapsed >= server.timeout.value /\ Awakes(elapsed, due)

-----------------------------------------------------------------------------
(***************************************************************************)
(* The messages of the client. It sends the configuration and the active   *)
(* contexts when it connects. The server grabs the devices as soon as it   *)
(* has a configuration, which waits until all keys are released, and       *)
(* creates the virtual device. The contexts come before or after that.     *)
(***************************************************************************)
Configure ==
  /\ client = "nothing" \/ (Reconfigures /\ Running)
  /\ client' = "configuration"
  /\ \E configuration \in Configurations, elapsed \in Elapsed :
       Becomes(OnDirectives(OnConfiguration(At(elapsed), NewStages(configuration)), ToggleDisabled))
  /\ UNCHANGED <<grabbed, reconnected, keyState>>

ActiveContexts ==
  /\ client # "nothing" /\ ~server.exit
  /\ client = "contexts" => QueuesAreShort
  /\ client' = "contexts"
  /\ \E indices \in IF client = "contexts" THEN ContextChanges ELSE {InitialContexts},
        elapsed \in Elapsed :
       Becomes(OnActiveContexts(At(elapsed), indices))
  /\ UNCHANGED <<grabbed, reconnected, keyState>>

Grab ==
  /\ client # "nothing" /\ ~grabbed
  /\ grabbed' = TRUE
  /\ Becomes(SetDeviceDescs([server EXCEPT !.virtualDevice = TRUE], DeviceNames))
  /\ UNCHANGED <<client, reconnected, keyState>>

Message(sv) == Becomes(sv) /\ UNCHANGED <<connection, keyState>>

SetVirtualKey ==
  /\ Running /\ QueuesAreShort
  /\ \E key \in SettableKeys, state \in {"Up", "Down", "Not"}, elapsed \in Elapsed :
       Message(OnSetVirtualKeyState(At(elapsed), key, state))

InjectInput ==
  /\ Running /\ FewArePressed /\ QueuesAreShort
  /\ \E sequence \in InjectedSequences, elapsed \in Elapsed :
       Message(OnInjectInput(At(elapsed), sequence))

InjectOutput ==
  /\ Running /\ FewArePressed /\ QueuesAreShort
  /\ \E sequence \in InjectedSequences : Message(OnInjectOutput(server, sequence))

RequestNextKeyInfo ==
  /\ ClientAsksForKeys
  /\ Running /\ QueuesAreShort
  /\ Message(OnRequestNextKeyInfo(server))

\* Keys were released while another desktop had the focus, the client has
\* the server compare its state with the keyboard.
Validate ==
  /\ UnseenReleases /\ Running
  /\ \E down \in SUBSET pressed, elapsed \in Elapsed :
       /\ pressed' = down /\ repeating' = repeating \cap down
       /\ Becomes(OnValidateState(At(elapsed), {k[2] : k \in down}))
  /\ UNCHANGED connection

\* The connection is lost: main_loop ends, the configuration is reset, and
\* the virtual device is gone with what it held down.
Disconnect ==
  /\ Running /\ reconnected < Reconnects
  /\ reconnected' = reconnected + 1
  /\ client' = "nothing" /\ grabbed' = FALSE
  /\ pressed' = {} /\ repeating' = {}
  /\ systemDown' = {}
  /\ \E sv \in {Reset(server, << >>)} :
       /\ server' = [Delivered(sv) EXCEPT !.virtualDevice = FALSE]
       /\ sent' = sv.sent /\ told' = sv.told

Next ==
  \/ MainLoop
  \/ Configure \/ ActiveContexts \/ Grab \/ Disconnect
  \/ SetVirtualKey \/ InjectInput \/ InjectOutput \/ RequestNextKeyInfo \/ Validate

(***************************************************************************)
(* The poll of the loop returns when the timeout or the flush is due, and  *)
(* both are looked at in every iteration: weak fairness of FlushDue and of *)
(* TimeoutDue, with what enables them spelled out. A client that sent a    *)
(* configuration sends the contexts, too (ClientState::send_config).       *)
(***************************************************************************)
Fairness ==
  /\ []<>(~server.flush \/ ~Running) \/ []<><<FlushDue>>_vars
  /\ []<>(~TimeoutPending(server) \/ ~Running) \/ []<><<TimeoutDue>>_vars
  /\ []<>(client # "configuration" \/ server.exit) \/ []<><<ActiveContexts>>_vars

Spec == Init /\ [][Next]_vars /\ Fairness

=============================================================================
