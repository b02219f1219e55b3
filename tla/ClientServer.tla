---------------------------- MODULE ClientServer ----------------------------
(***************************************************************************)
(* The client of a user session and the server as they see each other: the *)
(* client (src/src/client/ClientState.cpp) sends the configuration, the    *)
(* contexts that are active in the focused window and the virtual keys     *)
(* keymapperctl sets; the server (src/src/server/ServerState.cpp) tells it *)
(* which virtual keys changed and which actions were triggered. Messages   *)
(* arrive in order and are lost with the connection. Each end notices in   *)
(* its own time that the other one is gone.                                *)
(*                                                                         *)
(* What the server does with keys is Stage's part. Here it is two events:  *)
(* a virtual key toggles, the key of the toggle-active context is pressed. *)
(* Contexts are indices as in the code, the toggle-active context is 0.    *)
(***************************************************************************)
EXTENDS Naturals, Sequences

CONSTANTS
  Configs,            \* contents a configuration file may have
  Windows,            \* windows that can have the focus
  VirtualKeys,
  ContextCount,       \* per configuration: how many contexts it has,
  Matching,           \*   which of them are active in which window,
  HasToggleActive,    \*   whether it has the directive toggle-active,
  Grabs,              \*   and which devices it wants to be grabbed
  MaxMessages,        \* bounds: messages on their way before nobody does more,
  MaxDrops            \*   connections lost without need

NoWindow == "none"
None     == "none"

\* The wildcard is no virtual key, but keymapperctl may set it like one.
Any          == "Any"
SettableKeys == VirtualKeys \cup {Any}

ASSUME ConfigsAreParsed ==
  /\ ContextCount \in [Configs -> Nat \ {0}]
  /\ Matching \in [Configs -> [Windows \cup {NoWindow} -> SUBSET Nat]]
  /\ HasToggleActive \in [Configs -> BOOLEAN]
  \* a context has an index, and the toggle-active one has no window filter
  /\ \A c \in Configs, w \in Windows \cup {NoWindow} :
       /\ Matching[c][w] \subseteq 0..(ContextCount[c] - 1)
       /\ HasToggleActive[c] => 0 \in Matching[c][w]

ASSUME ConstantsAreDistinct ==
  /\ None \notin Configs \cup SettableKeys /\ NoWindow \notin Windows
  /\ Any \notin VirtualKeys
  /\ MaxMessages \in Nat /\ MaxDrops \in Nat

VARIABLES
  window,             \* the window that has the focus
  config,             \* the client: its configuration,
  active,             \*   whether mappings are active at all,
  contexts,           \*   the active contexts,
  focused,            \*   the window they are for,
  fresh,              \*   whether the window is yet to be looked at,
  mirror,             \*   the virtual keys that keymapperctl is told are down,
  clientUp,           \*   and its end of the connection
  serverConfig,       \* the server: the configuration it was sent,
  serverContexts,     \*   its active contexts,
  virtualDown,        \*   the virtual keys that are down, and Any if it is,
  regrab,             \*   whether devices have to be grabbed again,
  serverUp,           \*   and its end of the connection
  toServer, toClient, \* messages on their way
  drops,              \* connections lost without need, and
  swapped             \*   whether a recent file failed to load in this one

client_vars == <<config, active, contexts, focused, fresh, mirror, clientUp>>
server_vars == <<serverConfig, serverContexts, virtualDown, regrab, serverUp>>
vars == <<window, client_vars, server_vars, toServer, toClient, drops, swapped>>

-----------------------------------------------------------------------------
(* Messages. of is what the sender had as its configuration. *)

ServerMessages ==
  {m \in [ type : {"configuration", "active_contexts", "set_virtual_key_state"},
           of : Configs, contexts : SUBSET Nat, key : SettableKeys \cup {None},
           state : {"Up", "Down", "Not"} ] :
     m.type = "set_virtual_key_state" => m.key # None}

Configuration(c) ==
  [type |-> "configuration", of |-> c, contexts |-> {}, key |-> None, state |-> "Not"]
ActiveContexts(c, indices) ==
  [type |-> "active_contexts", of |-> c, contexts |-> indices, key |-> None, state |-> "Not"]
SetVirtualKeyState(c, key, state) ==
  [type |-> "set_virtual_key_state", of |-> c, contexts |-> {}, key |-> key, state |-> state]

ClientMessages ==
  {m \in [ type : {"virtual_key_state", "execute_action"}, key : VirtualKeys \cup {None},
           state : {"Up", "Down", "Not"} ] :
     m.type = "virtual_key_state" => m.key # None /\ m.state # "Not"}

VirtualKeyState(key, state) == [type |-> "virtual_key_state", key |-> key, state |-> state]
ExecuteAction == [type |-> "execute_action", key |-> None, state |-> "Not"]

\* What is sent to nobody is lost.
SendToServer(messages) == toServer' = IF serverUp THEN toServer \o messages ELSE toServer
SendToClient(message)  == toClient' = IF clientUp THEN Append(toClient, message) ELSE toClient

\* The bound: nobody does more while that many messages are on their way.
ChannelsAreShort == Len(toServer) + Len(toClient) < MaxMessages

-----------------------------------------------------------------------------
(* The client. *)

\* clear_active_contexts: only the toggle-active context stays.
ClearedContexts(c) == IF HasToggleActive[c] THEN {0} ELSE {}

\* The window is looked at, unless mappings are not active.
LookAt(w) ==
  /\ focused' = IF active' THEN w ELSE focused
  /\ fresh'   = IF active' THEN FALSE ELSE fresh

\* Bug: the contexts are only sent when the window changes.
SentConfigAlone(c, w) == <<Configuration(c)>>

\* Bug: the contexts are sent even though mappings are not active.
SentConfigAlways(c, w) == <<Configuration(c), ActiveContexts(c, Matching[c][w])>>

\* send_config in window w. The active contexts follow when mappings are active.
SentConfig(c, w) ==
  <<Configuration(c)>> \o IF active THEN <<ActiveContexts(c, Matching[c][w])>> ELSE << >>

ContextsAfterConfig(c, w) == IF active THEN Matching[c][w] ELSE ClearedContexts(c)

\* The client connects and sends its configuration, before it starts to look
\* at the window again.
Connect ==
  /\ ~clientUp /\ ~serverUp
  /\ clientUp' = TRUE /\ serverUp' = TRUE
  /\ toServer' = SentConfig(config, focused)
  /\ contexts' = ContextsAfterConfig(config, focused)
  /\ fresh' = TRUE
  /\ swapped' = FALSE
  /\ UNCHANGED <<window, config, active, focused, mirror, serverConfig, serverContexts,
                 virtualDown, regrab, toClient, drops>>

\* The file was modified, is reloaded, or another one is set: it loads.
ChangeConfig(c) ==
  /\ clientUp /\ ChannelsAreShort
  /\ config' = c
  /\ active' = active
  /\ SendToServer(SentConfig(c, window))
  /\ contexts' = ContextsAfterConfig(c, window)
  /\ LookAt(window)
  /\ UNCHANGED <<window, mirror, clientUp, server_vars, toClient, drops, swapped>>

\* load_config swaps with a recent file before it fails to update it.
SwapRecentFile(c) ==
  /\ clientUp /\ ChannelsAreShort
  /\ config' = c
  /\ swapped' = (swapped \/ c # config)
  /\ UNCHANGED <<window, active, contexts, focused, fresh, mirror, clientUp,
                 server_vars, toServer, toClient, drops>>

\* Bug: only the first look after connecting counts.
WindowChangedOnce == fresh

WindowChanged == fresh \/ window # focused

UpdateContexts ==
  /\ clientUp /\ active
  /\ WindowChanged \/ contexts = {}
  /\ active' = active
  /\ contexts' = Matching[config][window]
  /\ LookAt(window)
  /\ IF contexts' # contexts THEN SendToServer(<<ActiveContexts(config, contexts')>>)
                             ELSE UNCHANGED toServer
  /\ UNCHANGED <<window, config, mirror, clientUp, server_vars, toClient, drops, swapped>>

Toggle ==
  /\ active' = ~active
  /\ contexts' = IF active' THEN Matching[config][window] ELSE ClearedContexts(config)
  /\ LookAt(window)
  /\ SendToServer(<<ActiveContexts(config, contexts')>>)
  /\ UNCHANGED config

\* The check box of the tray icon.
ToggleActive ==
  /\ clientUp /\ ChannelsAreShort
  /\ Toggle
  /\ UNCHANGED <<window, mirror, clientUp, server_vars, toClient, drops, swapped>>

\* keymapperctl presses, releases or toggles a virtual key, or Any.
SetVirtualKey(key, state) ==
  /\ clientUp /\ ChannelsAreShort
  /\ SendToServer(<<SetVirtualKeyState(config, key, state)>>)
  /\ UNCHANGED <<window, client_vars, server_vars, toClient, drops, swapped>>

\* Bug: each change toggles.
MirroredToggles(message) ==
  IF message.key \in mirror THEN mirror \ {message.key} ELSE mirror \cup {message.key}

Mirrored(message) ==
  IF message.state = "Down" THEN mirror \cup {message.key} ELSE mirror \ {message.key}

ReadVirtualKeyState ==
  /\ clientUp /\ toClient # << >> /\ Head(toClient).type = "virtual_key_state"
  /\ toClient' = Tail(toClient)
  /\ mirror' = Mirrored(Head(toClient))
  /\ UNCHANGED <<window, config, active, contexts, focused, fresh, clientUp,
                 server_vars, toServer, drops, swapped>>

\* The index of the action means what it does in the configuration of now.
ReadExecuteAction ==
  /\ clientUp /\ toClient # << >> /\ Head(toClient).type = "execute_action"
  /\ toClient' = Tail(toClient)
  /\ IF HasToggleActive[config] THEN Toggle
     ELSE UNCHANGED <<config, active, contexts, focused, fresh, toServer>>
  /\ UNCHANGED <<window, mirror, clientUp, server_vars, drops, swapped>>

\* Reading fails, since the server is gone.
ClientNotices ==
  /\ clientUp /\ ~serverUp
  /\ clientUp' = FALSE
  /\ mirror' = {}
  /\ toClient' = << >>
  /\ UNCHANGED <<window, config, active, contexts, focused, fresh, server_vars, toServer, drops, swapped>>

ClientRestarts(c) ==
  /\ drops < MaxDrops /\ drops' = drops + 1
  /\ clientUp' = FALSE
  /\ config' = c /\ active' = TRUE /\ contexts' = {}
  /\ focused' = NoWindow /\ fresh' = FALSE
  /\ mirror' = {}
  /\ toClient' = << >>
  /\ UNCHANGED <<window, server_vars, toServer, swapped>>

-----------------------------------------------------------------------------
(* The server. *)

\* Bug: the contexts of the last configuration stay active.
ReadConfigurationKeepsContexts ==
  /\ serverUp /\ toServer # << >> /\ Head(toServer).type = "configuration"
  /\ toServer' = Tail(toServer)
  /\ serverConfig' = Head(toServer).of
  /\ virtualDown' = {}
  /\ regrab' = regrab
  /\ UNCHANGED <<window, client_vars, serverContexts, serverUp, toClient, drops, swapped>>

ReadConfiguration ==
  /\ serverUp /\ toServer # << >> /\ Head(toServer).type = "configuration"
  /\ toServer' = Tail(toServer)
  /\ serverConfig' = Head(toServer).of
  /\ serverContexts' = {}
  /\ virtualDown' = {}
  /\ regrab' = (regrab \/ (serverConfig # None /\ Grabs[serverConfig] # Grabs[Head(toServer).of]))
  /\ UNCHANGED <<window, client_vars, serverUp, toClient, drops, swapped>>

ReadActiveContexts ==
  /\ serverUp /\ toServer # << >> /\ Head(toServer).type = "active_contexts"
  /\ toServer' = Tail(toServer)
  /\ serverContexts' = Head(toServer).contexts
  /\ UNCHANGED <<window, client_vars, serverConfig, virtualDown, regrab, serverUp,
                 toClient, drops, swapped>>

\* set_virtual_key_state: what changes is told, when it is a virtual key.
Tell(key, state) ==
  IF key \in VirtualKeys THEN SendToClient(VirtualKeyState(key, state)) ELSE UNCHANGED toClient

\* Bug: what was asked for is told, not what became of it.
PressVirtualKeyAsAsked(key) == virtualDown' = virtualDown \cup {key} /\ Tell(key, "Not")

PressVirtualKey(key)   == virtualDown' = virtualDown \cup {key} /\ Tell(key, "Down")
ReleaseVirtualKey(key) == virtualDown' = virtualDown \ {key} /\ Tell(key, "Up")

SetsVirtualKey(key, state) ==
  \/ key \notin virtualDown /\ state # "Up" /\ PressVirtualKey(key)
  \/ key \in virtualDown /\ state # "Down" /\ ReleaseVirtualKey(key)
  \/ /\ IF key \in virtualDown THEN state = "Down" ELSE state = "Up"
     /\ UNCHANGED <<virtualDown, toClient>>

ReadSetVirtualKeyState ==
  /\ serverUp /\ toServer # << >> /\ Head(toServer).type = "set_virtual_key_state"
  /\ toServer' = Tail(toServer)
  /\ SetsVirtualKey(Head(toServer).key, Head(toServer).state)
  /\ UNCHANGED <<window, client_vars, serverConfig, serverContexts, regrab, serverUp, drops, swapped>>

\* A mapping toggles a virtual key.
MappingToggles(key) ==
  /\ serverUp /\ serverConfig # None /\ ChannelsAreShort
  /\ SetsVirtualKey(key, "Not")
  /\ UNCHANGED <<window, client_vars, serverConfig, serverContexts, regrab, serverUp,
                 toServer, drops, swapped>>

\* The key of the toggle-active context is pressed.
MappingTriggersAction ==
  /\ serverUp /\ serverConfig # None /\ ChannelsAreShort
  /\ HasToggleActive[serverConfig] /\ 0 \in serverContexts
  /\ SendToClient(ExecuteAction)
  /\ UNCHANGED <<window, client_vars, server_vars, toServer, drops, swapped>>

\* main_loop ends: devices have to be grabbed again, the client is gone or
\* something failed. The server waits for the next connection.
ServerDrops ==
  /\ serverUp
  /\ IF regrab \/ ~clientUp THEN UNCHANGED drops ELSE drops < MaxDrops /\ drops' = drops + 1
  /\ serverUp' = FALSE
  /\ serverConfig' = None /\ serverContexts' = {} /\ virtualDown' = {}
  /\ regrab' = FALSE
  /\ toServer' = << >>
  /\ UNCHANGED <<window, client_vars, toClient, swapped>>

-----------------------------------------------------------------------------
FocusChanges(w) ==
  /\ ChannelsAreShort
  /\ window' = w
  /\ UNCHANGED <<client_vars, server_vars, toServer, toClient, drops, swapped>>

Init ==
  /\ window \in Windows
  /\ config \in Configs /\ active = TRUE /\ contexts = {}
  /\ focused = NoWindow /\ fresh = FALSE
  /\ mirror = {} /\ clientUp = FALSE
  /\ serverConfig = None /\ serverContexts = {} /\ virtualDown = {} /\ regrab = FALSE
  /\ serverUp = FALSE
  /\ toServer = << >> /\ toClient = << >>
  /\ drops = 0 /\ swapped = FALSE

Next ==
  \/ Connect \/ UpdateContexts \/ ToggleActive \/ ReadVirtualKeyState \/ ReadExecuteAction
  \/ ClientNotices
  \/ \E c \in Configs : ChangeConfig(c) \/ SwapRecentFile(c) \/ ClientRestarts(c)
  \/ \E key \in SettableKeys, state \in {"Up", "Down", "Not"} : SetVirtualKey(key, state)
  \/ ReadConfiguration \/ ReadActiveContexts \/ ReadSetVirtualKeyState
  \/ \E key \in VirtualKeys : MappingToggles(key)
  \/ MappingTriggersAction \/ ServerDrops
  \/ \E w \in Windows : FocusChanges(w)

\* Both loops go on, whatever people do: the client looks at the window and
\* reads every 50 milliseconds, the server reads when its socket is readable.
Fairness ==
  /\ WF_vars(Connect) /\ WF_vars(ClientNotices)
  /\ WF_vars(UpdateContexts)
  /\ WF_vars(ReadVirtualKeyState) /\ WF_vars(ReadExecuteAction)
  /\ WF_vars(ReadConfiguration) /\ WF_vars(ReadActiveContexts) /\ WF_vars(ReadSetVirtualKeyState)
  /\ WF_vars(ServerDrops /\ (regrab \/ ~clientUp))

Spec == Init /\ [][Next]_vars /\ Fairness

-----------------------------------------------------------------------------
TypeOK ==
  /\ window \in Windows
  /\ config \in Configs /\ active \in BOOLEAN /\ contexts \in SUBSET Nat
  /\ focused \in Windows \cup {NoWindow} /\ fresh \in BOOLEAN
  /\ mirror \in SUBSET VirtualKeys /\ clientUp \in BOOLEAN
  /\ serverConfig \in Configs \cup {None} /\ serverContexts \in SUBSET Nat
  /\ virtualDown \in SUBSET SettableKeys /\ regrab \in BOOLEAN /\ serverUp \in BOOLEAN
  /\ toServer \in Seq(ServerMessages) /\ toClient \in Seq(ClientMessages)
  /\ drops \in Nat /\ swapped \in BOOLEAN

\* The contexts that are active on the server are contexts of the
\* configuration it has, although a configuration and the contexts of the
\* next one, or of the last one, may be on their way (send_config,
\* reset_configuration) - as long as no recent file fails to load again.
ContextsFit ==
  ~swapped /\ serverContexts # {} =>
    serverConfig # None /\ serverContexts \subseteq 0..(ContextCount[serverConfig] - 1)

\* A virtual key that is down on the server is down for keymapperctl, too,
\* when all that was sent is read (send_virtual_key_state, ControlPort).
DownIsToldOf(key) ==
  \/ \E i \in DOMAIN toClient :
       /\ toClient[i] = VirtualKeyState(key, "Down")
       /\ \A j \in (i + 1)..Len(toClient) : toClient[j] # VirtualKeyState(key, "Up")
  \/ key \in mirror /\ \A j \in 1..Len(toClient) : toClient[j] # VirtualKeyState(key, "Up")
NoDownIsLost == clientUp => \A key \in virtualDown \ {Any} : DownIsToldOf(key)

\* Once the server read everything, its contexts are those of the client,
\* unless mappings are not active (send_config, toggle_active).
ContextsAgree == clientUp /\ serverUp /\ active /\ toServer = << >> => serverContexts = contexts

\* While mappings are not active, no context but toggle-active is.
InactiveMeansNoMappings ==
  clientUp /\ serverUp /\ ~active /\ toServer = << >> => serverContexts \subseteq {0}

\* The contexts of the focused window become active on the server, as long as
\* neither the window nor anything else changes (update_active_contexts).
WindowIsFollowed ==
  \A c \in Configs, w \in Windows :
    config = c /\ window = w /\ active /\ clientUp /\ serverUp /\ ~swapped ~>
      \/ serverConfig = c /\ serverContexts = Matching[c][w]
      \/ config # c \/ window # w \/ ~active \/ ~clientUp \/ ~serverUp \/ swapped

=============================================================================
