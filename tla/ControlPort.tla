---------------------------- MODULE ControlPort ----------------------------
(***************************************************************************)
(* The port of the client that keymapperctl connects to                    *)
(* (src/src/client/ControlPort.cpp), on top of the client and the server   *)
(* of ClientServer: it answers from the client's copy of the virtual keys  *)
(* (mirror), passes on what is to be set and notifies whoever waits.       *)
(*                                                                         *)
(* Each process of keymapperctl has at most one control here. A message    *)
(* carries whether its sender has asked for something else since (old);    *)
(* the code does not send it, only properties read it.                     *)
(***************************************************************************)
EXTENDS ClientServer

CONSTANTS
  Processes,          \* processes of keymapperctl, each with a connection
  Names,              \* what they call a key: names of keys and aliases,
  Denotes,            \*   the virtual key it is, by configuration,
  OtherKeys,          \*   and names of keys that are not virtual
  Toggles,            \* virtual keys that mappings of a configuration toggle
  InstanceIds

ASSUME NamesDenoteKeys ==
  /\ Denotes \in [Configs \cup {None} -> [Names -> SettableKeys \cup {None}]]
  /\ None \notin InstanceIds
  /\ Toggles \in [Configs -> SUBSET VirtualKeys]
  /\ OtherKeys \subseteq Names /\ \A c \in Configs, n \in OtherKeys : Denotes[c][n] = None

VARIABLES
  aliases,            \* the configuration the aliases are of
  controls,           \* the connections (m_controls)
  toPort, toControl,  \* messages on their way from and to each process
  nextKeyRequested    \* the server is to send the next keys

port_vars == <<aliases, controls, toPort, toControl, nextKeyRequested>>

\* A control and what it requested. Its instance id is None unless it is set.
NoControl  == [id |-> None, awaits |-> None, awaitsOld |-> FALSE, asksKey |-> FALSE, open |-> FALSE]
NewControl == [NoControl EXCEPT !.open = TRUE]

Connected(p) == controls[p].open

Requests ==
  [ type : {"get_virtual_key_state", "set_key_state", "request_virtual_key_toggle_notification",
            "set_instance_id", "set_config_file", "next_key_info", "inject"},
    name : Names \cup InstanceIds \cup Configs \cup {None}, state : {"Up", "Down", "Not"},
    old : BOOLEAN ]

Replies == [ type : {"virtual_key_state", "next_key_info"}, state : {"Up", "Down", "Not"},
             old : BOOLEAN ]

VirtualKeyStateReply(state, old) == [type |-> "virtual_key_state", state |-> state, old |-> old]
NextKeyInfoReply == [type |-> "next_key_info", state |-> "Not", old |-> FALSE]

\* get_virtual_key: a virtual key or Any, by its name or by an alias.
GetVirtualKey(name) == Denotes[aliases][name]

\* get_virtual_key_state, in the client's copy.
KeyStateIn(copy, key) ==
  IF key \notin VirtualKeys THEN "Not" ELSE IF key \in copy THEN "Down" ELSE "Up"

-----------------------------------------------------------------------------
(* Virtual keys change. *)

\* Bug: everybody who waits is notified, whatever key they wait for.
AwaitsAnything(p, key) == Connected(p) /\ controls[p].awaits # None

Awaits(p, key) == Connected(p) /\ controls[p].awaits \in {key, Any}

\* Bug: who was notified goes on waiting.
NotifyControlsAgain(key) ==
  /\ toControl' = [p \in Processes |->
       IF Awaits(p, key)
       THEN Append(toControl[p], VirtualKeyStateReply(KeyStateIn(mirror', key), controls[p].awaitsOld))
       ELSE toControl[p]]
  /\ UNCHANGED <<aliases, controls, toPort, nextKeyRequested>>

\* on_virtual_key_state_changed: send_virtual_key_toggle_notification.
NotifyControls(key) ==
  /\ controls' = [p \in Processes |->
       IF Awaits(p, key) THEN [controls[p] EXCEPT !.awaits = None, !.awaitsOld = FALSE] ELSE controls[p]]
  /\ toControl' = [p \in Processes |->
       IF Awaits(p, key)
       THEN Append(toControl[p], VirtualKeyStateReply(KeyStateIn(mirror', key), controls[p].awaitsOld))
       ELSE toControl[p]]
  /\ UNCHANGED <<aliases, toPort, nextKeyRequested>>

MirrorVirtualKeyState ==
  /\ ReadVirtualKeyState
  /\ NotifyControls(Head(toClient).key)

\* on_next_key_info_message: whoever asked is told, else it is shown.
ReadNextKeyInfo ==
  /\ clientUp /\ serverUp /\ nextKeyRequested
  /\ nextKeyRequested' = FALSE
  /\ controls' = [p \in Processes |-> [controls[p] EXCEPT !.asksKey = FALSE]]
  /\ toControl' = [p \in Processes |->
       IF controls[p].asksKey THEN Append(toControl[p], NextKeyInfoReply) ELSE toControl[p]]
  /\ UNCHANGED <<vars, aliases, toPort>>

-----------------------------------------------------------------------------
(* read_messages: one message of a control. *)

Received(p, type) ==
  /\ clientUp /\ Connected(p)
  /\ toPort[p] # << >> /\ Head(toPort[p]).type = type

\* The message is read, and answered with a state.
Reply(p, state) ==
  /\ toPort' = [toPort EXCEPT ![p] = Tail(@)]
  /\ toControl' = [toControl EXCEPT ![p] =
       Append(@, VirtualKeyStateReply(state, Head(toPort[p]).old))]

\* Bug: what fails is not answered.
ReplySuccess(p, success) ==
  IF success THEN Reply(p, "Up")
  ELSE toPort' = [toPort EXCEPT ![p] = Tail(@)] /\ UNCHANGED toControl

\* send_result: success is Up.
ReplyResult(p, success) == Reply(p, IF success THEN "Up" ELSE "Not")

GetVirtualKeyState(p) ==
  /\ Received(p, "get_virtual_key_state")
  /\ Reply(p, KeyStateIn(mirror, GetVirtualKey(Head(toPort[p]).name)))
  /\ UNCHANGED <<vars, aliases, controls, nextKeyRequested>>

\* The server is told, the reply is the state that is not changed yet. So it is
\* with Any, which has no state. Another key that is not virtual is output.
SetKeyState(p) ==
  /\ Received(p, "set_key_state")
  /\ LET request == Head(toPort[p])
         key == GetVirtualKey(request.name)
     IN \/ /\ key \in SettableKeys
           /\ SendToServer(<<SetVirtualKeyState(config, key, request.state)>>)
           /\ UNCHANGED <<window, client_vars, server_vars, toClient, drops, swapped>>
           /\ Reply(p, KeyStateIn(mirror, key))
        \/ /\ key = None
           /\ ReplyResult(p, request.name \in OtherKeys /\ serverUp)
           /\ UNCHANGED vars
  /\ UNCHANGED <<aliases, controls, nextKeyRequested>>

\* on_virtual_key_toggle_notification_requested: there is one request at a
\* time, and nothing to wait for when no virtual key has that name.
RequestToggleNotification(p) ==
  /\ Received(p, "request_virtual_key_toggle_notification")
  /\ LET key == GetVirtualKey(Head(toPort[p]).name)
     IN \/ /\ key # None
           /\ controls' = [controls EXCEPT ![p].awaits = key, ![p].awaitsOld = Head(toPort[p]).old]
           /\ toPort' = [toPort EXCEPT ![p] = Tail(@)]
           /\ UNCHANGED toControl
        \/ key = None /\ Reply(p, "Not") /\ UNCHANGED controls
  /\ UNCHANGED <<vars, aliases, nextKeyRequested>>

\* disconnect_by_instance_id closes the connections with that id.
Owners(id) == {p \in Processes : Connected(p) /\ controls[p].id = id}

\* Bug: the old owner stays connected.
OwnedBy(p, id) == [controls EXCEPT ![p].id = id]

\* on_set_instance_id: the others that have it lose their connection.
TakenOver(p, id) ==
  [q \in Processes |-> IF q = p THEN [controls[p] EXCEPT !.id = id]
                       ELSE IF q \in Owners(id) THEN NoControl ELSE controls[q]]

SetInstanceId(p) ==
  /\ Received(p, "set_instance_id")
  /\ LET id == Head(toPort[p]).name
     IN /\ controls' = IF controls[p].id # id THEN TakenOver(p, id) ELSE controls
        /\ toPort' = [q \in Processes |-> IF controls'[q].open THEN IF q = p THEN Tail(toPort[p])
                                                                   ELSE toPort[q]
                                          ELSE << >>]
        /\ toControl' = [toControl EXCEPT ![p] =
                           Append(@, VirtualKeyStateReply("Up", Head(toPort[p]).old))]
  /\ UNCHANGED <<vars, aliases, nextKeyRequested>>

\* on_set_config_file_message. The aliases follow when the configuration is sent.
SetConfigFile(p) ==
  /\ Received(p, "set_config_file")
  /\ LET c == Head(toPort[p]).name
     IN \/ /\ ChangeConfig(c)
           /\ aliases' = IF serverUp THEN c ELSE aliases
           /\ ReplyResult(p, serverUp)
        \/ /\ UNCHANGED vars \/ SwapRecentFile(c)     \* it cannot be loaded
           /\ ReplyResult(p, FALSE)
           /\ UNCHANGED aliases
  /\ UNCHANGED <<controls, nextKeyRequested>>

RequestNextKeyInfo(p) ==
  /\ Received(p, "next_key_info")
  /\ controls' = [controls EXCEPT ![p].asksKey = TRUE]
  /\ nextKeyRequested' = (nextKeyRequested \/ serverUp)
  /\ toPort' = [toPort EXCEPT ![p] = Tail(@)]
  /\ UNCHANGED <<vars, aliases, toControl>>

\* on_inject_input_message and on_inject_output_message report whether the
\* expression could be parsed and passed on.
Inject(p) ==
  /\ Received(p, "inject")
  /\ \E isValid \in BOOLEAN : ReplyResult(p, isValid /\ serverUp)
  /\ UNCHANGED <<vars, aliases, controls, nextKeyRequested>>

ReadMessage(p) ==
  \/ GetVirtualKeyState(p) \/ SetKeyState(p) \/ RequestToggleNotification(p)
  \/ SetInstanceId(p) \/ SetConfigFile(p) \/ RequestNextKeyInfo(p) \/ Inject(p)

\* Reading fails, since the process is gone; what was not read yet is lost.
Erase(p) ==
  /\ clientUp /\ Connected(p)
  /\ controls' = [controls EXCEPT ![p] = NoControl]
  /\ toPort' = [toPort EXCEPT ![p] = << >>]
  /\ UNCHANGED <<vars, aliases, toControl, nextKeyRequested>>

-----------------------------------------------------------------------------
(* Around the port. *)

\* reset, when the server is gone: all controls are closed.
Reset ==
  /\ aliases' = None
  /\ controls' = [p \in Processes |-> NoControl]
  /\ toPort' = [p \in Processes |-> << >>]
  /\ UNCHANGED <<toControl, nextKeyRequested>>

\* What client and server do without keymapperctl. The focused window and the
\* toggle-active context do not take part here, and for the port a client that
\* starts again is one that loses the server.
PortReset == ClientNotices /\ Reset

ConnectServer ==
  /\ Connect
  /\ aliases' = config
  /\ UNCHANGED <<controls, toPort, toControl, nextKeyRequested>>

ServerActs ==
  /\ \/ ReadConfiguration \/ ReadActiveContexts \/ ReadSetVirtualKeyState
     \/ serverConfig # None /\ \E key \in Toggles[serverConfig] : MappingToggles(key)
     \/ ServerDrops
  /\ nextKeyRequested' \in IF serverUp' THEN {nextKeyRequested} ELSE {FALSE, nextKeyRequested}
  /\ UNCHANGED <<aliases, controls, toPort, toControl>>

PortInit ==
  /\ Init
  /\ aliases = None
  /\ controls = [p \in Processes |-> NoControl]
  /\ toPort = [p \in Processes |-> << >>] /\ toControl = [p \in Processes |-> << >>]
  /\ nextKeyRequested = FALSE

PortTypeOK ==
  /\ TypeOK
  /\ aliases \in Configs \cup {None}
  /\ controls \in [Processes ->
       [id : InstanceIds \cup {None}, awaits : SettableKeys \cup {None},
        awaitsOld : BOOLEAN, asksKey : BOOLEAN, open : BOOLEAN]]
  /\ toPort \in [Processes -> Seq(Requests)] /\ toControl \in [Processes -> Seq(Replies)]
  /\ nextKeyRequested \in BOOLEAN

=============================================================================
