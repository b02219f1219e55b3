---------------------------- MODULE Keymapperctl ----------------------------
(***************************************************************************)
(* The processes of keymapperctl (src/src/control/main.cpp and             *)
(* ClientPort.cpp), each of which makes the requests of its command line   *)
(* one after the other to the port of the client and reads its answers,    *)
(* and the system they are part of.                                        *)
(*                                                                         *)
(* A message is sent in two parts, its size and the rest. A process reads  *)
(* what has arrived when it wakes up: any number of messages, and maybe    *)
(* the size of the next one (Connection.h, read_messages). Messages that   *)
(* are more than it asked for stay where they are, or are taken for the    *)
(* answer of something else.                                               *)
(***************************************************************************)
EXTENDS ControlPort

CONSTANTS
  CommandLines,       \* for each process, rows of requests: [op, name, timed]
  MaxLines,           \* bounds: lines that type_stdin reads,
  MaxUnread           \*   and messages not read yet when a process starts over

VARIABLES
  phase,              \* of a process: off, idle, reading an answer, waiting, ended,
  commands,           \*   its command line,
  at,                 \*   the request it is at,
  result,             \*   the result of it,
  instance,           \*   the instance id it has set (g_instance_id),
  inBuffer,           \*   and the parts of messages in its read buffer
  gaveUp,             \* whether it did not wait for an answer it will get,
  mistaken,           \*   takes an answer that is for something else,
  seen,               \*   the states of the key since the request was made,
  closed              \*   and why its connection is closed

ctl_vars == <<phase, commands, at, result, instance, inBuffer>>
ghost_vars == <<gaveUp, mistaken, closed>>
control_vars == <<vars, port_vars, ctl_vars, ghost_vars, seen>>

KeyOps   == {"press", "release", "toggle", "is_pressed", "is_released"}
WaitOps  == {"wait_pressed", "wait_released", "wait_toggled"}
OtherOps == {"next_key_info", "inject", "type_stdin", "restart"}

\* The requests of a command line, and restart, which goes back to the first.
CommandRequests ==
  LET Requested(ops, names) == [op : ops, name : names, timed : BOOLEAN]
  IN  Requested(KeyOps \cup WaitOps, Names) \cup Requested(OtherOps, {None})
        \cup Requested({"set_instance_id"}, InstanceIds) \cup Requested({"set_config_file"}, Configs)

ASSUME CommandLinesAreRequests ==
  /\ MaxLines \in Nat /\ MaxUnread \in Nat
  /\ CommandLines \subseteq [Processes -> Seq(CommandRequests)]

Request(p) == commands[p][at[p]]

Busy(p) == phase[p] \in {"reading", "waiting"}

-----------------------------------------------------------------------------
(* make_request sends a message, *)

Message(type, name, state) == [type |-> type, name |-> name, state |-> state, old |-> FALSE]

\* type_stdin sends one for each line that it reads, and reads one answer.
MessagesOf(r, lines) ==
  CASE r.op = "press"      -> << Message("set_key_state", r.name, "Down") >>
    [] r.op = "release"    -> << Message("set_key_state", r.name, "Up") >>
    [] r.op = "toggle"     -> << Message("set_key_state", r.name, "Not") >>
    [] r.op \in {"is_pressed", "is_released"} \cup WaitOps
                           -> << Message("get_virtual_key_state", r.name, "Not") >>
    [] r.op = "type_stdin" -> [i \in 1..lines |-> Message("inject", None, "Not")]
    [] OTHER               -> << Message(r.op, r.name, "Not") >>

Outdated(messages) == [i \in DOMAIN messages |-> [messages[i] EXCEPT !.old = TRUE]]

\* What was sent before and is not answered yet is for something else.
Send(p, messages) ==
  /\ toPort' = [toPort EXCEPT ![p] = Outdated(@) \o messages]
  /\ toControl' = [toControl EXCEPT ![p] = Outdated(@)]
  /\ controls' = [controls EXCEPT ![p].awaitsOld = (controls[p].awaits # None)]
  /\ UNCHANGED <<aliases, nextKeyRequested>>

MakeRequest(p, lines) ==
  /\ phase[p] = "idle" /\ at[p] <= Len(commands[p]) /\ Request(p).op # "restart"
  /\ mistaken' = [mistaken EXCEPT ![p] = FALSE]
  /\ \/ /\ Connected(p)
        /\ Send(p, MessagesOf(Request(p), lines))
        /\ phase' = [phase EXCEPT ![p] = "reading"]
        /\ gaveUp' = [gaveUp EXCEPT ![p] = @ \/ Request(p).op = "type_stdin"]
        /\ instance' = IF Request(p).op = "set_instance_id"
                       THEN [instance EXCEPT ![p] = Request(p).name] ELSE instance
        /\ UNCHANGED <<at, result>>
     \/ /\ ~Connected(p)
        /\ at' = [at EXCEPT ![p] = @ + 1]
        /\ result' = [result EXCEPT ![p] = "connection_failed"]
        /\ UNCHANGED <<port_vars, phase, gaveUp, instance>>
  /\ UNCHANGED <<vars, commands, inBuffer, closed>>

MakesRequest(p) ==
  \E lines \in IF at[p] \in DOMAIN commands[p] /\ Request(p).op = "type_stdin"
                THEN 0..MaxLines ELSE {1} : MakeRequest(p, lines)

-----------------------------------------------------------------------------
(* reads an answer, *)

\* read_virtual_key_state and read_next_key_info do not consume other messages.
AnswerType(p) ==
  IF Request(p).op = "next_key_info" THEN "next_key_info" ELSE "virtual_key_state"

Finish(p, res) ==
  /\ phase' = [phase EXCEPT ![p] = "idle"]
  /\ result' = [result EXCEPT ![p] = res]
  /\ at' = [at EXCEPT ![p] = @ + 1]

\* make_request: what an answer means.
ResultOf(op, state) ==
  CASE op \in {"press", "release", "toggle"} -> IF state # "Not" THEN "yes" ELSE "key_not_found"
    [] op = "is_pressed"  -> [Down |-> "yes", Up |-> "no", Not |-> "key_not_found"][state]
    [] op = "is_released" -> [Down |-> "no", Up |-> "yes", Not |-> "key_not_found"][state]
    [] op \in {"set_config_file", "inject", "type_stdin"} -> IF state = "Down" THEN "yes" ELSE "no"
    [] OTHER -> "yes"

\* wait_pressed and wait_released are done when the key is in that state,
\* else it has to be toggled.
IsDone(op, state) ==
  \/ op = "wait_pressed" /\ state = "Down"
  \/ op = "wait_released" /\ state = "Up"
  \/ op \notin WaitOps

Proceed(p, answer) ==
  IF phase[p] = "reading" /\ ~IsDone(Request(p).op, answer.state)
  THEN /\ toPort' = [toPort EXCEPT ![p] = Outdated(@) \o
            << Message("request_virtual_key_toggle_notification", Request(p).name, "Not") >>]
       /\ controls' = [controls EXCEPT ![p].awaitsOld = (controls[p].awaits # None)]
       /\ phase' = [phase EXCEPT ![p] = "waiting"]
       /\ UNCHANGED <<at, result>>
  ELSE /\ Finish(p, ResultOf(Request(p).op, answer.state))
       /\ UNCHANGED <<toPort, controls>>

\* read_messages, when the first parts of what is on its way have arrived:
\* the last message of those that are complete is the answer. One of another
\* type is not consumed, the buffer stays as it is. Nothing new arrives
\* when the time is up.
Read(p, parts) ==
  /\ Busy(p) /\ Connected(p)
  /\ parts > inBuffer[p] \/ Request(p).timed
  /\ LET complete == parts \div 2
     IN \/ /\ \E i \in 1..complete : toControl[p][i].type # AnswerType(p)
           /\ Finish(p, "connection_failed")
           /\ inBuffer' = [inBuffer EXCEPT ![p] = parts]
           /\ gaveUp' = [gaveUp EXCEPT ![p] = TRUE]
           /\ UNCHANGED <<toControl, toPort, controls, mistaken>>
        \/ /\ complete = 0
           /\ Finish(p, "timeout")
           /\ inBuffer' = [inBuffer EXCEPT ![p] = parts]
           /\ gaveUp' = [gaveUp EXCEPT ![p] = TRUE]
           /\ UNCHANGED <<toControl, toPort, controls, mistaken>>
        \/ /\ complete > 0 /\ \A i \in 1..complete : toControl[p][i].type = AnswerType(p)
           /\ Proceed(p, toControl[p][complete])
           /\ toControl' = [toControl EXCEPT ![p] =
                SubSeq(IF phase'[p] = "waiting" THEN Outdated(@) ELSE @, complete + 1, Len(@))]
           /\ inBuffer' = [inBuffer EXCEPT ![p] = parts % 2]
           /\ mistaken' = [mistaken EXCEPT ![p] = @ \/ toControl[p][complete].old]
           /\ UNCHANGED gaveUp
  /\ UNCHANGED <<vars, aliases, nextKeyRequested, commands, instance, closed>>

ReadSome(p) == \E parts \in inBuffer[p]..(2 * Len(toControl[p])) : Read(p, parts)

\* The client closed the connection.
ReadFails(p) ==
  /\ Busy(p) /\ ~Connected(p)
  /\ Finish(p, "connection_failed")
  /\ UNCHANGED <<vars, port_vars, commands, instance, inBuffer, ghost_vars>>

-----------------------------------------------------------------------------
(* and the process goes on, starts over or ends. *)

\* Both ends of a new connection.
Opened(p) ==
  /\ controls' = [controls EXCEPT ![p] = NewControl]
  /\ toPort' = [toPort EXCEPT ![p] = << >>]
  /\ toControl' = [toControl EXCEPT ![p] = << >>]
  /\ inBuffer' = [inBuffer EXCEPT ![p] = 0]
  /\ gaveUp' = [gaveUp EXCEPT ![p] = FALSE]
  /\ mistaken' = [mistaken EXCEPT ![p] = FALSE]
  /\ closed' = [closed EXCEPT ![p] = IF @ = "replaced" THEN @ ELSE "no"]
  /\ UNCHANGED <<vars, aliases, nextKeyRequested>>

\* A process starts and connects.
Start(p) ==
  /\ phase[p] = "off" /\ clientUp
  /\ Opened(p)
  /\ phase' = [phase EXCEPT ![p] = "idle"]
  /\ UNCHANGED <<commands, at, result, instance>>

\* Bug: it always connects again.
ReconnectsAlways(p) == TRUE

\* "do not automatically reconnect when the lifetime is managed by instance_id"
Reconnects(p) == instance[p] = None

AtRestart(p) == phase[p] = "idle" /\ at[p] \in DOMAIN commands[p] /\ Request(p).op = "restart"

\* restart, and connect again when the connection failed.
Restart(p) ==
  /\ AtRestart(p) /\ Len(toPort[p]) + Len(toControl[p]) <= MaxUnread
  /\ \/ /\ result[p] = "connection_failed" /\ Reconnects(p) /\ clientUp
        /\ Opened(p)
        /\ result' = [result EXCEPT ![p] = "yes"]
     \/ /\ result[p] # "connection_failed"
        /\ UNCHANGED <<vars, port_vars, result, inBuffer, ghost_vars>>
  /\ at' = [at EXCEPT ![p] = 1]
  /\ UNCHANGED <<phase, commands, instance>>

\* The process is through with its command line, or is interrupted.
End(p) ==
  /\ phase[p] \notin {"off", "ended"}
  /\ phase' = [phase EXCEPT ![p] = "ended"]
  /\ at' = [at EXCEPT ![p] = 1]
  /\ toControl' = [toControl EXCEPT ![p] = << >>] /\ inBuffer' = [inBuffer EXCEPT ![p] = 0]
  /\ result' = [result EXCEPT ![p] = "yes"] /\ instance' = [instance EXCEPT ![p] = None]
  /\ gaveUp' = [gaveUp EXCEPT ![p] = FALSE] /\ mistaken' = [mistaken EXCEPT ![p] = FALSE]
  /\ closed' = [closed EXCEPT ![p] = "no"]
  /\ UNCHANGED <<vars, aliases, controls, toPort, nextKeyRequested, commands>>

-----------------------------------------------------------------------------
(* The whole. *)

\* The client handles the message of a process, which may close others.
PortReads(p) ==
  /\ ReadMessage(p)
  /\ closed' = [q \in Processes |-> IF Connected(q) /\ ~controls'[q].open /\ q # p /\ phase[q] # "ended"
                                    THEN "replaced" ELSE closed[q]]
  /\ UNCHANGED <<ctl_vars, gaveUp, mistaken>>

PortErases(p) == phase[p] = "ended" /\ Erase(p) /\ UNCHANGED <<ctl_vars, ghost_vars>>

ClientLosesServer ==
  /\ PortReset
  /\ closed' = [p \in Processes |-> IF Connected(p) /\ phase[p] # "ended" THEN "reset" ELSE closed[p]]
  /\ UNCHANGED <<ctl_vars, gaveUp, mistaken>>

Around ==
  /\ ConnectServer \/ ServerActs \/ MirrorVirtualKeyState \/ ReadNextKeyInfo
  /\ UNCHANGED <<ctl_vars, ghost_vars>>

\* The keys a request is about: the one its name is, and the one it waits for,
\* which had that name.
KeysOf(p) ==
  {GetVirtualKey(Request(p).name)} \cup IF controls[p].awaits = None THEN {} ELSE {controls[p].awaits}

\* The next thing the client reads is that a key was pressed which it still
\* has as pressed: the server has released it and not told (reset_configuration).
PressedAgain(key) ==
  key \in mirror /\ toClient # << >> /\ Head(toClient) = VirtualKeyState(key, "Down")

\* The states of the keys of a request, in the client's copy.
StatesOf(p) ==
  {KeyStateIn(mirror, key) : key \in KeysOf(p)}
    \cup IF \E key \in KeysOf(p) : PressedAgain(key) THEN {"Again"} ELSE {}

\* A key that was waited for and is told of is seen as it is now.
Notified(p) ==
  IF controls[p].awaits = None THEN {} ELSE {KeyStateIn(mirror', controls[p].awaits)}

Observe ==
  seen' = [p \in Processes |->
    IF ~Busy(p)' \/ gaveUp'[p] \/ Request(p)'.op \notin KeyOps \cup WaitOps THEN {}
    ELSE StatesOf(p)' \cup IF Busy(p) THEN seen[p] \cup Notified(p) ELSE {}]

ControlInit ==
  /\ PortInit
  /\ phase = [p \in Processes |-> "off"]
  /\ commands \in CommandLines /\ at = [p \in Processes |-> 1]
  /\ result = [p \in Processes |-> "yes"]
  /\ instance = [p \in Processes |-> None]
  /\ inBuffer = [p \in Processes |-> 0]
  /\ gaveUp = [p \in Processes |-> FALSE] /\ mistaken = [p \in Processes |-> FALSE]
  /\ seen = [p \in Processes |-> {}]
  /\ closed = [p \in Processes |-> "no"]

ControlStep ==
  \/ Around
  \/ ClientLosesServer
  \/ \E p \in Processes :
       \/ PortReads(p) \/ PortErases(p)
       \/ Start(p) \/ MakesRequest(p) \/ Restart(p) \/ End(p)
       \/ ReadSome(p) \/ ReadFails(p)

ControlNext == ControlStep /\ Observe

\* The client reads what a process sent in each round of its loop; a process
\* reads what arrives or finds its connection closed.
ControlFairness ==
  \A p \in Processes :
    WF_control_vars((PortReads(p) \/ ReadSome(p) \/ ReadFails(p)) /\ Observe)

ControlSpec == ControlInit /\ [][ControlNext]_control_vars /\ ControlFairness

-----------------------------------------------------------------------------
ControlTypeOK ==
  /\ PortTypeOK
  /\ phase \in [Processes -> {"off", "idle", "reading", "waiting", "ended"}]
  /\ commands \in CommandLines
  /\ DOMAIN at = Processes /\ \A p \in Processes : at[p] \in 1..(Len(commands[p]) + 1)
  /\ result \in [Processes -> {"yes", "no", "connection_failed", "timeout", "key_not_found"}]
  /\ instance \in [Processes -> InstanceIds \cup {None}]
  /\ inBuffer \in [Processes -> Nat]
  /\ gaveUp \in [Processes -> BOOLEAN] /\ mistaken \in [Processes -> BOOLEAN]
  /\ seen \in [Processes -> SUBSET {"Up", "Down", "Not", "Again"}]
  /\ closed \in [Processes -> {"no", "replaced", "reset"}]

\* An answer is taken for the request it is for, as long as the process waited
\* for all its answers (make_request, read_virtual_key_state): nothing is
\* answered twice, and nothing that is read as an answer is something else.
AnswersMatch == \A p \in Processes : mistaken[p] => gaveUp[p]

\* The states that make a yes true, of each kind of request: it takes all of
\* one of these sets. A name that is no key (any more) is not waited for. A key
\* that is pressed again was toggled: it had been released and nobody told.
Witnesses(op) ==
  CASE op = "is_pressed"    -> {{"Down"}}
    [] op = "is_released"   -> {{"Up"}}
    [] op = "wait_pressed"  -> {{"Down"}, {"Not"}}
    [] op = "wait_released" -> {{"Up"}, {"Not"}}
    [] op = "wait_toggled"  -> {{"Up", "Down"}, {"Not"}, {"Again"}}
    [] OTHER                -> {{}}

SaysYes(p) == Busy(p) /\ phase'[p] = "idle" /\ result'[p] = "yes" /\ ~gaveUp[p]
WasSeen(p) == \E states \in Witnesses(Request(p).op) : states \subseteq seen[p]

\* Who waits for a key to be released was told that it is pressed again.
IsMisinformed(p) == Request(p).op = "wait_released" /\ "Again" \in seen[p]

\* What a process says of a key was true at some time since it was asked
\* (is_pressed, wait_pressed, ...), although keys change, aliases are
\* redefined and others are notified meanwhile. The one exception is a
\* process that IsMisinformed, of which WaitsUntilReleased tells.
AnswersAreTrue ==
  [][\A p \in Processes : SaysYes(p) /\ ~IsMisinformed(p) => WasSeen(p)]_control_vars

\* "--wait-released <key> waits until a virtual key is released" (README.md):
\* what the code does not do when the server forgot that the key is down
\* (reset_configuration) and it is pressed again.
WaitsUntilReleased ==
  [][\A p \in Processes :
       SaysYes(p) /\ Request(p).op = "wait_released" => WasSeen(p)]_control_vars

\* An instance id has one owner (disconnect_by_instance_id).
OneOwner ==
  \A p, q \in Processes :
    Connected(p) /\ Connected(q) /\ controls[p].id = controls[q].id /\ p # q =>
      controls[p].id = None

\* A process that was replaced never connects again, or two of them would
\* replace each other forever; and only others replace it (on_set_instance_id,
\* g_instance_id).
ReplacedForGood ==
  \A p \in Processes :
    /\ closed[p] = "replaced" => ~Connected(p)
    /\ phase[p] \notin {"off", "ended"} /\ ~Connected(p) => closed[p] # "no"

\* Whatever was asked for is answered, or the connection fails, but for what
\* waits for somebody else, or for the answer to no line at all (read_messages
\* of both ends).
RequestsEnd ==
  \A p \in Processes :
    phase[p] = "reading" /\ Request(p).op \notin {"next_key_info", "type_stdin"} ~> phase[p] # "reading"

=============================================================================
