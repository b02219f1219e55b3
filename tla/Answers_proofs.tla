--------------------------- MODULE Answers_proofs ---------------------------
(***************************************************************************)
(* The answers keymapperctl gets are for what it asked, and true, for any  *)
(* processes, command lines and configurations. What makes this inductive  *)
(* is where the one answer is that a process waits for: it has sent the    *)
(* request, or the port waits for a virtual key or the next key on its     *)
(* behalf, or the answer is on its way - and what was seen of the key by   *)
(* then makes the answer true.                                             *)
(*                                                                         *)
(* The client and the server below take steps of ClientServer, so that     *)
(* what holds for them holds with keymapperctl, too.                       *)
(***************************************************************************)
EXTENDS Keymapperctl_proofs, ClientServer_proofs

\* The message that asks for what the process waits for.
Pending(p) ==
  IF phase[p] = "waiting"
  THEN Message("request_virtual_key_toggle_notification", Request(p).name, "Not")
  ELSE MessagesOf(Request(p), 1)[1]

NothingAwaited(p) == controls[p].awaits = None /\ ~controls[p].asksKey

IsQuiet(p) == toPort[p] = << >> /\ toControl[p] = << >> /\ NothingAwaited(p)

IsSent(p) == toPort[p] = <<Pending(p)>> /\ toControl[p] = << >> /\ NothingAwaited(p)

IsAwaited(p) ==
  /\ phase[p] = "waiting" /\ toPort[p] = << >> /\ toControl[p] = << >>
  /\ controls[p].awaits # None /\ ~controls[p].awaitsOld /\ ~controls[p].asksKey

IsAsked(p) ==
  /\ phase[p] = "reading" /\ Request(p).op = "next_key_info"
  /\ toPort[p] = << >> /\ toControl[p] = << >>
  /\ controls[p].awaits = None /\ controls[p].asksKey

IsAnswered(p) ==
  /\ toPort[p] = << >> /\ NothingAwaited(p)
  /\ Len(toControl[p]) = 1 /\ ~toControl[p][1].old

\* There is one answer for what a process asked, as long as it waited for all.
OneAnswer(p) ==
  Connected(p) /\ ~gaveUp[p] =>
    /\ phase[p] = "idle" => IsQuiet(p)
    /\ Busy(p) => IsSent(p) \/ IsAwaited(p) \/ IsAsked(p) \/ IsAnswered(p)

WaitsForKey(p) == phase[p] = "waiting" => Request(p).op \in WaitOps

AnswersInv ==
  \A p \in Processes : OneAnswer(p) /\ WaitsForKey(p) /\ (mistaken[p] => gaveUp[p])

\* What is seen makes an answer true that is on its way, or, of a process that
\* waits for a key to be released, misinforms it.
Grounds(op) == Witnesses(op) \cup IF op = "wait_released" THEN {{"Again"}} ELSE {}
IsTrue(p) == \E states \in Grounds(Request(p).op) : states \subseteq seen[p]

AsksForKey(p) == Connected(p) /\ Busy(p) /\ ~gaveUp[p] /\ Request(p).op \in KeyOps \cup WaitOps

AnswerIsTrue(p) ==
  AsksForKey(p) =>
    /\ StatesOf(p) \subseteq seen[p]
    /\ toControl[p] # << >> =>
         IF phase[p] = "waiting" THEN IsTrue(p)
         ELSE Request(p).op \notin {"press", "release", "toggle"} => toControl[p][1].state \in seen[p]

TruthInv == \A p \in Processes : AnswerIsTrue(p)

-----------------------------------------------------------------------------
(* Types *)

ControlRecords ==
  [id : InstanceIds \cup {None}, awaits : SettableKeys \cup {None},
   awaitsOld : BOOLEAN, asksKey : BOOLEAN, open : BOOLEAN]

\* A request to set a configuration names one, a request about a key a key.
Requested ==
  {m \in Requests :
     /\ m.type = "set_config_file" => m.name \in Configs
     /\ m.type \in {"get_virtual_key_state", "set_key_state", "request_virtual_key_toggle_notification"} =>
          m.name \in Names}

Types == ControlTypeOK /\ toPort \in [Processes -> Seq(Requested)]

LEMMA NewControls ==
  /\ NoControl \in ControlRecords /\ ~NoControl.open
  /\ NewControl \in ControlRecords /\ NewControl.open
  /\ NoControl.awaits = None /\ ~NoControl.asksKey
  /\ NewControl.awaits = None /\ ~NewControl.asksKey
BY DEF NoControl, NewControl, ControlRecords

LEMMA OutdatedTypes ==
  /\ \A s \in Seq(Requested) : Outdated(s) \in Seq(Requested)
  /\ \A s \in Seq(Replies) : Outdated(s) \in Seq(Replies) /\ Len(Outdated(s)) = Len(s)
<1>1. ASSUME NEW s \in Seq(Requested) PROVE Outdated(s) \in Seq(Requested)
  <2>1. \A m \in Requested : [m EXCEPT !.old = TRUE] \in Requested
    BY DEF Requested, Requests
  <2>2. Len(s) \in Nat /\ DOMAIN s = 1..Len(s) /\ \A i \in 1..Len(s) : s[i] \in Requested
    OBVIOUS
  <2>3. Outdated(s) = [i \in 1..Len(s) |-> [s[i] EXCEPT !.old = TRUE]]
    BY <2>2 DEF Outdated
  <2> QED BY <2>1, <2>2, <2>3
<1>2. ASSUME NEW s \in Seq(Replies)
      PROVE  Outdated(s) \in Seq(Replies) /\ Len(Outdated(s)) = Len(s)
  <2>1. \A m \in Replies : [m EXCEPT !.old = TRUE] \in Replies
    BY DEF Replies
  <2>2. Len(s) \in Nat /\ DOMAIN s = 1..Len(s) /\ \A i \in 1..Len(s) : s[i] \in Replies
    OBVIOUS
  <2>3. Outdated(s) = [i \in 1..Len(s) |-> [s[i] EXCEPT !.old = TRUE]]
    BY <2>2 DEF Outdated
  <2> QED BY <2>1, <2>2, <2>3
<1> QED BY <1>1, <1>2

\* What is sent for a request is one message about its name, but for type_stdin.
LEMMA OneMessage ==
  ASSUME NEW r \in CommandRequests, r.op \notin {"restart", "type_stdin"}, NEW lines
  PROVE  LET m == MessagesOf(r, 1)[1]
         IN /\ MessagesOf(r, lines) = <<m>> /\ m \in Requested
            /\ m.name = r.name /\ ~m.old
            /\ m.type # "request_virtual_key_toggle_notification"
            /\ m.type = "next_key_info" => r.op = "next_key_info"
            /\ m.type = "get_virtual_key_state" <=> r.op \in {"is_pressed", "is_released"} \cup WaitOps
<1>1. /\ r.op \in KeyOps \cup WaitOps \cup OtherOps \cup {"set_instance_id", "set_config_file"}
      /\ r.name \in Names \cup InstanceIds \cup Configs \cup {None}
      /\ r.op = "set_config_file" => r.name \in Configs
      /\ r.op \in KeyOps \cup WaitOps => r.name \in Names
  BY DEF CommandRequests, KeyOps, WaitOps, OtherOps
<1> DEFINE Answers(m) ==
             /\ m.type # "request_virtual_key_toggle_notification"
             /\ m.type = "next_key_info" => r.op = "next_key_info"
             /\ m.type = "get_virtual_key_state" <=> r.op \in {"is_pressed", "is_released"} \cup WaitOps
<1>2. SUFFICES \E m \in Requested :
                 (\A n : MessagesOf(r, n) = <<m>>) /\ m.name = r.name /\ ~m.old /\ Answers(m)
  OBVIOUS
<1>3. CASE r.op \in {"press", "release", "toggle"}
  <2>1. PICK state \in {"Up", "Down", "Not"} :
          \A n : MessagesOf(r, n) = <<Message("set_key_state", r.name, state)>>
    BY <1>3 DEF MessagesOf, WaitOps
  <2> DEFINE m == Message("set_key_state", r.name, state)
  <2>2. m \in Requested /\ m.type = "set_key_state" /\ m.name = r.name /\ ~m.old
    BY <1>1, <1>3 DEF Message, Requested, Requests, KeyOps
  <2>3. r.op \notin {"is_pressed", "is_released"} \cup WaitOps
    BY <1>3 DEF WaitOps
  <2> HIDE DEF m
  <2> QED BY <2>1, <2>2, <2>3 DEF m
<1>4. CASE r.op \in {"is_pressed", "is_released"} \cup WaitOps
  <2> DEFINE m == Message("get_virtual_key_state", r.name, "Not")
  <2>1. \A n : MessagesOf(r, n) = <<m>>
    BY <1>4 DEF MessagesOf, WaitOps
  <2>2. m \in Requested /\ m.type = "get_virtual_key_state" /\ m.name = r.name /\ ~m.old
    BY <1>1, <1>4 DEF Message, Requested, Requests, KeyOps
  <2> HIDE DEF m
  <2> QED BY <1>4, <2>1, <2>2
<1>5. CASE r.op \in {"next_key_info", "inject", "set_instance_id", "set_config_file"}
  <2> DEFINE m == Message(r.op, r.name, "Not")
  <2>1. \A n : MessagesOf(r, n) = <<m>>
    BY <1>5 DEF MessagesOf, WaitOps
  <2>2. m \in Requested /\ m.type = r.op /\ m.name = r.name /\ ~m.old
    BY <1>1, <1>5 DEF Message, Requested, Requests
  <2>3. r.op \notin {"is_pressed", "is_released"} \cup WaitOps
    BY <1>5 DEF WaitOps
  <2> HIDE DEF m
  <2> QED BY <1>5, <2>1, <2>2, <2>3
<1> QED BY <1>1, <1>3, <1>4, <1>5 DEF KeyOps, OtherOps

LEMMA MessagesRequested ==
  ASSUME NEW r \in CommandRequests, r.op # "restart", NEW lines \in Nat
  PROVE  MessagesOf(r, lines) \in Seq(Requested)
<1>1. CASE r.op = "type_stdin"
  <2>1. MessagesOf(r, lines) = [i \in 1..lines |-> Message("inject", None, "Not")]
    BY <1>1 DEF MessagesOf, WaitOps
  <2>2. Message("inject", None, "Not") \in Requested
    BY DEF Message, Requested, Requests
  <2> QED BY <2>1, <2>2
<1>2. CASE r.op # "type_stdin"
  <2>1. PICK m \in Requested : MessagesOf(r, lines) = <<m>>
    BY <1>2, OneMessage
  <2> QED BY <2>1
<1> QED BY <1>1, <1>2

\* The request a busy process is at, or one that makes it.
LEMMA RequestType ==
  ASSUME IInv, NEW p \in Processes, at[p] \in DOMAIN commands[p]
  PROVE  Request(p) \in CommandRequests
BY DEF IInv, Shape, Request

-----------------------------------------------------------------------------
(* The client and the server take steps of ClientServer. *)

LEMMA ControlSteps == ASSUME Types, [ControlNext]_control_vars PROVE [Steps]_vars
<1>1. ASSUME NEW p \in Processes, Received(p, "set_key_state") \/ Received(p, "set_config_file")
      PROVE  /\ clientUp /\ Head(toPort[p]).state \in {"Up", "Down", "Not"}
             /\ Head(toPort[p]).type = "set_config_file" => Head(toPort[p]).name \in Configs
  <2>1. toPort[p] \in Seq(Requested) /\ toPort[p] # << >>
    BY <1>1 DEF Types, Received
  <2>2. Head(toPort[p]) \in Requested
    BY <2>1
  <2> QED BY <1>1, <2>2 DEF Received, Requested, Requests
<1>2. CASE Around
  <2>1. ASSUME NEW key \in Toggles[serverConfig], serverConfig # None, MappingToggles(key)
        PROVE  Next
    <3>1. serverConfig \in Configs
      BY <2>1 DEF Types, ControlTypeOK, PortTypeOK, TypeOK
    <3>2. key \in VirtualKeys
      BY <2>1, <3>1, NamesDenoteKeys
    <3> QED BY <2>1, <3>2 DEF Next
  <2> QED BY <1>2, <2>1 DEF Around, ConnectServer, ServerActs, MirrorVirtualKeyState, ReadNextKeyInfo,
                            Steps, Next
<1>3. CASE ClientLosesServer
  BY <1>3 DEF ClientLosesServer, PortReset, Steps, Next
<1>4. ASSUME NEW p \in Processes, PortReads(p) PROVE [Steps]_vars
  <2>1. CASE SetKeyState(p)
    <3> DEFINE key == GetVirtualKey(Head(toPort[p]).name)
    <3>1. CASE UNCHANGED vars
      BY <3>1
    <3>2. CASE key \in SettableKeys /\ ~UNCHANGED vars
      BY <1>1, <2>1, <3>2 DEF SetKeyState, PassesOn, Steps
    <3> QED BY <2>1, <3>1, <3>2 DEF SetKeyState
  <2>2. CASE SetConfigFile(p)
    BY <1>1, <2>2 DEF SetConfigFile, Received, Steps, Next
  <2>3. CASE UNCHANGED vars
    BY <2>3
  <2> QED BY <1>4, <2>1, <2>2, <2>3
          DEF PortReads, ReadMessage, GetVirtualKeyState, RequestToggleNotification, SetInstanceId,
              RequestNextKeyInfo, Inject
<1>5. ASSUME NEW p \in Processes,
             PortErases(p) \/ Start(p) \/ MakesRequest(p) \/ Restart(p) \/ End(p) \/ ReadSome(p) \/ ReadFails(p)
      PROVE  UNCHANGED vars
  BY <1>5 DEF PortErases, Erase, Start, Opened, MakesRequest, MakeRequest, Restart, End, ReadSome,
              Read, ReadFails
<1>6. CASE UNCHANGED control_vars
  BY <1>6 DEF control_vars
<1> QED BY <1>2, <1>3, <1>4, <1>5, <1>6 DEF ControlNext, ControlStep


-----------------------------------------------------------------------------
(* Every step keeps the types. *)

PortTypes ==
  /\ aliases \in Configs \cup {None} /\ nextKeyRequested \in BOOLEAN
  /\ controls \in [Processes -> ControlRecords]
  /\ toPort \in [Processes -> Seq(Requested)] /\ toControl \in [Processes -> Seq(Replies)]

ProcessTypes ==
  /\ \A p \in Processes : at[p] \in 1..(Len(commands[p]) + 1)
  /\ result \in [Processes -> {"yes", "no", "connection_failed", "timeout", "key_not_found"}]
  /\ inBuffer \in [Processes -> Nat]
  /\ gaveUp \in [Processes -> BOOLEAN] /\ mistaken \in [Processes -> BOOLEAN]

SeenTypes == seen \in [Processes -> SUBSET {"Up", "Down", "Not", "Again"}]

LEMMA TypesParts ==
  IInv /\ commands \in CommandLines /\ TypeOK /\ PortTypes /\ ProcessTypes /\ SeenTypes => Types
<1> SUFFICES ASSUME IInv, commands \in CommandLines, TypeOK, PortTypes, ProcessTypes, SeenTypes
             PROVE  Types
  OBVIOUS
<1>1. toPort \in [Processes -> Seq(Requests)]
  BY DEF IInv, Shape
<1>2. PortTypeOK
  BY <1>1 DEF PortTypes, PortTypeOK, ControlRecords
<1>3. ControlTypeOK
  BY <1>2 DEF IInv, Shape, Phases, ProcessTypes, SeenTypes, ControlTypeOK
<1> QED BY <1>3 DEF Types, PortTypes

LEMMA PartsOfTypes ==
  ASSUME Types
  PROVE  TypeOK /\ PortTypes /\ ProcessTypes /\ SeenTypes /\ commands \in CommandLines
BY DEF Types, ControlTypeOK, PortTypeOK, PortTypes, ProcessTypes, SeenTypes, ControlRecords

LEMMA KeyStateType ==
  ASSUME NEW copy, NEW key
  PROVE  /\ KeyStateIn(copy, key) \in {"Up", "Down", "Not"}
         /\ key \in VirtualKeys => KeyStateIn(copy, key) \in {"Up", "Down"}
BY DEF KeyStateIn

LEMMA SeenTypesKept == SeenTypes /\ Observe => SeenTypes'
<1> SUFFICES ASSUME SeenTypes, Observe PROVE SeenTypes'
  OBVIOUS
<1> DEFINE All == {"Up", "Down", "Not", "Again"}
<1>1. ASSUME NEW p \in Processes PROVE StatesOf(p)' \subseteq All /\ Notified(p) \subseteq All
  <2>1. {KeyStateIn(mirror', key) : key \in KeysOf(p)'} \subseteq All
    BY KeyStateType
  <2>2. StatesOf(p)' \subseteq All
    BY <2>1 DEF StatesOf
  <2>3. Notified(p) \subseteq All
    BY KeyStateType DEF Notified
  <2> QED BY <2>2, <2>3
<1> QED BY <1>1 DEF Observe, SeenTypes

\* A message is read and another is answered.
LEMMA RepliesTypes ==
  ASSUME PortTypes, NEW p \in Processes, toPort[p] # << >>
  PROVE  /\ Head(toPort[p]) \in Requested
         /\ [toPort EXCEPT ![p] = Tail(@)] \in [Processes -> Seq(Requested)]
         /\ \A state \in {"Up", "Down", "Not"} :
              Reply(p, state) =>
                /\ toPort' \in [Processes -> Seq(Requested)]
                /\ toControl' \in [Processes -> Seq(Replies)]
<1>1. toPort[p] \in Seq(Requested) /\ Head(toPort[p]) \in Requested /\ Tail(toPort[p]) \in Seq(Requested)
  BY DEF PortTypes
<1>2. [toPort EXCEPT ![p] = Tail(@)] \in [Processes -> Seq(Requested)]
  BY <1>1 DEF PortTypes
<1>3. ASSUME NEW state \in {"Up", "Down", "Not"}, Reply(p, state)
      PROVE  toControl' \in [Processes -> Seq(Replies)]
  <2>1. VirtualKeyStateReply(state, Head(toPort[p]).old) \in Replies
    BY <1>1 DEF VirtualKeyStateReply, Replies, Requested, Requests
  <2> QED BY <1>3, <2>1 DEF Reply, PortTypes
<1> QED BY <1>1, <1>2, <1>3 DEF Reply

LEMMA ReadsTypes ==
  ASSUME IInv, Types, NEW p \in Processes, PortReads(p)
  PROVE  PortTypes' /\ ProcessTypes'
<1>1. PortTypes /\ ProcessTypes /\ TypeOK
  BY PartsOfTypes
<1>2. ProcessTypes'
  BY <1>1 DEF PortReads, ctl_vars, ProcessTypes
<1> SUFFICES PortTypes'
  BY <1>2
<1>3. toPort[p] # << >> /\ controls[p] \in ControlRecords /\ Head(toPort[p]) \in Requested
  BY <1>1, RepliesTypes
     DEF PortReads, ReadMessage, GetVirtualKeyState, SetKeyState, RequestToggleNotification, SetInstanceId,
         SetConfigFile, RequestNextKeyInfo, Inject, Received, PortTypes
<1>4. ASSUME NEW state \in {"Up", "Down", "Not"}, Reply(p, state), UNCHANGED <<controls, nextKeyRequested>>,
             aliases' \in Configs \cup {None}
      PROVE  PortTypes'
  BY <1>1, <1>3, <1>4, RepliesTypes DEF PortTypes
<1>5. ASSUME NEW success \in BOOLEAN, ReplyResult(p, success), UNCHANGED <<controls, nextKeyRequested>>,
             aliases' \in Configs \cup {None}
      PROVE  PortTypes'
  BY <1>4, <1>5 DEF ReplyResult
<1>6. aliases \in Configs \cup {None} /\ serverUp \in BOOLEAN
  BY <1>1 DEF PortTypes, TypeOK
<1>7. CASE GetVirtualKeyState(p)
  BY <1>4, <1>6, <1>7, KeyStateType DEF GetVirtualKeyState
<1>8. CASE SetKeyState(p)
  <2>1. ASSUME NEW key, Reply(p, KeyStateIn(mirror, key)) PROVE PortTypes'
    BY <1>4, <1>6, <1>8, <2>1, KeyStateType DEF SetKeyState
  <2>2. ASSUME Reply(p, "Not") PROVE PortTypes'
    BY <1>4, <1>6, <1>8, <2>2 DEF SetKeyState
  <2>3. ASSUME NEW name, ReplyResult(p, name \in OtherKeys /\ serverUp) PROVE PortTypes'
    <3>1. (name \in OtherKeys /\ serverUp) \in BOOLEAN
      OBVIOUS
    <3> QED BY <1>5, <1>6, <1>8, <2>3, <3>1 DEF SetKeyState
  <2> QED BY <1>8, <2>1, <2>2, <2>3 DEF SetKeyState
<1>9. CASE RequestToggleNotification(p)
  <2> DEFINE key == GetVirtualKey(Head(toPort[p]).name)
  <2>1. CASE key = None /\ Reply(p, "Not") /\ UNCHANGED controls
    BY <1>4, <1>6, <1>9, <2>1 DEF RequestToggleNotification
  <2>2. CASE /\ key # None
             /\ controls' = [controls EXCEPT ![p].awaits = key, ![p].awaitsOld = Head(toPort[p]).old]
             /\ toPort' = [toPort EXCEPT ![p] = Tail(@)]
             /\ UNCHANGED toControl
    <3>1. Head(toPort[p]).old \in BOOLEAN /\ Head(toPort[p]).name \in Names
      BY <1>3, <1>9 DEF RequestToggleNotification, Received, Requested, Requests
    <3>2. key \in SettableKeys \cup {None}
      BY <1>6, <3>1, NamesDenoteKeys DEF GetVirtualKey
    <3> HIDE DEF key
    <3>3. controls' \in [Processes -> ControlRecords]
      BY <1>1, <2>2, <3>1, <3>2 DEF PortTypes, ControlRecords
    <3> QED BY <1>1, <1>3, <1>9, <2>2, <3>3, RepliesTypes DEF RequestToggleNotification, PortTypes
  <2> QED BY <1>9, <2>1, <2>2 DEF RequestToggleNotification
<1>10. CASE SetInstanceId(p)
  <2> DEFINE id == Head(toPort[p]).name
  <2>1. id \in InstanceIds
    <3>1. toPort[p] \in Seq(Requested) /\ toPort[p][1] = Head(toPort[p]) /\ 1 \in DOMAIN toPort[p]
      BY <1>1, <1>3 DEF PortTypes
    <3> QED BY <1>10, <3>1 DEF IInv, ProcessInv, SetsIds, SetInstanceId, Received
  <2>2. controls' = IF controls[p].id # id THEN TakenOver(p, id) ELSE controls
    BY <1>10 DEF SetInstanceId
  <2>3. [controls[p] EXCEPT !.id = id] \in ControlRecords
    BY <1>3, <2>1 DEF ControlRecords
  <2> HIDE DEF id
  <2>4. TakenOver(p, id) \in [Processes -> ControlRecords]
    BY <1>1, <2>3, NewControls DEF TakenOver, PortTypes
  <2>5. controls' \in [Processes -> ControlRecords]
    BY <1>1, <2>2, <2>4 DEF PortTypes
  <2>6. toPort' \in [Processes -> Seq(Requested)]
    <3>1. \A q \in Processes : toPort[q] \in Seq(Requested) /\ Tail(toPort[p]) \in Seq(Requested)
                               /\ << >> \in Seq(Requested)
      BY <1>1, <1>3 DEF PortTypes
    <3> QED BY <1>10, <3>1 DEF SetInstanceId
  <2>7. toControl' \in [Processes -> Seq(Replies)]
    <3>1. VirtualKeyStateReply("Up", Head(toPort[p]).old) \in Replies
      BY <1>3 DEF VirtualKeyStateReply, Replies, Requested, Requests
    <3> QED BY <1>1, <1>10, <3>1 DEF SetInstanceId, PortTypes
  <2> QED BY <1>1, <1>10, <2>5, <2>6, <2>7 DEF SetInstanceId, PortTypes
<1>11. CASE SetConfigFile(p)
  <2> DEFINE c == Head(toPort[p]).name
  <2>1. c \in Configs
    BY <1>3, <1>11 DEF SetConfigFile, Received, Requested
  <2>2. CASE aliases' = (IF serverUp THEN c ELSE aliases) /\ ReplyResult(p, serverUp)
    <3>1. aliases' \in Configs \cup {None}
      BY <1>6, <2>1, <2>2
    <3> QED BY <1>5, <1>6, <1>11, <2>2, <3>1 DEF SetConfigFile
  <2>3. CASE ReplyResult(p, FALSE) /\ UNCHANGED aliases
    BY <1>5, <1>6, <1>11, <2>3 DEF SetConfigFile
  <2> QED BY <1>11, <2>2, <2>3 DEF SetConfigFile
<1>12. CASE RequestNextKeyInfo(p)
  <2>1. controls' \in [Processes -> ControlRecords]
    <3>1. [controls[p] EXCEPT !.asksKey = TRUE] \in ControlRecords
      BY <1>3 DEF ControlRecords
    <3> QED BY <1>1, <1>12, <3>1 DEF RequestNextKeyInfo, PortTypes
  <2> QED BY <1>1, <1>3, <1>6, <1>12, <2>1, RepliesTypes DEF RequestNextKeyInfo, PortTypes
<1>13. CASE Inject(p)
  <2>1. ASSUME NEW isValid \in BOOLEAN, ReplyResult(p, isValid /\ serverUp) PROVE PortTypes'
    <3>1. (isValid /\ serverUp) \in BOOLEAN
      OBVIOUS
    <3> QED BY <1>5, <1>6, <1>13, <2>1, <3>1 DEF Inject
  <2> QED BY <1>13, <2>1 DEF Inject
<1> QED BY <1>7, <1>8, <1>9, <1>10, <1>11, <1>12, <1>13 DEF PortReads, ReadMessage

LEMMA AroundTypes == ASSUME Types, Around PROVE PortTypes' /\ ProcessTypes'
<1>1. PortTypes /\ ProcessTypes /\ TypeOK
  BY PartsOfTypes
<1>2. ProcessTypes'
  BY <1>1 DEF Around, ctl_vars, ghost_vars, ProcessTypes
<1>3. CASE ConnectServer
  BY <1>1, <1>2, <1>3 DEF ConnectServer, PortTypes, TypeOK
<1>4. CASE ServerActs
  BY <1>1, <1>2, <1>4 DEF ServerActs, PortTypes
<1>5. CASE MirrorVirtualKeyState
  <2> DEFINE key == Head(toClient).key
  <2>1. \A p \in Processes :
          /\ controls[p] \in ControlRecords
          /\ [controls[p] EXCEPT !.awaits = None, !.awaitsOld = FALSE] \in ControlRecords
    BY <1>1 DEF PortTypes, ControlRecords
  <2>2. ASSUME NEW p \in Processes
        PROVE  /\ toControl[p] \in Seq(Replies)
               /\ Append(toControl[p], VirtualKeyStateReply(KeyStateIn(mirror', key), controls[p].awaitsOld))
                    \in Seq(Replies)
    <3>1. toControl[p] \in Seq(Replies) /\ controls[p].awaitsOld \in BOOLEAN
      BY <1>1 DEF PortTypes, ControlRecords
    <3>2. VirtualKeyStateReply(KeyStateIn(mirror', key), controls[p].awaitsOld) \in Replies
      BY <3>1, KeyStateType DEF VirtualKeyStateReply, Replies
    <3> QED BY <3>1, <3>2
  <2>3. controls' \in [Processes -> ControlRecords]
    BY <1>5, <2>1 DEF MirrorVirtualKeyState, NotifyControls
  <2>4. toControl' \in [Processes -> Seq(Replies)]
    BY <1>5, <2>2 DEF MirrorVirtualKeyState, NotifyControls
  <2> QED BY <1>1, <1>2, <1>5, <2>3, <2>4 DEF MirrorVirtualKeyState, NotifyControls, PortTypes
<1>6. CASE ReadNextKeyInfo
  <2>1. \A p \in Processes : [controls[p] EXCEPT !.asksKey = FALSE] \in ControlRecords
    BY <1>1 DEF PortTypes, ControlRecords
  <2>2. NextKeyInfoReply \in Replies
    BY DEF NextKeyInfoReply, Replies
  <2>3. \A p \in Processes : toControl[p] \in Seq(Replies) /\ Append(toControl[p], NextKeyInfoReply) \in Seq(Replies)
    BY <1>1, <2>2 DEF PortTypes
  <2>4. controls' \in [Processes -> ControlRecords] /\ toControl' \in [Processes -> Seq(Replies)]
    BY <1>6, <2>1, <2>3 DEF ReadNextKeyInfo
  <2> QED BY <1>1, <1>2, <1>6, <2>4 DEF ReadNextKeyInfo, PortTypes
<1> QED BY <1>2, <1>3, <1>4, <1>5, <1>6 DEF Around

LEMMA ClosesTypes ==
  ASSUME Types, ClientLosesServer \/ \E p \in Processes : PortErases(p) \/ End(p)
  PROVE  PortTypes' /\ ProcessTypes'
<1>1. PortTypes /\ ProcessTypes /\ commands \in CommandLines
  BY PartsOfTypes
<1>2. << >> \in Seq(Requested) /\ << >> \in Seq(Replies)
  OBVIOUS
<1>3. CASE ClientLosesServer
  BY <1>1, <1>2, <1>3, NewControls
     DEF ClientLosesServer, PortReset, Reset, ctl_vars, PortTypes, ProcessTypes
<1>4. ASSUME NEW p \in Processes, PortErases(p) PROVE PortTypes' /\ ProcessTypes'
  BY <1>1, <1>2, <1>4, NewControls DEF PortErases, Erase, ctl_vars, ghost_vars, PortTypes, ProcessTypes
<1>5. ASSUME NEW p \in Processes, End(p) PROVE PortTypes' /\ ProcessTypes'
  <2>1. PortTypes'
    BY <1>1, <1>2, <1>5 DEF End, PortTypes
  <2>2. \A q \in Processes : Len(commands[q]) \in Nat
    BY <1>1, CommandLinesAreRequests
  <2>3. ASSUME NEW q \in Processes PROVE at'[q] \in 1..(Len(commands'[q]) + 1)
    <3>1. commands' = commands /\ (at'[q] = 1 \/ at'[q] = at[q])
      BY <1>1, <1>5 DEF End, ControlTypeOK, Types
    <3> QED BY <1>1, <2>2, <3>1 DEF ProcessTypes
  <2> QED BY <1>1, <1>5, <2>1, <2>3 DEF End, ProcessTypes
<1> QED BY <1>3, <1>4, <1>5

\* What a process does that starts or goes on. It is at one of its requests, or through.
LEMMA PositionTypes ==
  ASSUME Types, NEW p \in Processes, commands' = commands,
         \/ at' = at \/ at' = [at EXCEPT ![p] = 1]
         \/ at' = [at EXCEPT ![p] = @ + 1] /\ at[p] \in DOMAIN commands[p]
  PROVE  \A q \in Processes : at'[q] \in 1..(Len(commands'[q]) + 1)
<1>1. \A q \in Processes : Len(commands[q]) \in Nat /\ DOMAIN commands[q] = 1..Len(commands[q])
  BY CommandLinesAreRequests DEF Types, ControlTypeOK
<1> QED BY <1>1 DEF Types, ControlTypeOK

LEMMA OpenedTypes ==
  ASSUME Types, NEW p \in Processes, Opened(p)
  PROVE  /\ PortTypes' /\ inBuffer' \in [Processes -> Nat]
         /\ gaveUp' \in [Processes -> BOOLEAN] /\ mistaken' \in [Processes -> BOOLEAN]
<1>1. << >> \in Seq(Requested) /\ << >> \in Seq(Replies)
  OBVIOUS
<1>2. PortTypes'
  BY <1>1, PartsOfTypes, NewControls DEF Opened, PortTypes
<1> QED BY <1>2, PartsOfTypes DEF Opened, ProcessTypes

\* What is sent again, and what is now for something else.
LEMMA SentTypes ==
  ASSUME Types, NEW p \in Processes, NEW sent \in Seq(Requested)
  PROVE  /\ [toPort EXCEPT ![p] = Outdated(@) \o sent] \in [Processes -> Seq(Requested)]
         /\ [controls EXCEPT ![p].awaitsOld = (controls[p].awaits # None)] \in [Processes -> ControlRecords]
<1>1. PortTypes
  BY PartsOfTypes
<1>2. Outdated(toPort[p]) \o sent \in Seq(Requested)
  BY <1>1, OutdatedTypes DEF PortTypes
<1>3. [controls[p] EXCEPT !.awaitsOld = (controls[p].awaits # None)] \in ControlRecords
  BY <1>1 DEF PortTypes, ControlRecords
<1> QED BY <1>1, <1>2, <1>3 DEF PortTypes

LEMMA MakesRequestTypes ==
  ASSUME IInv, Types, NEW p \in Processes, MakesRequest(p)
  PROVE  PortTypes' /\ ProcessTypes'
<1>1. PortTypes /\ ProcessTypes /\ commands \in CommandLines
  BY PartsOfTypes
<1>2. PICK lines \in Nat : MakeRequest(p, lines)
  BY CommandLinesAreRequests DEF MakesRequest
<1>3. at[p] \in DOMAIN commands[p] /\ Request(p) \in CommandRequests /\ Request(p).op # "restart"
  <2>1. at[p] \in DOMAIN commands[p]
    BY <1>2 DEF MakeRequest, IInv, Shape
  <2> QED BY <1>2, <2>1, RequestType DEF MakeRequest
<1>4. ProcessTypes'
  <2>1. \A q \in Processes : at'[q] \in 1..(Len(commands'[q]) + 1)
    BY <1>2, <1>3, PositionTypes DEF MakeRequest
  <2>2. [gaveUp EXCEPT ![p] = @ \/ Request(p).op = "type_stdin"] \in [Processes -> BOOLEAN]
    BY <1>1 DEF ProcessTypes
  <2> QED BY <1>1, <1>2, <2>1, <2>2 DEF MakeRequest, ProcessTypes
<1>5. CASE Send(p, MessagesOf(Request(p), lines))
  <2>1. MessagesOf(Request(p), lines) \in Seq(Requested)
    BY <1>3, MessagesRequested
  <2>2. toPort' \in [Processes -> Seq(Requested)] /\ controls' \in [Processes -> ControlRecords]
    BY <1>5, <2>1, SentTypes DEF Send
  <2>3. toControl' \in [Processes -> Seq(Replies)]
    BY <1>1, <1>5, OutdatedTypes DEF Send, PortTypes
  <2> QED BY <1>1, <1>4, <1>5, <2>2, <2>3 DEF Send, PortTypes
<1>6. CASE UNCHANGED port_vars
  BY <1>1, <1>4, <1>6 DEF port_vars, PortTypes
<1> QED BY <1>2, <1>5, <1>6 DEF MakeRequest

LEMMA StartsTypes ==
  ASSUME Types, NEW p \in Processes, Start(p) \/ Restart(p)
  PROVE  PortTypes' /\ ProcessTypes'
<1>1. PortTypes /\ ProcessTypes
  BY PartsOfTypes
<1>2. commands' = commands
  BY DEF Start, Restart
<1>3. \A q \in Processes : at'[q] \in 1..(Len(commands'[q]) + 1)
  BY <1>2, PositionTypes DEF Start, Restart
<1>4. CASE Opened(p)
  BY <1>1, <1>3, <1>4, OpenedTypes DEF Start, Restart, ProcessTypes
<1>5. CASE UNCHANGED <<vars, port_vars, result, inBuffer, ghost_vars>>
  BY <1>1, <1>3, <1>5 DEF port_vars, ghost_vars, PortTypes, ProcessTypes
<1> QED BY <1>4, <1>5 DEF Start, Restart

LEMMA ReadsParts ==
  ASSUME Types, NEW p \in Processes, NEW parts \in inBuffer[p]..(2 * Len(toControl[p]))
  PROVE  /\ parts \in Nat /\ parts % 2 \in Nat /\ parts \div 2 \in 0..Len(toControl[p])
         /\ parts \div 2 = 0 \/ parts \div 2 \in 1..Len(toControl[p])
<1>1. inBuffer[p] \in Nat /\ Len(toControl[p]) \in Nat
  BY PartsOfTypes DEF PortTypes, ProcessTypes
<1> DEFINE n == Len(toControl[p])
<1>2. n \in Nat
  BY <1>1
<1> HIDE DEF n
<1>3. parts \in 0..(2 * n) => parts \div 2 \in 0..n /\ parts % 2 \in Nat
  BY <1>2
<1> QED BY <1>1, <1>3 DEF n

LEMMA ResultTypes ==
  ASSUME NEW op, NEW state \in {"Up", "Down", "Not"}
  PROVE  ResultOf(op, state) \in {"yes", "no", "key_not_found"}
BY DEF ResultOf

LEMMA ReadTypes ==
  ASSUME IInv, Types, NEW p \in Processes, ReadSome(p)
  PROVE  PortTypes' /\ ProcessTypes'
<1> DEFINE Results == {"yes", "no", "connection_failed", "timeout", "key_not_found"}
<1>1. PortTypes /\ ProcessTypes
  BY PartsOfTypes
<1>2. PICK parts \in inBuffer[p]..(2 * Len(toControl[p])) : Read(p, parts)
  BY DEF ReadSome
<1> DEFINE complete == parts \div 2
           q == toControl[p]
<1>3. at[p] \in DOMAIN commands[p] /\ Request(p) \in CommandRequests /\ commands' = commands
  BY <1>2, RequestType DEF Read, Busy, IInv, BusyIsAtRequest
<1>4. ASSUME NEW res \in Results, Finish(p, res)
      PROVE  /\ \A r \in Processes : at'[r] \in 1..(Len(commands'[r]) + 1)
             /\ result' \in [Processes -> Results]
  BY <1>1, <1>3, <1>4, PositionTypes DEF Finish, ProcessTypes
<1>5. inBuffer' \in [Processes -> Nat]
  <2>1. inBuffer' = [inBuffer EXCEPT ![p] = parts] \/ inBuffer' = [inBuffer EXCEPT ![p] = parts % 2]
    BY <1>2 DEF Read
  <2>2. parts \in Nat /\ parts % 2 \in Nat
    BY ReadsParts
  <2> QED BY <1>1, <2>1, <2>2 DEF ProcessTypes
<1>6. CASE \E res \in {"connection_failed", "timeout"} :
             Finish(p, res) /\ UNCHANGED <<toControl, toPort, controls, mistaken>>
               /\ gaveUp' = [gaveUp EXCEPT ![p] = TRUE]
  BY <1>1, <1>2, <1>4, <1>5, <1>6 DEF Read, PortTypes, ProcessTypes
<1>7. CASE /\ complete > 0 /\ Proceed(p, q[complete])
           /\ toControl' = [toControl EXCEPT ![p] =
                SubSeq(IF phase'[p] = "waiting" THEN Outdated(@) ELSE @, complete + 1, Len(@))]
           /\ mistaken' = [mistaken EXCEPT ![p] = @ \/ q[complete].old]
           /\ UNCHANGED gaveUp
  <2>1. complete \in 1..Len(q) /\ q \in Seq(Replies)
    BY <1>1, <1>7, ReadsParts DEF PortTypes
  <2>2. q[complete] \in Replies
    BY <2>1
  <2> HIDE DEF complete, q
  <2>3. \A s \in Seq(Replies) : Len(s) = Len(q) => SubSeq(s, complete + 1, Len(q)) \in Seq(Replies)
    BY <2>1
  <2>4. toControl' \in [Processes -> Seq(Replies)]
    <3>1. Outdated(q) \in Seq(Replies) /\ Len(Outdated(q)) = Len(q)
      BY <2>1, OutdatedTypes
    <3>2. SubSeq(IF phase'[p] = "waiting" THEN Outdated(q) ELSE q, complete + 1, Len(q)) \in Seq(Replies)
      BY <2>1, <2>3, <3>1
    <3> QED BY <1>1, <1>7, <3>2 DEF PortTypes, q
  <2>5. mistaken' \in [Processes -> BOOLEAN]
    BY <1>1, <1>7, <2>2 DEF ProcessTypes, Replies
  <2>6. CASE Finish(p, ResultOf(Request(p).op, q[complete].state)) /\ UNCHANGED <<toPort, controls>>
    <3>1. ResultOf(Request(p).op, q[complete].state) \in Results
      BY <2>2, ResultTypes DEF Replies
    <3> QED BY <1>1, <1>2, <1>4, <1>5, <1>7, <2>4, <2>5, <2>6, <3>1 DEF Read, PortTypes, ProcessTypes
  <2>7. CASE phase[p] = "reading" /\ ~IsDone(Request(p).op, q[complete].state)
    <3> DEFINE m == Message("request_virtual_key_toggle_notification", Request(p).name, "Not")
    <3>1. Request(p).op \in WaitOps /\ Request(p).name \in Names
      BY <1>3, <2>7 DEF IsDone, CommandRequests, WaitOps, KeyOps, OtherOps
    <3>2. m \in Requested
      BY <3>1 DEF Message, Requested, Requests
    <3>3. <<m>> \in Seq(Requested)
      BY <3>2
    <3> HIDE DEF m
    <3>4. toPort' \in [Processes -> Seq(Requested)] /\ controls' \in [Processes -> ControlRecords]
      <4>1. /\ toPort' = [toPort EXCEPT ![p] = Outdated(@) \o <<m>>]
            /\ controls' = [controls EXCEPT ![p].awaitsOld = (controls[p].awaits # None)]
        BY <1>7, <2>7, Zenon DEF Proceed, m
      <4> QED BY <3>3, <4>1, SentTypes, Zenon
    <3>5. \A r \in Processes : at'[r] \in 1..(Len(commands'[r]) + 1)
      BY <1>3, <1>7, <2>7, PositionTypes DEF Proceed, q
    <3>6. result' = result
      BY <1>7, <2>7 DEF Proceed, q
    <3> QED BY <1>1, <1>2, <1>5, <1>7, <2>4, <2>5, <3>4, <3>5, <3>6 DEF Read, PortTypes, ProcessTypes
  <2> QED BY <1>7, <2>6, <2>7 DEF Proceed
<1> QED BY <1>2, <1>6, <1>7 DEF Read

LEMMA ReadFailsTypes ==
  ASSUME IInv, Types, NEW p \in Processes, ReadFails(p)
  PROVE  PortTypes' /\ ProcessTypes'
<1>1. PortTypes /\ ProcessTypes
  BY PartsOfTypes
<1>2. at[p] \in DOMAIN commands[p]
  BY DEF ReadFails, Busy, IInv, BusyIsAtRequest
<1>3. \A q \in Processes : at'[q] \in 1..(Len(commands'[q]) + 1)
  BY <1>2, PositionTypes DEF ReadFails, Finish
<1> QED BY <1>1, <1>3 DEF ReadFails, Finish, port_vars, ghost_vars, PortTypes, ProcessTypes

LEMMA TypesInit == ControlInit => Types
<1> SUFFICES ASSUME ControlInit PROVE Types
  OBVIOUS
<1>1. TypeOK /\ commands \in CommandLines /\ IInv
  BY TypeInit, InvInit DEF ControlInit, PortInit
<1>2. << >> \in Seq(Requested) /\ << >> \in Seq(Replies)
  OBVIOUS
<1>3. PortTypes
  BY <1>2, NewControls DEF ControlInit, PortInit, PortTypes
<1>4. \A p \in Processes : Len(commands[p]) \in Nat
  BY <1>1, CommandLinesAreRequests
<1>5. ProcessTypes /\ SeenTypes
  BY <1>4 DEF ControlInit, ProcessTypes, SeenTypes
<1> QED BY <1>1, <1>3, <1>5, TypesParts

LEMMA TypesKept == IInv /\ Types /\ [ControlNext]_control_vars => Types'
<1> SUFFICES ASSUME IInv, Types, [ControlNext]_control_vars PROVE Types'
  OBVIOUS
<1>1. IInv' /\ TypeOK'
  BY InvNext, ControlSteps, TypeKept, PartsOfTypes
<1>2. CASE UNCHANGED control_vars
  BY <1>2 DEF control_vars, vars, client_vars, server_vars, port_vars, ctl_vars, ghost_vars, Types,
              ControlTypeOK, PortTypeOK, TypeOK
<1>3. CASE ControlNext
  <2>1. PortTypes' /\ ProcessTypes'
    BY <1>3, AroundTypes, ClosesTypes, ReadsTypes, StartsTypes, MakesRequestTypes, ReadTypes, ReadFailsTypes
       DEF ControlNext, ControlStep
  <2>2. SeenTypes'
    BY <1>3, PartsOfTypes, SeenTypesKept DEF ControlNext
  <2>3. commands' = commands
    BY <1>3 DEF ControlNext, ControlStep, Around, ClientLosesServer, PortReads, PortErases, Start, MakesRequest,
                MakeRequest, Restart, End, ReadSome, Read, ReadFails, ctl_vars
  <2>4. (IInv /\ commands \in CommandLines /\ TypeOK /\ PortTypes /\ ProcessTypes /\ SeenTypes => Types)'
    BY TypesParts, PTL
  <2> QED BY <1>1, <2>1, <2>2, <2>3, <2>4, PartsOfTypes
<1> QED BY <1>2, <1>3

\* All parts of the system stay what they are made of, whatever names, keys,
\* configurations and command lines there are.
THEOREM ControlTypeCorrect == ControlSpec => []ControlTypeOK
<1>1. Types => ControlTypeOK
  BY DEF Types
<1> QED BY <1>1, TypesInit, TypesKept, InvHolds, PTL DEF ControlSpec

-----------------------------------------------------------------------------
(* What the client and the server keep of their promises. *)

LEMMA ControlInits ==
  ControlInit => Types /\ ContextsInv /\ NoDownIsLost /\ ReleasesAreTold /\ AgreeInv
<1> SUFFICES ASSUME ControlInit PROVE ContextsInv /\ NoDownIsLost /\ ReleasesAreTold /\ AgreeInv
  BY TypesInit
<1>1. Init
  BY DEF ControlInit, PortInit
<1>2. ReleasesAreTold
  BY <1>1 DEF Init, ReleasesAreTold, ReleasesFollow
<1> QED BY <1>1, <1>2, ContextsInvInit, NoDownInit, AgreeInit

LEMMA ControlKeeps ==
  /\ IInv /\ Types /\ ContextsInv /\ NoDownIsLost /\ ReleasesAreTold /\ AgreeInv
  /\ [ControlNext]_control_vars
  => (Types /\ ContextsInv /\ NoDownIsLost /\ ReleasesAreTold /\ AgreeInv)'
<1> SUFFICES ASSUME IInv, Types, ContextsInv, NoDownIsLost, ReleasesAreTold, AgreeInv, [ControlNext]_control_vars
             PROVE  (Types /\ ContextsInv /\ NoDownIsLost /\ ReleasesAreTold /\ AgreeInv)'
  OBVIOUS
<1>1. [Steps]_vars /\ Types' /\ TypeOK
  BY ControlSteps, TypesKept, PartsOfTypes
<1>2. TypeOK'
  BY <1>1, TypeKept
<1> QED BY <1>1, <1>2, ContextsInvKept, NoDownKept, ReleasesKept, AgreeKept

LEMMA PromisesKept ==
  ControlSpec => [](IInv /\ Types /\ ContextsInv /\ NoDownIsLost /\ ReleasesAreTold /\ AgreeInv)
BY ControlInits, ControlKeeps, InvHolds, PTL DEF ControlSpec

\* With keymapperctl, which sets virtual keys and configurations at any time,
\* the client and the server keep what they promise: the active contexts fit
\* the configuration and are those of the client, and no key that is pressed
\* is lost (ControlPort.cpp, on_set_virtual_key_state_message,
\* on_set_config_file_message).
THEOREM ControlKeepsPromises ==
  ControlSpec => [](ContextsFit /\ NoDownIsLost /\ ContextsAgree /\ InactiveMeansNoMappings)
<1>1. ContextsInv => ContextsFit
  BY DEF ContextsInv, ServerContextsFit, ContextsFit, Fits
<1>2. AgreeInv => ContextsAgree /\ InactiveMeansNoMappings
  BY LeavesNothing DEF AgreeInv, Agreed, ContextsAgree, InactiveMeansNoMappings
<1> QED BY <1>1, <1>2, PromisesKept, PTL

-----------------------------------------------------------------------------
(* Every step keeps the one answer. *)

Answered(p) == OneAnswer(p) /\ WaitsForKey(p) /\ (mistaken[p] => gaveUp[p])

SameRequest(p) ==
  /\ phase'[p] = phase[p] /\ at'[p] = at[p] /\ commands' = commands
  /\ gaveUp'[p] = gaveUp[p] /\ mistaken'[p] = mistaken[p]

SameControl(p) ==
  /\ controls'[p].open = controls[p].open /\ controls'[p].awaits = controls[p].awaits
  /\ controls'[p].awaitsOld = controls[p].awaitsOld /\ controls'[p].asksKey = controls[p].asksKey

\* A process is not concerned by a step, loses its connection, or has a new one.
LEMMA NotConcerned ==
  ASSUME NEW p \in Processes, Answered(p), SameRequest(p),
         \/ ~controls'[p].open
         \/ SameControl(p) /\ toPort'[p] = toPort[p] /\ toControl'[p] = toControl[p]
  PROVE  Answered(p)'
<1>1. WaitsForKey(p)' /\ (mistaken[p] => gaveUp[p])'
  BY DEF Answered, WaitsForKey, SameRequest, Request
<1>2. CASE ~controls'[p].open
  BY <1>1, <1>2 DEF Answered, OneAnswer, Connected
<1>3. CASE SameControl(p) /\ toPort'[p] = toPort[p] /\ toControl'[p] = toControl[p]
  <2>1. Request(p)' = Request(p) /\ Pending(p)' = Pending(p) /\ (Busy(p)' <=> Busy(p))
    BY DEF SameRequest, Request, Pending, Message, MessagesOf, Busy
  <2>2. /\ IsQuiet(p)' <=> IsQuiet(p)
        /\ IsSent(p)' <=> IsSent(p)
        /\ IsAwaited(p)' <=> IsAwaited(p)
        /\ IsAsked(p)' <=> IsAsked(p)
        /\ IsAnswered(p)' <=> IsAnswered(p)
    BY <1>3, <2>1 DEF SameControl, SameRequest, IsQuiet, IsSent, IsAwaited, IsAsked, IsAnswered, NothingAwaited
  <2>3. OneAnswer(p)'
    BY <1>3, <2>1, <2>2 DEF Answered, OneAnswer, SameControl, SameRequest, Connected
  <2> QED BY <1>1, <2>3 DEF Answered
<1> QED BY <1>2, <1>3

LEMMA OthersNotConcerned ==
  ASSUME AnswersInv, NEW p \in Processes, Answered(p)',
         \A q \in Processes \ {p} :
           SameRequest(q) /\ controls'[q] = controls[q] /\ toPort'[q] = toPort[q] /\ toControl'[q] = toControl[q]
  PROVE  AnswersInv'
<1>1. ASSUME NEW q \in Processes \ {p} PROVE Answered(q)'
  BY NotConcerned DEF AnswersInv, Answered, SameControl
<1> QED BY <1>1 DEF AnswersInv, Answered

\* What is sent is what the process waits for.
LEMMA PendingFacts ==
  ASSUME IInv, Types, NEW p \in Processes, Busy(p), IsSent(p)
  PROVE  /\ Head(toPort[p]) = Pending(p) /\ Tail(toPort[p]) = << >>
         /\ ~Pending(p).old
         /\ Pending(p).type = "request_virtual_key_toggle_notification" <=> phase[p] = "waiting"
         /\ Pending(p).type = "next_key_info" => Request(p).op = "next_key_info"
<1>1. Head(toPort[p]) = Pending(p) /\ Tail(toPort[p]) = << >> /\ Pending(p) \in Requested
  <2>1. toPort[p] = <<Pending(p)>> /\ toPort[p] \in Seq(Requested)
    BY PartsOfTypes DEF IsSent, PortTypes
  <2>2. Head(<<Pending(p)>>) = Pending(p) /\ Tail(<<Pending(p)>>) = << >>
    OBVIOUS
  <2>3. Len(<<Pending(p)>>) = 1 /\ <<Pending(p)>>[1] = Pending(p)
    OBVIOUS
  <2>4. Pending(p) \in Requested
    BY <2>1, <2>3
  <2> QED BY <2>1, <2>2, <2>4
<1>2. CASE phase[p] = "waiting"
  BY <1>1, <1>2 DEF Pending, Message
<1>3. CASE phase[p] = "reading"
  <2> DEFINE r == Request(p)
             m == MessagesOf(r, 1)[1]
  <2>1. r \in CommandRequests /\ Pending(p) = m
    BY <1>3, RequestType DEF IInv, BusyIsAtRequest, Pending
  <2>2. r.op # "restart"
    <3>1. SUFFICES ASSUME r.op = "restart" PROVE FALSE
      OBVIOUS
    <3>2. MessagesOf(r, 1) = <<Message("restart", r.name, "Not")>>
      BY <3>1 DEF MessagesOf, WaitOps
    <3>3. m = Message("restart", r.name, "Not")
      BY <3>2
    <3> QED BY <1>1, <2>1, <3>3 DEF Message, Requested, Requests
  <2>3. CASE r.op = "type_stdin"
    <3>1. MessagesOf(r, 1) = [i \in 1..1 |-> Message("inject", None, "Not")]
      BY <2>3 DEF MessagesOf, WaitOps
    <3>2. m = Message("inject", None, "Not")
      BY <3>1
    <3> HIDE DEF r, m
    <3> QED BY <1>1, <1>3, <2>1, <3>2 DEF Message
  <2>4. CASE r.op # "type_stdin"
    <3> HIDE DEF r
    <3>1. /\ ~m.old /\ m.type # "request_virtual_key_toggle_notification"
          /\ m.type = "next_key_info" => r.op = "next_key_info"
      BY <2>1, <2>2, <2>4, OneMessage
    <3> HIDE DEF m
    <3> QED BY <1>1, <1>3, <2>1, <3>1 DEF r
  <2> QED BY <2>3, <2>4
<1> QED BY <1>2, <1>3 DEF Busy

LEMMA AroundAnswers ==
  ASSUME IInv, Types, AnswersInv, Around
  PROVE  AnswersInv'
<1>1. PortTypes /\ TypeOK /\ \A p \in Processes : Answered(p) /\ SameRequest(p)
  BY PartsOfTypes DEF AnswersInv, Answered, Around, SameRequest, ctl_vars, ghost_vars
<1>2. SUFFICES ASSUME NEW p \in Processes PROVE Answered(p)'
  BY DEF AnswersInv, Answered
<1>3. ASSUME SameControl(p), toPort' = toPort, toControl'[p] = toControl[p] PROVE Answered(p)'
  BY <1>1, <1>3, NotConcerned
<1>4. CASE ConnectServer \/ ServerActs
  BY <1>3, <1>4 DEF ConnectServer, ServerActs, SameControl
<1> DEFINE s == toControl[p]
<1>5. ASSUME NEW m, toPort' = toPort, toControl'[p] = Append(s, m), controls'[p].open = controls[p].open,
             Connected(p) /\ ~gaveUp[p] /\ (phase[p] = "idle" \/ Busy(p)) =>
               /\ Busy(p) /\ s = << >> /\ toPort[p] = << >> /\ m.old = FALSE
               /\ controls'[p].awaits = None /\ ~controls'[p].asksKey
      PROVE  Answered(p)'
  <2>1. WaitsForKey(p)' /\ (mistaken[p] => gaveUp[p])'
    BY <1>1 DEF Answered, WaitsForKey, SameRequest, Request
  <2>2. ASSUME Connected(p), ~gaveUp[p], phase[p] = "idle" \/ Busy(p) PROVE Busy(p) /\ IsAnswered(p)'
    <3>1. Len(toControl'[p]) = 1 /\ toControl'[p][1] = m
      BY <1>5, <2>2
    <3> QED BY <1>5, <2>2, <3>1 DEF IsAnswered, NothingAwaited
  <2>3. OneAnswer(p)'
    BY <1>1, <1>5, <2>2 DEF OneAnswer, Connected, SameRequest, Busy
  <2> QED BY <2>1, <2>3 DEF Answered
<1>6. CASE MirrorVirtualKeyState
  <2> DEFINE key == Head(toClient).key
             m == VirtualKeyStateReply(KeyStateIn(mirror', key), controls[p].awaitsOld)
  <2>1. key \in VirtualKeys
    <3>1. Head(toClient) \in ClientMessages
      BY <1>1, <1>6 DEF MirrorVirtualKeyState, ReadVirtualKeyState, TypeOK
    <3> QED BY <1>6, <3>1 DEF MirrorVirtualKeyState, ReadVirtualKeyState, ClientMessages
  <2>2. CASE ~Awaits(p, key)
    BY <1>3, <1>6, <2>2 DEF MirrorVirtualKeyState, NotifyControls, SameControl
  <2>3. CASE Awaits(p, key)
    <3>1. controls[p].awaits # None /\ controls[p] \in ControlRecords
      BY <1>1, <2>1, <2>3, NamesDenoteKeys, ConstantsAreDistinct DEF Awaits, PortTypes, SettableKeys
    <3>2. /\ toPort' = toPort /\ toControl'[p] = Append(s, m)
          /\ controls'[p] = [controls[p] EXCEPT !.awaits = None, !.awaitsOld = FALSE]
      BY <1>6, <2>3 DEF MirrorVirtualKeyState, NotifyControls
    <3>3. /\ controls'[p].open = controls[p].open /\ controls'[p].awaits = None
          /\ controls'[p].asksKey = controls[p].asksKey
      BY <3>1, <3>2 DEF ControlRecords
    <3>4. ASSUME Connected(p), ~gaveUp[p], phase[p] = "idle" \/ Busy(p) PROVE IsAwaited(p) /\ Busy(p)
      BY <1>1, <3>1, <3>4
         DEF Answered, OneAnswer, IsQuiet, IsSent, IsAsked, IsAnswered, NothingAwaited
    <3>5. m.old = controls[p].awaitsOld /\ controls[p].awaitsOld \in BOOLEAN
      BY <3>1 DEF VirtualKeyStateReply, ControlRecords
    <3> HIDE DEF m, s
    <3> QED BY <1>5, <3>2, <3>3, <3>4, <3>5 DEF IsAwaited, s
  <2> QED BY <2>2, <2>3
<1>7. CASE ReadNextKeyInfo
  <2>1. controls[p] \in ControlRecords
    BY <1>1 DEF PortTypes
  <2>2. /\ toPort' = toPort /\ controls'[p] = [controls[p] EXCEPT !.asksKey = FALSE]
        /\ toControl'[p] = IF controls[p].asksKey THEN Append(s, NextKeyInfoReply) ELSE s
    BY <1>7 DEF ReadNextKeyInfo
  <2>3. /\ controls'[p].open = controls[p].open /\ controls'[p].awaits = controls[p].awaits
        /\ controls'[p].awaitsOld = controls[p].awaitsOld /\ ~controls'[p].asksKey
        /\ controls[p].asksKey \in BOOLEAN /\ controls'[p].asksKey \in BOOLEAN
    BY <2>1, <2>2 DEF ControlRecords
  <2>4. CASE ~controls[p].asksKey
    BY <1>3, <2>2, <2>3, <2>4 DEF SameControl
  <2>5. CASE controls[p].asksKey
    <3>1. ASSUME Connected(p), ~gaveUp[p], phase[p] = "idle" \/ Busy(p) PROVE IsAsked(p) /\ Busy(p)
      BY <1>1, <2>5, <3>1
         DEF Answered, OneAnswer, IsQuiet, IsSent, IsAwaited, IsAnswered, NothingAwaited
    <3>2. NextKeyInfoReply.old = FALSE
      BY DEF NextKeyInfoReply
    <3> HIDE DEF s
    <3> QED BY <1>5, <2>2, <2>3, <2>5, <3>1, <3>2 DEF IsAsked, s
  <2> QED BY <2>4, <2>5
<1> QED BY <1>4, <1>6, <1>7 DEF Around

\* The port reads the message of a process.
LEMMA ReadsAnswers ==
  ASSUME IInv, Types, AnswersInv, NEW p \in Processes, PortReads(p)
  PROVE  AnswersInv'
<1>1. PortTypes /\ \A q \in Processes : Answered(q) /\ SameRequest(q)
  BY PartsOfTypes DEF AnswersInv, Answered, PortReads, SameRequest, ctl_vars
<1>2. toPort[p] # << >> /\ Connected(p) /\ Head(toPort[p]) \in Requested /\ controls[p] \in ControlRecords
  BY <1>1, RepliesTypes
     DEF PortReads, ReadMessage, GetVirtualKeyState, SetKeyState, RequestToggleNotification, SetInstanceId,
         SetConfigFile, RequestNextKeyInfo, Inject, Received, PortTypes
<1> DEFINE fair == ~gaveUp[p] /\ (phase[p] = "idle" \/ Busy(p))
           head == Head(toPort[p])
<1>3. ASSUME fair
      PROVE  /\ Busy(p) /\ IsSent(p) /\ head = Pending(p) /\ Tail(toPort[p]) = << >> /\ ~head.old
             /\ head.type = "request_virtual_key_toggle_notification" <=> phase[p] = "waiting"
             /\ head.type = "next_key_info" => Request(p).op = "next_key_info"
  <2>1. Busy(p) /\ IsSent(p)
    BY <1>1, <1>2, <1>3 DEF Answered, OneAnswer, IsQuiet, IsAwaited, IsAsked, IsAnswered
  <2> QED BY <2>1, PendingFacts
<1>4. ASSUME SameRequest(p), ~fair PROVE Answered(p)'
  BY <1>1, <1>4 DEF Answered, OneAnswer, WaitsForKey, SameRequest, Request, Busy
<1>5. WaitsForKey(p)' /\ (mistaken[p] => gaveUp[p])'
  BY <1>1 DEF Answered, WaitsForKey, SameRequest, Request
\* It is answered,
<1>6. ASSUME toPort'[p] = Tail(toPort[p]), NEW m, toControl'[p] = Append(toControl[p], m), m.old = head.old,
             controls'[p].awaits = controls[p].awaits, controls'[p].asksKey = controls[p].asksKey
      PROVE  Answered(p)'
  <2>1. ASSUME fair PROVE IsAnswered(p)' /\ Busy(p)'
    <3>1. toControl[p] = << >> /\ NothingAwaited(p) /\ Busy(p)'
      BY <1>1, <1>3, <2>1 DEF IsSent, Busy, SameRequest
    <3>2. Len(toControl'[p]) = 1 /\ toControl'[p][1] = m
      BY <1>6, <3>1
    <3> QED BY <1>3, <1>6, <2>1, <3>1, <3>2 DEF IsAnswered, NothingAwaited
  <2>2. OneAnswer(p)'
    BY <1>1, <1>3, <2>1 DEF OneAnswer, SameRequest, Busy
  <2> QED BY <1>5, <2>2 DEF Answered
\* or the process is to be notified.
<1>7. ASSUME toPort'[p] = Tail(toPort[p]), toControl' = toControl, fair => IsAwaited(p)' \/ IsAsked(p)'
      PROVE  Answered(p)'
  <2>1. OneAnswer(p)'
    BY <1>1, <1>3, <1>7 DEF OneAnswer, SameRequest, Busy
  <2> QED BY <1>5, <2>1 DEF Answered
<1>8. ASSUME NEW state, Reply(p, state), controls' = controls PROVE AnswersInv'
  <2> DEFINE m == VirtualKeyStateReply(state, head.old)
  <2>1. toPort'[p] = Tail(toPort[p]) /\ toControl'[p] = Append(toControl[p], m) /\ m.old = head.old
    BY <1>1, <1>8 DEF Reply, PortTypes, VirtualKeyStateReply
  <2>2. Answered(p)'
    BY <1>6, <1>8, <2>1
  <2>3. \A q \in Processes \ {p} : toPort'[q] = toPort[q] /\ toControl'[q] = toControl[q]
    BY <1>1, <1>8 DEF Reply, PortTypes
  <2> QED BY <1>1, <1>8, <2>2, <2>3, OthersNotConcerned
<1>9. CASE GetVirtualKeyState(p) \/ SetKeyState(p) \/ SetConfigFile(p) \/ Inject(p)
  BY <1>8, <1>9 DEF GetVirtualKeyState, SetKeyState, SetConfigFile, Inject, ReplyResult
<1>10. CASE RequestToggleNotification(p)
  <2> DEFINE key == GetVirtualKey(head.name)
  <2>1. CASE key = None
    BY <1>8, <1>10, <2>1 DEF RequestToggleNotification
  <2>2. CASE key # None
    <3>1. /\ controls' = [controls EXCEPT ![p].awaits = key, ![p].awaitsOld = head.old]
          /\ toPort' = [toPort EXCEPT ![p] = Tail(@)] /\ toControl' = toControl
          /\ head.type = "request_virtual_key_toggle_notification"
      BY <1>10, <2>2 DEF RequestToggleNotification, Received
    <3> HIDE DEF key
    <3>2. /\ controls'[p].awaits = key /\ controls'[p].awaitsOld = head.old
          /\ controls'[p].asksKey = controls[p].asksKey
          /\ toPort'[p] = Tail(toPort[p]) /\ toControl'[p] = toControl[p]
      BY <1>1, <1>2, <3>1 DEF PortTypes, ControlRecords
    <3>3. fair => IsAwaited(p)'
      BY <1>1, <1>3, <2>2, <3>1, <3>2 DEF IsAwaited, IsSent, NothingAwaited, SameRequest
    <3>4. Answered(p)'
      BY <1>7, <3>1, <3>2, <3>3
    <3>5. \A q \in Processes \ {p} : toPort'[q] = toPort[q] /\ toControl'[q] = toControl[q] /\ controls'[q] = controls[q]
      BY <1>1, <3>1 DEF PortTypes
    <3> QED BY <1>1, <3>4, <3>5, OthersNotConcerned
  <2> QED BY <2>1, <2>2
<1>11. CASE RequestNextKeyInfo(p)
  <2>1. /\ controls' = [controls EXCEPT ![p].asksKey = TRUE]
        /\ toPort' = [toPort EXCEPT ![p] = Tail(@)] /\ toControl' = toControl
        /\ head.type = "next_key_info"
    BY <1>11 DEF RequestNextKeyInfo, Received
  <2>2. /\ controls'[p].awaits = controls[p].awaits /\ controls'[p].asksKey
        /\ toPort'[p] = Tail(toPort[p]) /\ toControl'[p] = toControl[p]
    BY <1>1, <1>2, <2>1 DEF PortTypes, ControlRecords
  <2>3. fair => IsAsked(p)'
    BY <1>1, <1>3, <2>1, <2>2 DEF IsAsked, IsSent, NothingAwaited, SameRequest, Busy, Request
  <2>4. Answered(p)'
    BY <1>7, <2>1, <2>2, <2>3
  <2>5. \A q \in Processes \ {p} : toPort'[q] = toPort[q] /\ toControl'[q] = toControl[q] /\ controls'[q] = controls[q]
    BY <1>1, <2>1 DEF PortTypes
  <2> QED BY <1>1, <2>4, <2>5, OthersNotConcerned
<1>12. CASE SetInstanceId(p)
  <2> DEFINE id == head.name
             m == VirtualKeyStateReply("Up", head.old)
  <2>1. /\ controls' = IF controls[p].id # id THEN TakenOver(p, id) ELSE controls
        /\ toPort' = [q \in Processes |-> IF controls'[q].open THEN IF q = p THEN Tail(toPort[p]) ELSE toPort[q]
                                           ELSE << >>]
        /\ toControl' = [toControl EXCEPT ![p] = Append(@, m)]
    BY <1>12 DEF SetInstanceId
  <2>2. /\ controls'[p].awaits = controls[p].awaits /\ controls'[p].asksKey = controls[p].asksKey
        /\ controls'[p].open = controls[p].open
    BY <1>1, <1>2, <2>1 DEF TakenOver, PortTypes, ControlRecords
  <2>3. \A q \in Processes \ {p} : controls'[q] = controls[q] \/ ~controls'[q].open
    BY <1>1, <2>1, NewControls DEF TakenOver, PortTypes
  <2>4. toPort'[p] = Tail(toPort[p]) /\ toControl'[p] = Append(toControl[p], m) /\ m.old = head.old
    <3>1. toPort'[p] = Tail(toPort[p])
      BY <1>2, <2>1, <2>2 DEF Connected
    <3> QED BY <1>1, <2>1, <3>1 DEF PortTypes, VirtualKeyStateReply
  <2>5. Answered(p)'
    BY <1>6, <2>2, <2>4
  <2>6. ASSUME NEW q \in Processes \ {p} PROVE Answered(q)'
    <3>1. toControl'[q] = toControl[q] /\ (controls'[q].open => toPort'[q] = toPort[q])
      BY <1>1, <2>1 DEF PortTypes
    <3> QED BY <1>1, <2>3, <3>1, NotConcerned DEF SameControl
  <2> QED BY <2>5, <2>6 DEF AnswersInv, Answered
<1> QED BY <1>9, <1>10, <1>11, <1>12 DEF PortReads, ReadMessage

\* Whoever is not asked for anything waits for nothing.
LEMMA ClosesAnswers ==
  ASSUME Types, AnswersInv, ClientLosesServer \/ \E p \in Processes : PortErases(p) \/ End(p)
  PROVE  AnswersInv'
<1>1. PortTypes /\ ProcessTypes /\ \A q \in Processes : Answered(q)
  BY PartsOfTypes DEF AnswersInv, Answered
<1>2. phase \in [Processes -> {"off", "idle", "reading", "waiting", "ended"}] /\ DOMAIN at = Processes
  BY DEF Types, ControlTypeOK
<1>3. CASE ClientLosesServer
  <2>1. ASSUME NEW q \in Processes PROVE SameRequest(q) /\ ~controls'[q].open
    BY <1>3, NewControls DEF ClientLosesServer, PortReset, Reset, ctl_vars, SameRequest
  <2>2. ASSUME NEW q \in Processes PROVE Answered(q)'
    BY <1>1, <2>1, NotConcerned
  <2> QED BY <2>2 DEF AnswersInv, Answered
<1>4. ASSUME NEW p \in Processes, PortErases(p) PROVE AnswersInv'
  <2>1. ASSUME NEW q \in Processes
        PROVE  SameRequest(q) /\ toControl' = toControl /\
               IF q = p THEN ~controls'[q].open ELSE controls'[q] = controls[q] /\ toPort'[q] = toPort[q]
    BY <1>1, <1>4, NewControls DEF PortErases, Erase, ctl_vars, ghost_vars, SameRequest, PortTypes
  <2>2. Answered(p)'
    BY <1>1, <2>1, NotConcerned
  <2> QED BY <1>1, <2>1, <2>2, OthersNotConcerned
<1>5. ASSUME NEW p \in Processes, End(p) PROVE AnswersInv'
  <2>1. ASSUME NEW q \in Processes \ {p}
        PROVE  SameRequest(q) /\ controls' = controls /\ toPort' = toPort /\ toControl'[q] = toControl[q]
    BY <1>1, <1>2, <1>5 DEF End, SameRequest, PortTypes, ProcessTypes
  <2>2. phase'[p] = "ended" /\ mistaken'[p] = FALSE
    BY <1>1, <1>2, <1>5 DEF End, ProcessTypes
  <2>3. Answered(p)'
    BY <2>2 DEF Answered, OneAnswer, WaitsForKey, Busy
  <2>4. controls' = controls /\ toPort' = toPort
    BY <1>5 DEF End
  <2> QED BY <2>1, <2>3, <2>4, OthersNotConcerned
<1> QED BY <1>3, <1>4, <1>5

LEMMA StartsAnswers ==
  ASSUME Types, AnswersInv, NEW p \in Processes, Start(p) \/ Restart(p)
  PROVE  AnswersInv'
<1>1. PortTypes /\ ProcessTypes /\ \A q \in Processes : Answered(q)
  BY PartsOfTypes DEF AnswersInv, Answered
<1>2. phase \in [Processes -> {"off", "idle", "reading", "waiting", "ended"}] /\ DOMAIN at = Processes
  BY DEF Types, ControlTypeOK
<1>3. /\ phase'[p] = "idle" /\ commands' = commands
      /\ \A q \in Processes \ {p} : phase'[q] = phase[q] /\ at'[q] = at[q]
  BY <1>2 DEF Start, Restart, AtRestart
<1>4. CASE Opened(p)
  <2>1. /\ toPort'[p] = << >> /\ toControl'[p] = << >> /\ controls'[p] = NewControl
        /\ ~gaveUp'[p] /\ ~mistaken'[p]
    BY <1>1, <1>4 DEF Opened, PortTypes, ProcessTypes
  <2>2. Answered(p)'
    BY <1>3, <2>1, NewControls DEF Answered, OneAnswer, IsQuiet, NothingAwaited, WaitsForKey, Busy
  <2>3. ASSUME NEW q \in Processes \ {p}
        PROVE  SameRequest(q) /\ controls'[q] = controls[q] /\ toPort'[q] = toPort[q] /\ toControl'[q] = toControl[q]
    BY <1>1, <1>3, <1>4 DEF Opened, SameRequest, PortTypes, ProcessTypes
  <2> QED BY <2>2, <2>3, OthersNotConcerned
<1>5. CASE Restart(p) /\ UNCHANGED <<vars, port_vars, result, inBuffer, ghost_vars>>
  <2>1. phase = phase' /\ phase[p] = "idle"
    BY <1>5 DEF Restart, AtRestart
  <2>2. Answered(p)'
    BY <1>1, <1>5, <2>1
       DEF port_vars, ghost_vars, Answered, OneAnswer, Connected, IsQuiet, NothingAwaited, WaitsForKey, Busy
  <2> QED BY <1>3, <1>5, <2>2, OthersNotConcerned DEF port_vars, ghost_vars, SameRequest
<1> QED BY <1>4, <1>5 DEF Start, Restart

LEMMA OutdatedNothing == Outdated(<< >>) = << >> /\ \A m : Outdated(<< >>) \o <<m>> = <<m>>
<1>1. Outdated(<< >>) = << >>
  BY DEF Outdated
<1>2. ASSUME NEW m PROVE << >> \o <<m>> = <<m>>
  <2>1. <<m>> \in Seq({m})
    OBVIOUS
  <2> QED BY <2>1, ConcatEmptySeq
<1> QED BY <1>1, <1>2

LEMMA MakesRequestAnswers ==
  ASSUME IInv, Types, AnswersInv, NEW p \in Processes, MakesRequest(p)
  PROVE  AnswersInv'
<1>1. PortTypes /\ ProcessTypes /\ \A q \in Processes : Answered(q)
  BY PartsOfTypes DEF AnswersInv, Answered
<1>2. phase \in [Processes -> {"off", "idle", "reading", "waiting", "ended"}] /\ DOMAIN at = Processes
  BY DEF Types, ControlTypeOK
<1>3. PICK lines \in Nat : MakeRequest(p, lines)
  BY CommandLinesAreRequests DEF MakesRequest
<1>4. /\ phase[p] = "idle" /\ Request(p) \in CommandRequests /\ Request(p).op # "restart" /\ commands' = commands
      /\ mistaken'[p] = FALSE /\ \A q \in Processes \ {p} : mistaken'[q] = mistaken[q]
  <2>1. at[p] \in DOMAIN commands[p]
    BY <1>3 DEF MakeRequest, IInv, Shape
  <2> QED BY <1>1, <1>3, <2>1, RequestType DEF MakeRequest, ProcessTypes
<1>5. CASE ~Connected(p)
  <2>1. phase' = phase /\ gaveUp' = gaveUp /\ UNCHANGED port_vars /\ at' = [at EXCEPT ![p] = @ + 1]
    BY <1>3, <1>5 DEF MakeRequest
  <2>2. Answered(p)'
    BY <1>4, <1>5, <2>1 DEF Answered, OneAnswer, WaitsForKey, Connected, port_vars
  <2> QED BY <1>2, <1>4, <2>1, <2>2, OthersNotConcerned DEF SameRequest, port_vars
<1>6. CASE Connected(p)
  <2> DEFINE sent == MessagesOf(Request(p), lines)
  <2>1. /\ Send(p, sent) /\ phase' = [phase EXCEPT ![p] = "reading"] /\ at' = at
        /\ gaveUp' = [gaveUp EXCEPT ![p] = @ \/ Request(p).op = "type_stdin"]
    BY <1>3, <1>6 DEF MakeRequest
  <2>2. /\ phase'[p] = "reading" /\ \A q \in Processes \ {p} : phase'[q] = phase[q]
        /\ gaveUp'[p] = (gaveUp[p] \/ Request(p).op = "type_stdin")
        /\ \A q \in Processes \ {p} : gaveUp'[q] = gaveUp[q]
    BY <1>1, <1>2, <2>1 DEF ProcessTypes
  <2> HIDE DEF sent
  <2>3. /\ toPort'[p] = Outdated(toPort[p]) \o sent /\ toControl'[p] = Outdated(toControl[p])
        /\ controls'[p] = [controls[p] EXCEPT !.awaitsOld = (controls[p].awaits # None)]
        /\ \A q \in Processes \ {p} :
             toPort'[q] = toPort[q] /\ toControl'[q] = toControl[q] /\ controls'[q] = controls[q]
    BY <1>1, <2>1, Zenon DEF Send, PortTypes
  <2>4. Request(p)' = Request(p)
    BY <1>4, <2>1 DEF Request
  <2>5. ASSUME ~gaveUp'[p] PROVE IsSent(p)'
    <3>1. Request(p).op # "type_stdin" /\ ~gaveUp[p]
      BY <2>2, <2>5
    <3>2. IsQuiet(p)
      BY <1>1, <1>4, <1>6, <3>1 DEF Answered, OneAnswer
    <3> DEFINE m == MessagesOf(Request(p), 1)[1]
    <3>3. sent = <<m>> /\ m \in Requested
      BY <1>4, <3>1, OneMessage DEF sent
    <3>4. Pending(p)' = m
      BY <2>2, <2>4 DEF Pending
    <3> HIDE DEF m
    <3>5. toPort'[p] = <<m>> /\ toControl'[p] = << >>
      BY <2>3, <3>2, <3>3, OutdatedNothing DEF IsQuiet
    <3>6. NothingAwaited(p)'
      BY <1>1, <2>3, <3>2 DEF IsQuiet, NothingAwaited, PortTypes, ControlRecords
    <3> QED BY <3>4, <3>5, <3>6 DEF IsSent
  <2>6. Answered(p)'
    BY <1>4, <2>2, <2>5 DEF Answered, OneAnswer, WaitsForKey
  <2> QED BY <1>4, <2>1, <2>2, <2>3, <2>6, OthersNotConcerned DEF SameRequest
<1> QED BY <1>5, <1>6

\* The answer is read, and the process may wait for the key of its request.
LEMMA ReadAnswers ==
  ASSUME IInv, Types, AnswersInv, NEW p \in Processes, ReadSome(p)
  PROVE  AnswersInv'
<1>1. PortTypes /\ ProcessTypes /\ \A q \in Processes : Answered(q)
  BY PartsOfTypes DEF AnswersInv, Answered
<1>2. phase \in [Processes -> {"off", "idle", "reading", "waiting", "ended"}] /\ DOMAIN at = Processes
  BY DEF Types, ControlTypeOK
<1>3. PICK parts \in inBuffer[p]..(2 * Len(toControl[p])) : Read(p, parts)
  BY DEF ReadSome
<1> DEFINE complete == parts \div 2
           q == toControl[p]
           m == Message("request_virtual_key_toggle_notification", Request(p).name, "Not")
<1>4. /\ Busy(p) /\ Connected(p) /\ Request(p) \in CommandRequests /\ commands' = commands
  BY <1>3, RequestType DEF Read, Busy, IInv, BusyIsAtRequest
<1>5. ASSUME NEW res, Finish(p, res)
      PROVE  /\ phase'[p] = "idle" /\ \A r \in Processes \ {p} : phase'[r] = phase[r] /\ at'[r] = at[r]
  BY <1>2, <1>5 DEF Finish
<1>6. CASE \E res \in {"connection_failed", "timeout"} :
             Finish(p, res) /\ UNCHANGED <<toControl, toPort, controls, mistaken>>
               /\ gaveUp' = [gaveUp EXCEPT ![p] = TRUE]
  <2>1. phase'[p] = "idle" /\ gaveUp'[p] /\ \A r \in Processes \ {p} : gaveUp'[r] = gaveUp[r]
    BY <1>1, <1>5, <1>6 DEF ProcessTypes
  <2>2. Answered(p)'
    BY <2>1 DEF Answered, OneAnswer, WaitsForKey
  <2>3. \A r \in Processes \ {p} : SameRequest(r)
    BY <1>4, <1>5, <1>6, <2>1 DEF SameRequest
  <2> QED BY <1>6, <2>2, <2>3, OthersNotConcerned
<1>7. CASE /\ complete > 0 /\ Proceed(p, q[complete])
           /\ toControl' = [toControl EXCEPT ![p] =
                SubSeq(IF phase'[p] = "waiting" THEN Outdated(@) ELSE @, complete + 1, Len(@))]
           /\ mistaken' = [mistaken EXCEPT ![p] = @ \/ q[complete].old]
           /\ UNCHANGED gaveUp
  <2>1. complete \in 1..Len(q) /\ q \in Seq(Replies)
    BY <1>1, <1>7, ReadsParts DEF PortTypes
  <2>2. /\ toControl'[p] = SubSeq(IF phase'[p] = "waiting" THEN Outdated(q) ELSE q, complete + 1, Len(q))
        /\ mistaken'[p] = (mistaken[p] \/ q[complete].old)
        /\ \A r \in Processes \ {p} : toControl'[r] = toControl[r] /\ mistaken'[r] = mistaken[r]
    BY <1>1, <1>7 DEF PortTypes, ProcessTypes
  <2> HIDE DEF complete, q
  <2>3. ASSUME ~gaveUp[p]
        PROVE  /\ toPort[p] = << >> /\ NothingAwaited(p) /\ Len(q) = 1 /\ complete = 1
               /\ ~mistaken'[p] /\ toControl'[p] = << >>
    <3>1. q # << >>
      BY <2>1
    <3>2. IsAnswered(p)
      BY <1>1, <1>4, <2>3, <3>1 DEF Answered, OneAnswer, IsSent, IsAwaited, IsAsked, q
    <3>3. Len(q) = 1 /\ complete = 1
      BY <2>1, <3>2 DEF IsAnswered, q
    <3>4. toControl'[p] = << >>
      <4>1. \A s : SubSeq(s, 2, 1) = << >>
        BY SubSeqEmpty
      <4>2. Outdated(q) \in Seq(Replies)
        BY <2>1, OutdatedTypes
      <4> QED BY <2>1, <2>2, <3>3, <4>1, <4>2
    <3> QED BY <1>1, <2>2, <2>3, <3>2, <3>3, <3>4 DEF IsAnswered, Answered, q
  <2>4. mistaken'[p] => gaveUp'[p]
    BY <1>7, <2>3
  <2>5. CASE \E res : Finish(p, res) /\ UNCHANGED <<toPort, controls>>
    <3>1. phase'[p] = "idle" /\ \A r \in Processes \ {p} : SameRequest(r)
      BY <1>4, <1>5, <1>7, <2>2, <2>5 DEF SameRequest
    <3>2. Answered(p)'
      BY <1>7, <2>3, <2>4, <2>5, <3>1
         DEF Answered, OneAnswer, WaitsForKey, IsQuiet, NothingAwaited, Busy
    <3> QED BY <2>2, <2>5, <3>1, <3>2, OthersNotConcerned
  <2>6. CASE phase[p] = "reading" /\ ~IsDone(Request(p).op, q[complete].state)
    <3> HIDE DEF m
    <3>1. /\ toPort' = [toPort EXCEPT ![p] = Outdated(@) \o <<m>>]
          /\ controls' = [controls EXCEPT ![p].awaitsOld = (controls[p].awaits # None)]
          /\ phase' = [phase EXCEPT ![p] = "waiting"] /\ at' = at
      BY <1>7, <2>6, Zenon DEF Proceed, m, q
    <3>2. /\ toPort'[p] = Outdated(toPort[p]) \o <<m>>
          /\ controls'[p] = [controls[p] EXCEPT !.awaitsOld = (controls[p].awaits # None)]
          /\ \A r \in Processes \ {p} : toPort'[r] = toPort[r] /\ controls'[r] = controls[r]
      BY <1>1, <3>1, Zenon DEF PortTypes
    <3>3. phase'[p] = "waiting" /\ \A r \in Processes \ {p} : SameRequest(r)
      BY <1>2, <1>4, <1>7, <2>2, <3>1 DEF SameRequest
    <3>4. Request(p)' = Request(p) /\ Request(p).op \in WaitOps
      BY <1>4, <2>6, <3>1 DEF Request, IsDone
    <3>5. Pending(p)' = m
      BY <3>3, <3>4 DEF Pending, Message, m
    <3>6. ASSUME ~gaveUp[p] PROVE IsSent(p)'
      <4>1. toPort'[p] = <<m>>
        BY <2>3, <3>2, <3>6, OutdatedNothing
      <4>2. NothingAwaited(p)'
        BY <1>1, <2>3, <3>2, <3>6 DEF NothingAwaited, PortTypes, ControlRecords
      <4> QED BY <2>3, <3>5, <3>6, <4>1, <4>2 DEF IsSent
    <3>7. Answered(p)'
      BY <1>7, <2>4, <3>3, <3>4, <3>6 DEF Answered, OneAnswer, WaitsForKey
    <3> QED BY <2>2, <3>2, <3>3, <3>7, OthersNotConcerned
  <2> QED BY <1>7, <2>5, <2>6 DEF Proceed, q
<1> QED BY <1>3, <1>6, <1>7 DEF Read

LEMMA ReadFailsAnswers ==
  ASSUME Types, AnswersInv, NEW p \in Processes, ReadFails(p)
  PROVE  AnswersInv'
<1>1. /\ phase \in [Processes -> {"off", "idle", "reading", "waiting", "ended"}] /\ DOMAIN at = Processes
      /\ Answered(p)
  BY DEF Types, ControlTypeOK, AnswersInv, Answered
<1>2. phase'[p] = "idle" /\ ~Connected(p)'
  BY <1>1 DEF ReadFails, Finish, port_vars, Connected
<1>3. Answered(p)'
  BY <1>1, <1>2 DEF Answered, OneAnswer, WaitsForKey, ReadFails, ghost_vars
<1>4. \A q \in Processes \ {p} : SameRequest(q)
  BY <1>1 DEF ReadFails, Finish, SameRequest, ghost_vars
<1> QED BY <1>3, <1>4, OthersNotConcerned DEF ReadFails, port_vars

LEMMA AnswersInit == ControlInit => AnswersInv
BY NewControls DEF ControlInit, PortInit, AnswersInv, OneAnswer, WaitsForKey, Connected, Busy

LEMMA AnswersKept == IInv /\ Types /\ AnswersInv /\ [ControlNext]_control_vars => AnswersInv'
<1> SUFFICES ASSUME IInv, Types, AnswersInv, [ControlNext]_control_vars PROVE AnswersInv'
  OBVIOUS
<1>1. CASE UNCHANGED control_vars
  <2>1. ASSUME NEW p \in Processes PROVE Answered(p)'
    BY <1>1, NotConcerned
       DEF control_vars, port_vars, ctl_vars, ghost_vars, SameRequest, SameControl, AnswersInv, Answered
  <2> QED BY <2>1 DEF AnswersInv, Answered
<1>2. CASE ControlNext
  BY <1>2, AroundAnswers, ClosesAnswers, ReadsAnswers, StartsAnswers, MakesRequestAnswers, ReadAnswers,
     ReadFailsAnswers DEF ControlNext, ControlStep
<1> QED BY <1>1, <1>2

\* An answer is taken for the request it is for, as long as the process waited
\* for all its answers (make_request, read_virtual_key_state).
THEOREM AnswersAlwaysMatch == ControlSpec => []AnswersMatch
<1>1. AnswersInv => AnswersMatch
  BY DEF AnswersInv, AnswersMatch
<1> QED BY <1>1, AnswersInit, AnswersKept, PromisesKept, PTL DEF ControlSpec

-----------------------------------------------------------------------------
(* Every step keeps the answers true. *)

\* What is seen is never forgotten while a process waits.
LEMMA Observed ==
  ASSUME Observe, NEW p \in Processes, AsksForKey(p)'
  PROVE  /\ StatesOf(p)' \subseteq seen'[p]
         /\ Busy(p) => seen[p] \subseteq seen'[p] /\ Notified(p) \subseteq seen'[p]
<1> DEFINE kept == IF Busy(p) THEN seen[p] \cup Notified(p) ELSE {}
<1>1. seen'[p] = StatesOf(p)' \cup kept
  BY DEF Observe, AsksForKey
<1> QED BY <1>1

\* The answer of a process stays, or it is not answered yet.
LEMMA AnswerStays ==
  ASSUME Observe, NEW p \in Processes, AnswerIsTrue(p),
         AsksForKey(p)' => \/ toControl'[p] = << >>
                           \/ /\ AsksForKey(p) /\ toControl'[p] = toControl[p]
                              /\ phase'[p] = phase[p] /\ at'[p] = at[p] /\ commands' = commands
  PROVE  AnswerIsTrue(p)'
<1>1. SUFFICES ASSUME AsksForKey(p)' PROVE AnswerIsTrue(p)'
  BY DEF AnswerIsTrue
<1>2. StatesOf(p)' \subseteq seen'[p]
  BY <1>1, Observed
<1>3. CASE toControl'[p] = << >>
  BY <1>2, <1>3 DEF AnswerIsTrue
<1>4. CASE /\ AsksForKey(p) /\ toControl'[p] = toControl[p]
           /\ phase'[p] = phase[p] /\ at'[p] = at[p] /\ commands' = commands
  <2>1. seen[p] \subseteq seen'[p]
    BY <1>1, <1>4, Observed DEF AsksForKey
  <2>2. Request(p)' = Request(p)
    BY <1>4 DEF Request
  <2>3. IsTrue(p) => IsTrue(p)'
    BY <2>1, <2>2 DEF IsTrue
  <2> QED BY <1>2, <1>4, <2>1, <2>2, <2>3 DEF AnswerIsTrue
<1> QED BY <1>1, <1>3, <1>4

\* What is sent is about the key of the request.
LEMMA PendingIsAboutKey ==
  ASSUME IInv, NEW p \in Processes, AsksForKey(p)
  PROVE  /\ Pending(p).name = Request(p).name
         /\ phase[p] = "reading" /\ Request(p).op \notin {"press", "release", "toggle"} =>
              Pending(p).type = "get_virtual_key_state"
<1>1. CASE phase[p] = "waiting"
  BY <1>1 DEF Pending, Message
<1>2. CASE phase[p] = "reading"
  <2> DEFINE r == Request(p)
             m == MessagesOf(r, 1)[1]
  <2>1. r \in CommandRequests /\ r.op \notin {"restart", "type_stdin"}
    BY <1>2, RequestType DEF IInv, BusyIsAtRequest, AsksForKey, KeyOps, WaitOps
  <2>2. r.op \notin {"press", "release", "toggle"} => r.op \in {"is_pressed", "is_released"} \cup WaitOps
    BY DEF AsksForKey, KeyOps
  <2> HIDE DEF r
  <2>3. m.name = r.name /\ (m.type = "get_virtual_key_state" <=> r.op \in {"is_pressed", "is_released"} \cup WaitOps)
    BY <2>1, OneMessage
  <2>4. Pending(p) = m
    BY <1>2 DEF Pending, r
  <2> HIDE DEF m
  <2> QED BY <1>2, <2>2, <2>3, <2>4 DEF r
<1> QED BY <1>1, <1>2 DEF AsksForKey, Busy

\* Whoever waits for a key is notified of it only for what it waits for: the
\* key changed, or is pressed although it is already.
LEMMA NotifiedIsTrue ==
  ASSUME Types, ReleasesAreTold, Observe, NEW p \in Processes, MirrorVirtualKeyState,
         AsksForKey(p)', Busy(p), Request(p).op \in WaitOps, StatesOf(p) \subseteq seen[p],
         Awaits(p, Head(toClient).key)
  PROVE  \E states \in Grounds(Request(p).op) : states \subseteq seen'[p]
<1> DEFINE message == Head(toClient)
           key == message.key
           awaited == controls[p].awaits
<1>1. seen[p] \subseteq seen'[p] /\ Notified(p) \subseteq seen'[p]
  BY Observed
<1>2. /\ toClient # << >> /\ message \in ClientMessages /\ message.type = "virtual_key_state"
      /\ mirror' = Mirrored(message) /\ toClient \in Seq(ClientMessages)
  BY PartsOfTypes DEF MirrorVirtualKeyState, ReadVirtualKeyState, TypeOK
<1>3. key \in VirtualKeys /\ message.state \in {"Up", "Down"} /\ message = VirtualKeyState(key, message.state)
  BY <1>2 DEF ClientMessages, VirtualKeyState
<1>4. awaited \in {key, Any} /\ awaited # None
  BY <1>3, NamesDenoteKeys, ConstantsAreDistinct DEF Awaits, SettableKeys
<1>5. awaited \in KeysOf(p) /\ KeyStateIn(mirror', awaited) \in seen'[p]
  BY <1>1, <1>4 DEF KeysOf, Notified
<1>6. KeyStateIn(mirror, awaited) \in seen'[p]
  BY <1>1, <1>5 DEF StatesOf
<1>7. ASSUME PressedAgain(awaited) PROVE "Again" \in seen'[p]
  BY <1>1, <1>5, <1>7 DEF StatesOf
<1>8. /\ {"Not"} \in Grounds(Request(p).op)
      /\ Request(p).op = "wait_pressed" => {"Down"} \in Grounds(Request(p).op)
      /\ Request(p).op = "wait_released" => {{"Up"}, {"Again"}} \subseteq Grounds(Request(p).op)
      /\ Request(p).op = "wait_toggled" => {{"Up", "Down"}, {"Again"}} \subseteq Grounds(Request(p).op)
  BY DEF Grounds, Witnesses, WaitOps
<1>9. CASE awaited = Any
  <2>1. "Not" \in seen'[p]
    BY <1>6, <1>9, ConstantsAreDistinct DEF KeyStateIn
  <2> QED BY <1>8, <2>1
<1>10. CASE awaited = key /\ message.state = "Down"
  <2>1. "Down" \in seen'[p]
    BY <1>2, <1>3, <1>5, <1>10 DEF Mirrored, KeyStateIn
  <2>2. CASE key \in mirror
    <3>1. "Again" \in seen'[p]
      BY <1>2, <1>3, <1>7, <1>10, <2>2 DEF PressedAgain
    <3> QED BY <1>8, <2>1, <3>1 DEF WaitOps
  <2>3. CASE key \notin mirror
    <3>1. "Up" \in seen'[p]
      BY <1>3, <1>6, <1>10, <2>3 DEF KeyStateIn
    <3> QED BY <1>8, <2>1, <3>1 DEF WaitOps
  <2> QED BY <2>2, <2>3
<1>11. CASE awaited = key /\ message.state = "Up"
  <2>1. "Up" \in seen'[p]
    BY <1>2, <1>3, <1>5, <1>11 DEF Mirrored, KeyStateIn
  <2>2. key \in mirror
    <3>1. 1 \in 1..Len(toClient) /\ toClient[1] = VirtualKeyState(key, "Up")
      BY <1>2, <1>3, <1>11
    <3>2. ToldBefore(toClient, 1, mirror, key)
      BY <1>3, <3>1 DEF ReleasesAreTold, ReleasesFollow
    <3> QED BY <3>2 DEF ToldBefore
  <2>3. "Down" \in seen'[p]
    BY <1>3, <1>6, <1>11, <2>2 DEF KeyStateIn
  <2> QED BY <1>8, <2>1, <2>3 DEF WaitOps
<1> QED BY <1>3, <1>4, <1>9, <1>10, <1>11

LEMMA AroundIsTrue ==
  ASSUME IInv, Types, ReleasesAreTold, AnswersInv, TruthInv, Around, Observe
  PROVE  TruthInv'
<1>1. SUFFICES ASSUME NEW p \in Processes PROVE AnswerIsTrue(p)'
  BY DEF TruthInv
<1>2. /\ UNCHANGED <<phase, commands, at, gaveUp>> /\ AnswerIsTrue(p) /\ Answered(p)
      /\ PortTypes
  BY PartsOfTypes DEF Around, ctl_vars, ghost_vars, TruthInv, AnswersInv, Answered
<1>3. Busy(p)' = Busy(p) /\ Request(p)' = Request(p)
  BY <1>2 DEF Busy, Request
<1>4. ASSUME toControl'[p] = toControl[p], controls'[p].open = controls[p].open PROVE AnswerIsTrue(p)'
  <2>1. AsksForKey(p)' => AsksForKey(p)
    BY <1>2, <1>3, <1>4 DEF AsksForKey, Connected
  <2> QED BY <1>2, <1>4, <2>1, AnswerStays
<1>5. CASE ConnectServer \/ ServerActs
  BY <1>4, <1>5 DEF ConnectServer, ServerActs
<1>6. CASE MirrorVirtualKeyState
  <2> DEFINE key == Head(toClient).key
  <2>1. CASE ~Awaits(p, key)
    BY <1>4, <1>6, <2>1 DEF MirrorVirtualKeyState, NotifyControls
  <2>2. CASE Awaits(p, key)
    <3>1. SUFFICES ASSUME AsksForKey(p)' PROVE AnswerIsTrue(p)'
      BY DEF AnswerIsTrue
    <3>2. controls'[p].open = controls[p].open
      <4>1. controls'[p] = [controls[p] EXCEPT !.awaits = None, !.awaitsOld = FALSE]
        BY <1>6, <2>2 DEF MirrorVirtualKeyState, NotifyControls
      <4>2. controls[p] \in ControlRecords
        BY <1>2 DEF PortTypes
      <4> QED BY <4>1, <4>2 DEF ControlRecords
    <3>3. AsksForKey(p) /\ Busy(p) /\ StatesOf(p) \subseteq seen[p]
      BY <1>2, <1>3, <3>1, <3>2 DEF AsksForKey, Connected, AnswerIsTrue
    <3>4. controls[p].awaits # None
      <4>1. Head(toClient) \in ClientMessages /\ Head(toClient).type = "virtual_key_state"
        BY <1>6, PartsOfTypes DEF MirrorVirtualKeyState, ReadVirtualKeyState, TypeOK
      <4> QED BY <2>2, <4>1, NamesDenoteKeys, ConstantsAreDistinct DEF Awaits, ClientMessages, SettableKeys
    <3>5. phase[p] = "waiting" /\ Request(p).op \in WaitOps
      BY <1>2, <3>3, <3>4
         DEF Answered, OneAnswer, WaitsForKey, AsksForKey, IsSent, IsAwaited, IsAsked, IsAnswered, NothingAwaited
    <3>6. \E states \in Grounds(Request(p).op) : states \subseteq seen'[p]
      BY <1>6, <2>2, <3>1, <3>3, <3>5, NotifiedIsTrue
    <3>7. IsTrue(p)'
      BY <1>3, <3>6 DEF IsTrue
    <3> QED BY <1>2, <3>1, <3>5, <3>7, Observed DEF AnswerIsTrue
  <2> QED BY <2>1, <2>2
<1>7. CASE ReadNextKeyInfo
  <2>1. controls'[p] = [controls[p] EXCEPT !.asksKey = FALSE] /\ controls[p] \in ControlRecords
    BY <1>2, <1>7 DEF ReadNextKeyInfo, PortTypes
  <2>2. controls'[p].open = controls[p].open /\ controls[p].asksKey \in BOOLEAN
    BY <2>1 DEF ControlRecords
  <2>3. CASE ~controls[p].asksKey
    BY <1>4, <1>7, <2>2, <2>3 DEF ReadNextKeyInfo
  <2>4. CASE controls[p].asksKey
    <3>1. ~AsksForKey(p)'
      <4>1. SUFFICES ASSUME AsksForKey(p)' PROVE FALSE
        OBVIOUS
      <4>2. AsksForKey(p)
        BY <1>2, <1>3, <2>2, <4>1 DEF AsksForKey, Connected
      <4>3. Request(p).op = "next_key_info"
        BY <1>2, <2>4, <4>2
           DEF Answered, OneAnswer, AsksForKey, IsSent, IsAwaited, IsAsked, IsAnswered, NothingAwaited
      <4> QED BY <4>2, <4>3 DEF AsksForKey, KeyOps, WaitOps
    <3> QED BY <3>1 DEF AnswerIsTrue
  <2> QED BY <2>2, <2>3, <2>4
<1> QED BY <1>5, <1>6, <1>7 DEF Around

\* The port answers from its copy of the keys, that a name denotes no key, or
\* what nobody takes for the state of a key.
LEMMA ReadsAreTrue ==
  ASSUME IInv, Types, AnswersInv, TruthInv, NEW p \in Processes, PortReads(p), Observe
  PROVE  TruthInv'
<1>1. SUFFICES ASSUME NEW q \in Processes, AsksForKey(q)' PROVE AnswerIsTrue(q)'
  BY DEF TruthInv, AnswerIsTrue
<1>2. /\ UNCHANGED <<phase, commands, at, gaveUp>> /\ AnswerIsTrue(q) /\ Answered(q) /\ PortTypes
      /\ Busy(q)' = Busy(q) /\ Request(q)' = Request(q)
  BY PartsOfTypes DEF PortReads, ctl_vars, TruthInv, AnswersInv, Answered, Busy, Request
<1>3. toPort[p] # << >> /\ Connected(p) /\ Head(toPort[p]) \in Requested /\ controls[p] \in ControlRecords
  BY <1>2, RepliesTypes
     DEF PortReads, ReadMessage, GetVirtualKeyState, SetKeyState, RequestToggleNotification, SetInstanceId,
         SetConfigFile, RequestNextKeyInfo, Inject, Received, PortTypes
<1>4. ASSUME toControl'[q] = toControl[q], controls'[q].open => controls[q].open PROVE AnswerIsTrue(q)'
  <2>1. AsksForKey(q)
    BY <1>1, <1>2, <1>4 DEF AsksForKey, Connected
  <2> QED BY <1>2, <1>4, <2>1, AnswerStays
<1>5. CASE q # p
  <2>1. toControl'[q] = toControl[q]
    BY <1>2, <1>5
       DEF PortReads, ReadMessage, GetVirtualKeyState, SetKeyState, RequestToggleNotification, SetInstanceId,
           SetConfigFile, RequestNextKeyInfo, Inject, Reply, ReplyResult, PortTypes
  <2>2. controls'[q].open => controls[q].open
    <3>1. controls'[q] = controls[q] \/ controls'[q] = NoControl
      BY <1>2, <1>5
         DEF PortReads, ReadMessage, GetVirtualKeyState, SetKeyState, RequestToggleNotification, SetInstanceId,
             SetConfigFile, RequestNextKeyInfo, Inject, TakenOver, PortTypes
    <3> QED BY <3>1, NewControls
  <2> QED BY <1>4, <2>1, <2>2
<1>6. CASE q = p
  <2> DEFINE head == Head(toPort[p])
  <2>1. /\ AsksForKey(p) /\ Busy(p) /\ IsSent(p)
    BY <1>1, <1>2, <1>3, <1>6
       DEF AsksForKey, Answered, OneAnswer, IsAwaited, IsAsked, IsAnswered
  <2>2. /\ head = Pending(p) /\ toControl[p] = << >> /\ head.name = Request(p).name
        /\ head.type = "request_virtual_key_toggle_notification" <=> phase[p] = "waiting"
        /\ phase[p] = "reading" /\ Request(p).op \notin {"press", "release", "toggle"} =>
             head.type = "get_virtual_key_state"
    BY <2>1, PendingFacts, PendingIsAboutKey DEF IsSent
  <2>3. /\ StatesOf(p) \subseteq seen'[p] /\ GetVirtualKey(head.name) \in KeysOf(p) /\ phase[p] \in {"reading", "waiting"}
        /\ StatesOf(p)' \subseteq seen'[p]
    BY <1>1, <1>2, <1>6, <2>1, <2>2, Observed DEF AnswerIsTrue, KeysOf, Busy
  <2>4. KeyStateIn(mirror, GetVirtualKey(head.name)) \in seen'[p]
    BY <2>3 DEF StatesOf
  <2>5. CASE Request(p).op \in {"press", "release", "toggle"} /\ phase[p] = "reading"
    BY <1>2, <1>6, <2>3, <2>5 DEF AnswerIsTrue
  <2>6. CASE Request(p).op \notin {"press", "release", "toggle"} /\ phase[p] = "reading"
    <3>1. GetVirtualKeyState(p)
      BY <2>2, <2>6
         DEF PortReads, ReadMessage, SetKeyState, RequestToggleNotification, SetInstanceId,
             SetConfigFile, RequestNextKeyInfo, Inject, Received
    <3> DEFINE m == VirtualKeyStateReply(KeyStateIn(mirror, GetVirtualKey(head.name)), head.old)
    <3>2. toControl'[p] = Append(toControl[p], m)
      BY <1>2, <3>1 DEF GetVirtualKeyState, Reply, PortTypes
    <3>3. toControl'[p][1] = m
      BY <2>2, <3>2
    <3>4. toControl'[p][1].state \in seen'[p]
      BY <2>4, <3>3 DEF VirtualKeyStateReply
    <3> QED BY <1>2, <1>6, <2>3, <2>6, <3>4 DEF AnswerIsTrue
  <2>7. CASE phase[p] = "waiting"
    <3>1. RequestToggleNotification(p)
      BY <2>2, <2>7
         DEF PortReads, ReadMessage, GetVirtualKeyState, SetKeyState, SetInstanceId,
             SetConfigFile, RequestNextKeyInfo, Inject, Received
    <3>2. CASE toControl' = toControl
      BY <1>2, <1>6, <2>2, <2>3, <3>2 DEF AnswerIsTrue
    <3>3. CASE GetVirtualKey(head.name) = None
      <4>1. "Not" \in seen'[p]
        BY <2>4, <3>3, ConstantsAreDistinct DEF KeyStateIn, SettableKeys
      <4>2. Request(p).op \in WaitOps
        BY <1>2, <1>6, <2>7 DEF Answered, WaitsForKey
      <4>3. {"Not"} \in Grounds(Request(p).op)
        BY <4>2 DEF Grounds, Witnesses, WaitOps
      <4>4. IsTrue(p)'
        BY <1>2, <1>6, <4>1, <4>3 DEF IsTrue
      <4> QED BY <1>2, <1>6, <2>3, <2>7, <4>4 DEF AnswerIsTrue
    <3> QED BY <3>1, <3>2, <3>3 DEF RequestToggleNotification
  <2> QED BY <2>3, <2>5, <2>6, <2>7
<1> QED BY <1>5, <1>6

\* What a process does itself: the answer it waits for now is not there yet.
LEMMA ProcessIsTrue ==
  ASSUME IInv, Types, AnswersInv, AnswersInv', Types', TruthInv, Observe, NEW p \in Processes,
         \/ PortErases(p) \/ Start(p) \/ MakesRequest(p) \/ Restart(p) \/ End(p) \/ ReadSome(p) \/ ReadFails(p)
  PROVE  TruthInv'
<1>1. SUFFICES ASSUME NEW q \in Processes, AsksForKey(q)' PROVE AnswerIsTrue(q)'
  BY DEF TruthInv, AnswerIsTrue
<1>2. PortTypes /\ ProcessTypes /\ AnswerIsTrue(q) /\ commands' = commands
  BY PartsOfTypes
     DEF TruthInv, PortErases, Start, MakesRequest, MakeRequest, Restart, End, ReadSome, Read, ReadFails, ctl_vars
<1>3. phase \in [Processes -> {"off", "idle", "reading", "waiting", "ended"}] /\ DOMAIN at = Processes
  BY DEF Types, ControlTypeOK
<1>4. ASSUME toControl'[q] = toControl[q], controls'[q].open => controls[q].open,
             phase'[q] = phase[q], at'[q] = at[q], gaveUp'[q] = gaveUp[q]
      PROVE  AnswerIsTrue(q)'
  <2>1. AsksForKey(q)
    BY <1>1, <1>2, <1>4 DEF AsksForKey, Connected, Busy, Request
  <2> QED BY <1>2, <1>4, <2>1, AnswerStays
<1>5. ASSUME toPort'[q] # << >> PROVE AnswerIsTrue(q)'
  <2>1. toControl'[q] = << >>
    BY <1>1, <1>5 DEF AsksForKey, AnswersInv, OneAnswer, IsSent, IsAwaited, IsAsked, IsAnswered
  <2> QED BY <1>2, <2>1, AnswerStays
<1>6. ASSUME NEW sent \in Seq(Requested), sent # << >>, toPort' = [toPort EXCEPT ![q] = Outdated(@) \o sent]
      PROVE  AnswerIsTrue(q)'
  <2>1. toPort'[q] = Outdated(toPort[q]) \o sent /\ Outdated(toPort[q]) \in Seq(Requested)
    BY <1>2, <1>6, OutdatedTypes DEF PortTypes
  <2>2. toPort'[q] # << >>
    BY <1>6, <2>1, ConcatEqualIffEmpty, EmptySeq, ConcatProperties
  <2> QED BY <1>5, <2>2
<1>7. CASE q # p
  <2> DEFINE Stays == /\ toControl'[q] = toControl[q] /\ (controls'[q].open => controls[q].open)
                      /\ phase'[q] = phase[q] /\ at'[q] = at[q] /\ gaveUp'[q] = gaveUp[q]
  <2>1. ASSUME PortErases(p) \/ End(p) PROVE Stays
    BY <1>2, <1>3, <1>7, <2>1
       DEF PortErases, Erase, End, ctl_vars, port_vars, ghost_vars, PortTypes, ProcessTypes
  <2>2. ASSUME Start(p) \/ Restart(p) PROVE Stays
    BY <1>2, <1>3, <1>7, <2>2
       DEF Start, Opened, Restart, ctl_vars, port_vars, ghost_vars, PortTypes, ProcessTypes
  <2>3. ASSUME MakesRequest(p) PROVE Stays
    BY <1>2, <1>3, <1>7, <2>3
       DEF MakesRequest, MakeRequest, Send, ctl_vars, port_vars, ghost_vars, PortTypes, ProcessTypes
  <2>4. ASSUME ReadSome(p) PROVE Stays
    <3>1. PICK parts : Read(p, parts)
      BY <2>4 DEF ReadSome
    <3>2. toControl'[q] = toControl[q] /\ gaveUp'[q] = gaveUp[q]
      BY <1>2, <1>7, <3>1 DEF Read, PortTypes, ProcessTypes
    <3>3. /\ phase'[q] = phase[q] /\ at'[q] = at[q]
          /\ controls' = controls \/ controls' = [controls EXCEPT ![p].awaitsOld = (controls[p].awaits # None)]
      BY <1>3, <1>7, <3>1 DEF Read, Proceed, Finish
    <3>4. controls'[q].open => controls[q].open
      BY <1>2, <1>7, <3>3 DEF PortTypes
    <3> QED BY <3>2, <3>3, <3>4
  <2>5. ASSUME ReadFails(p) PROVE Stays
    BY <1>2, <1>3, <1>7, <2>5
       DEF ReadFails, Finish, ctl_vars, port_vars, ghost_vars, PortTypes, ProcessTypes
  <2>6. Stays
    BY <2>1, <2>2, <2>3, <2>4, <2>5
  <2> QED BY <1>4, <2>6
<1>8. CASE q = p
  <2>1. phase'[p] \in {"reading", "waiting"}
    BY <1>1, <1>8 DEF AsksForKey, Busy
  <2>2. ~Start(p) /\ ~End(p) /\ ~ReadFails(p) /\ ~Restart(p)
    BY <1>3, <2>1 DEF Start, End, ReadFails, Finish, Restart, AtRestart
  <2>3. CASE PortErases(p)
    BY <1>3, <2>1, <2>3 DEF PortErases, ctl_vars
  <2>4. CASE MakesRequest(p)
    <3>1. PICK lines \in Nat : MakeRequest(p, lines)
      BY <2>4, CommandLinesAreRequests DEF MakesRequest
    <3>2. Send(p, MessagesOf(Request(p), lines)) /\ phase[p] = "idle" /\ Request(p).op # "restart"
          /\ at' = at /\ at[p] \in DOMAIN commands[p]
      BY <1>3, <2>1, <3>1 DEF MakeRequest, IInv, Shape
    <3>3. Request(p) \in CommandRequests /\ Request(p).op # "type_stdin"
      BY <1>1, <1>2, <1>8, <3>2, RequestType DEF AsksForKey, Request, KeyOps, WaitOps
    <3>4. PICK m \in Requested : MessagesOf(Request(p), lines) = <<m>>
      BY <3>2, <3>3, OneMessage
    <3>5. <<m>> \in Seq(Requested) /\ <<m>> # << >>
      OBVIOUS
    <3> QED BY <1>6, <1>8, <3>2, <3>4, <3>5 DEF Send
  <2>5. CASE ReadSome(p)
    <3>1. PICK parts \in inBuffer[p]..(2 * Len(toControl[p])) : Read(p, parts)
      BY <2>5 DEF ReadSome
    <3> DEFINE m == Message("request_virtual_key_toggle_notification", Request(p).name, "Not")
               answer == toControl[p][parts \div 2]
    <3>2. \A res : ~Finish(p, res)
      BY <1>3, <2>1 DEF Finish
    <3>3. phase[p] = "reading" /\ ~IsDone(Request(p).op, answer.state)
          /\ toPort' = [toPort EXCEPT ![p] = Outdated(@) \o <<m>>]
      BY <3>1, <3>2 DEF Read, Proceed
    <3>4. Request(p).op \in WaitOps /\ Request(p) \in CommandRequests
      BY <3>3, RequestType DEF IInv, BusyIsAtRequest, IsDone
    <3>5. m \in Requested
      BY <3>4 DEF Message, Requested, Requests, CommandRequests, WaitOps, KeyOps, OtherOps
    <3> HIDE DEF m
    <3>6. <<m>> \in Seq(Requested) /\ <<m>> # << >>
      BY <3>5
    <3> QED BY <1>6, <1>8, <3>3, <3>6
  <2> QED BY <2>2, <2>3, <2>4, <2>5
<1> QED BY <1>7, <1>8

LEMMA TruthInit == ControlInit => TruthInv
BY DEF ControlInit, TruthInv, AnswerIsTrue, AsksForKey, Busy

LEMMA TruthKept ==
  /\ IInv /\ Types /\ Types' /\ ReleasesAreTold /\ AnswersInv /\ AnswersInv' /\ TruthInv
  /\ [ControlNext]_control_vars
  => TruthInv'
<1> SUFFICES ASSUME IInv, Types, Types', ReleasesAreTold, AnswersInv, AnswersInv', TruthInv,
                    [ControlNext]_control_vars
             PROVE  TruthInv'
  OBVIOUS
<1>1. CASE UNCHANGED control_vars
  <2>1. ASSUME NEW p \in Processes PROVE AnswerIsTrue(p)'
    <3>1. /\ Request(p)' = Request(p) /\ (AsksForKey(p)' <=> AsksForKey(p)) /\ StatesOf(p)' = StatesOf(p)
      BY <1>1 DEF control_vars, vars, client_vars, port_vars, ctl_vars, ghost_vars, Request, AsksForKey, Connected, Busy,
                  StatesOf, KeysOf, GetVirtualKey, KeyStateIn, PressedAgain
    <3>2. toControl' = toControl /\ phase' = phase /\ seen' = seen
      BY <1>1 DEF control_vars, port_vars, ctl_vars
    <3> QED BY <3>1, <3>2 DEF TruthInv, AnswerIsTrue, IsTrue
  <2> QED BY <2>1 DEF TruthInv
<1>2. CASE ClientLosesServer /\ Observe
  <2>1. \A p \in Processes : ~Connected(p)'
    BY <1>2, NewControls DEF ClientLosesServer, PortReset, Reset, Connected
  <2> QED BY <2>1 DEF TruthInv, AnswerIsTrue, AsksForKey
<1>3. CASE ControlNext
  BY <1>2, <1>3, AroundIsTrue, ReadsAreTrue, ProcessIsTrue DEF ControlNext, ControlStep
<1> QED BY <1>1, <1>3

\* A process says yes when its last answer says so, which is true.
LEMMA YesIsTrue ==
  ASSUME IInv, Types, AnswersInv, TruthInv, [ControlNext]_control_vars, NEW p \in Processes,
         SaysYes(p)
  PROVE  \E states \in Grounds(Request(p).op) : states \subseteq seen[p]
<1> DEFINE op == Request(p).op
<1> USE DEF SaysYes
<1>1. PortTypes /\ ProcessTypes /\ AnswerIsTrue(p) /\ Answered(p)
  BY PartsOfTypes DEF TruthInv, AnswersInv, Answered
<1>2. phase \in [Processes -> {"off", "idle", "reading", "waiting", "ended"}] /\ DOMAIN at = Processes
  BY DEF Types, ControlTypeOK
<1>3. CASE op \notin {"is_pressed", "is_released"} \cup WaitOps
  <2>1. Grounds(op) = {{}}
    BY <1>3 DEF Grounds, Witnesses, WaitOps
  <2> QED BY <2>1
<1>4. CASE op \in {"is_pressed", "is_released"} \cup WaitOps
  <2>1. phase[p] # phase'[p] /\ phase[p] \notin {"off", "idle", "ended"} /\ phase'[p] = "idle"
    BY DEF Busy
  <2>2. ReadSome(p) \/ ReadFails(p)
    <3>1. ControlNext
      BY <2>1 DEF control_vars, ctl_vars
    <3>2. ~Around /\ ~ClientLosesServer
      BY <2>1 DEF Around, ClientLosesServer, ctl_vars
    <3>3. PICK q \in Processes :
            \/ PortReads(q) \/ PortErases(q)
            \/ Start(q) \/ MakesRequest(q) \/ Restart(q) \/ End(q)
            \/ ReadSome(q) \/ ReadFails(q)
      BY <3>1, <3>2 DEF ControlNext, ControlStep
    <3>4. ~PortReads(q) /\ ~PortErases(q) /\ ~Restart(q)
      BY <2>1 DEF PortReads, PortErases, Restart, ctl_vars
    <3>5. ~Start(q) /\ ~End(q) /\ ~MakesRequest(q)
      BY <1>2, <2>1 DEF Start, End, MakesRequest, MakeRequest
    <3>6. CASE q = p
      BY <3>3, <3>4, <3>5, <3>6
    <3>7. CASE q # p
      BY <1>2, <2>1, <3>3, <3>4, <3>5, <3>7 DEF ReadSome, Read, ReadFails, Proceed, Finish
    <3> QED BY <3>6, <3>7
  <2>3. ~ReadFails(p) /\ \A res : Finish(p, res) => res = "yes"
    BY <1>1 DEF ReadFails, Finish, ProcessTypes
  <2>4. PICK parts \in inBuffer[p]..(2 * Len(toControl[p])) : Read(p, parts)
    BY <2>2, <2>3 DEF ReadSome
  <2> DEFINE complete == parts \div 2
             q == toControl[p]
  <2>5. complete > 0 /\ Proceed(p, q[complete]) /\ Connected(p)
    BY <2>3, <2>4 DEF Read
  <2>6. complete \in 1..Len(q)
    BY <2>5, ReadsParts
  <2>7. q # << >>
    BY <1>1, <2>6 DEF PortTypes
  <2>8. IsAnswered(p) /\ complete = 1
    <3>1. IsAnswered(p)
      BY <1>1, <2>5, <2>7 DEF Answered, OneAnswer, IsSent, IsAwaited, IsAsked
    <3> QED BY <2>6, <3>1 DEF IsAnswered
  <2>9. AsksForKey(p)
    BY <1>4, <2>5 DEF AsksForKey, KeyOps
  <2>10. CASE phase[p] = "waiting"
    BY <1>1, <2>7, <2>9, <2>10 DEF AnswerIsTrue, IsTrue
  <2>11. CASE phase[p] = "reading"
    <3> DEFINE state == q[1].state
    <3>1. state \in seen[p] /\ state \in {"Up", "Down", "Not"}
      <4>1. q[1] \in Replies
        BY <1>1, <2>6, <2>8 DEF PortTypes
      <4>2. state \in seen[p]
        BY <1>1, <1>4, <2>7, <2>9, <2>11 DEF AnswerIsTrue, WaitOps
      <4> QED BY <4>1, <4>2 DEF Replies
    <3>2. IsDone(op, state) /\ Finish(p, ResultOf(op, state))
      <4>1. \A f : phase' = [phase EXCEPT ![p] = f] => f = "idle"
        BY <1>2
      <4> QED BY <2>5, <2>8, <2>11, <4>1 DEF Proceed
    <3>3. ResultOf(op, state) = "yes"
      BY <2>3, <3>2
    <3> HIDE DEF state, op
    <3>4. /\ op = "is_pressed" => state = "Down"
          /\ op = "is_released" => state = "Up"
      BY <3>1, <3>3 DEF ResultOf
    <3>5. {state} \in Grounds(op)
      BY <1>4, <3>2, <3>4 DEF Grounds, Witnesses, IsDone, WaitOps
    <3> QED BY <3>1, <3>5 DEF op
  <2> QED BY <2>10, <2>11 DEF Busy
<1> QED BY <1>3, <1>4

\* What a process says of a key was true at some time since it was asked,
\* although keys change, aliases are redefined, configurations are set and
\* others are notified meanwhile (is_pressed, wait_pressed, ...) - unless it
\* waits for a key to be released and is told that it is pressed again.
THEOREM AnswersAreAlwaysTrue == ControlSpec => AnswersAreTrue
<1> DEFINE Inv == IInv /\ Types /\ ReleasesAreTold /\ AnswersInv /\ TruthInv
<1>1. ControlSpec => []Inv
  <2>1. ControlInit => AnswersInv /\ TruthInv
    BY AnswersInit, TruthInit
  <2> QED BY <2>1, AnswersKept, TruthKept, PromisesKept, PTL DEF ControlSpec
<1>2. Inv /\ [ControlNext]_control_vars =>
        [\A p \in Processes : SaysYes(p) /\ ~IsMisinformed(p) => WasSeen(p)]_control_vars
  <2>1. SUFFICES ASSUME Inv, [ControlNext]_control_vars, NEW p \in Processes,
                        SaysYes(p), ~IsMisinformed(p)
                 PROVE  WasSeen(p)
    OBVIOUS
  <2>2. PICK states \in Grounds(Request(p).op) : states \subseteq seen[p]
    BY <2>1, YesIsTrue
  <2>3. states \in Witnesses(Request(p).op)
    BY <2>1, <2>2 DEF Grounds, IsMisinformed
  <2> QED BY <2>2, <2>3 DEF WasSeen
<1> QED BY <1>1, <1>2, PTL DEF ControlSpec, AnswersAreTrue

=============================================================================
