------------------------ MODULE Keymapperctl_proofs ------------------------
(***************************************************************************)
(* An instance id of keymapperctl has one owner, and a process that was    *)
(* replaced never connects again, for any processes, command lines and     *)
(* configurations. A process that can be replaced has set an instance id,  *)
(* and one with an instance id does not connect again: that an id the      *)
(* client knows is one the process remembers, also while the message that  *)
(* sets it is on its way, is what makes the invariant inductive.           *)
(***************************************************************************)
EXTENDS Keymapperctl, SequenceTheorems, TLAPS

Phases == {"off", "idle", "reading", "waiting", "ended"}

Shape ==
  /\ controls = [p \in Processes |-> controls[p]]
  /\ \A p \in Processes : DOMAIN controls[p] = {"id", "awaits", "awaitsOld", "asksKey", "open"}
  /\ toPort \in [Processes -> Seq(Requests)]
  /\ phase \in [Processes -> Phases]
  /\ commands \in [Processes -> Seq(CommandRequests)]
  /\ at \in [Processes -> Nat \ {0}]
  /\ instance \in [Processes -> InstanceIds \cup {None}]
  /\ closed \in [Processes -> {"no", "replaced", "reset"}]

\* A process that waits for an answer is at a request.
BusyIsAtRequest ==
  \A p \in Processes : phase[p] \in {"reading", "waiting"} => at[p] \in DOMAIN commands[p]

\* What the client knows, or is about to be told, the process remembers.
SetsIds(p) ==
  \A i \in DOMAIN toPort[p] : toPort[p][i].type = "set_instance_id" =>
    /\ toPort[p][i].name \in InstanceIds
    /\ phase[p] # "ended" => instance[p] # None

Remembers(p) ==
  phase[p] # "ended" /\ controls[p].open /\ controls[p].id # None => instance[p] # None

OffIsClosed(p) == phase[p] = "off" => ~controls[p].open

ReplacedIsClosed(p) ==
  closed[p] = "replaced" =>
    ~controls[p].open /\ phase[p] \notin {"off", "ended"} /\ instance[p] # None

ClosedHasReason(p) == phase[p] \notin {"off", "ended"} /\ ~controls[p].open => closed[p] # "no"

ProcessInv(p) ==
  SetsIds(p) /\ Remembers(p) /\ OffIsClosed(p) /\ ReplacedIsClosed(p) /\ ClosedHasReason(p)

IInv == Shape /\ BusyIsAtRequest /\ OneOwner /\ \A p \in Processes : ProcessInv(p)

-----------------------------------------------------------------------------
(* Messages *)

LEMMA OutdatedIsSeq ==
  ASSUME NEW s \in Seq(Requests)
  PROVE  /\ Outdated(s) \in Seq(Requests) /\ Len(Outdated(s)) = Len(s)
         /\ \A i \in 1..Len(s) : Outdated(s)[i].type = s[i].type /\ Outdated(s)[i].name = s[i].name
<1>1. ASSUME NEW m \in Requests PROVE [m EXCEPT !.old = TRUE] \in Requests
  BY DEF Requests
<1>2. DOMAIN s = 1..Len(s) /\ Len(s) \in Nat /\ \A i \in 1..Len(s) : s[i] \in Requests
  OBVIOUS
<1>3. Outdated(s) = [i \in 1..Len(s) |-> [s[i] EXCEPT !.old = TRUE]]
  BY <1>2 DEF Outdated
<1>4. Outdated(s) \in Seq(Requests) /\ Len(Outdated(s)) = Len(s)
  BY <1>1, <1>2, <1>3
<1>5. ASSUME NEW i \in 1..Len(s)
      PROVE  Outdated(s)[i].type = s[i].type /\ Outdated(s)[i].name = s[i].name
  <2>1. Outdated(s)[i] = [s[i] EXCEPT !.old = TRUE] /\ s[i] \in Requests
    BY <1>2, <1>3
  <2> QED BY <2>1 DEF Requests
<1> QED BY <1>4, <1>5

LEMMA MessagesAreRequests ==
  ASSUME NEW r \in CommandRequests, r.op # "restart", NEW lines \in Nat
  PROVE  /\ MessagesOf(r, lines) \in Seq(Requests)
         /\ \A i \in DOMAIN MessagesOf(r, lines) :
              MessagesOf(r, lines)[i].type = "set_instance_id" =>
                r.op = "set_instance_id" /\ MessagesOf(r, lines)[i].name = r.name
<1> DEFINE names == Names \cup InstanceIds \cup Configs \cup {None}
<1>1. r.name \in names /\ None \in names
  BY DEF CommandRequests
<1>2. ASSUME NEW type, NEW name \in names, NEW state \in {"Up", "Down", "Not"},
             type \in {"get_virtual_key_state", "set_key_state", "set_instance_id",
                       "set_config_file", "next_key_info", "inject"}
      PROVE  Message(type, name, state) \in Requests
  BY <1>2 DEF Message, Requests
<1>3. ASSUME NEW m \in Requests
      PROVE  <<m>> \in Seq(Requests) /\ DOMAIN <<m>> = {1} /\ <<m>>[1] = m
  OBVIOUS
<1>4. r.op \in KeyOps \cup WaitOps \cup OtherOps \cup {"set_instance_id", "set_config_file"}
  BY DEF CommandRequests
<1>5. CASE r.op = "type_stdin"
  <2> DEFINE m == Message("inject", None, "Not")
  <2>1. MessagesOf(r, lines) = [i \in 1..lines |-> m]
    BY <1>5 DEF MessagesOf, WaitOps
  <2>2. m \in Requests /\ m.type = "inject"
    BY <1>1, <1>2 DEF Message
  <2>3. [i \in 1..lines |-> m] \in Seq(Requests) /\ DOMAIN [i \in 1..lines |-> m] = 1..lines
    BY <2>2
  <2> QED BY <2>1, <2>2, <2>3
<1>6. ASSUME r.op # "type_stdin"
      PROVE  \E m \in Requests :
               /\ MessagesOf(r, lines) = <<m>>
               /\ m.type = "set_instance_id" => r.op = "set_instance_id" /\ m.name = r.name
  <2> DEFINE sent(state) == Message("set_key_state", r.name, state)
             asked == Message("get_virtual_key_state", r.name, "Not")
             other == Message(r.op, r.name, "Not")
  <2>1. CASE r.op \in {"press", "release", "toggle"}
    <3>1. \E state \in {"Up", "Down", "Not"} : MessagesOf(r, lines) = <<sent(state)>>
      BY <2>1 DEF MessagesOf, WaitOps
    <3>2. \A state \in {"Up", "Down", "Not"} : sent(state) \in Requests /\ sent(state).type = "set_key_state"
      BY <1>1, <1>2 DEF Message
    <3> QED BY <3>1, <3>2
  <2>2. CASE r.op \in {"is_pressed", "is_released"} \cup WaitOps
    <3>1. MessagesOf(r, lines) = <<asked>> /\ asked.type # "set_instance_id"
      BY <2>2 DEF MessagesOf, Message, WaitOps
    <3>2. asked \in Requests
      BY <1>1, <1>2
    <3> QED BY <3>1, <3>2
  <2>3. CASE r.op \in {"next_key_info", "inject", "set_instance_id", "set_config_file"}
    <3>1. MessagesOf(r, lines) = <<other>> /\ other.type = r.op /\ other.name = r.name
      BY <2>3 DEF MessagesOf, Message, WaitOps
    <3>2. other \in Requests
      BY <1>1, <2>3 DEF Message, Requests
    <3> QED BY <3>1, <3>2
  <2> QED BY <1>4, <1>6, <2>1, <2>2, <2>3 DEF KeyOps, OtherOps
<1> QED BY <1>3, <1>5, <1>6

\* A message is read: those that are left were there before.
LEMMA FewerMessages ==
  ASSUME Shape, \A q \in Processes : SetsIds(q), NEW p \in Processes, toPort[p] # << >>,
         toPort' = [toPort EXCEPT ![p] = Tail(@)],
         phase' = phase, instance' = instance
  PROVE  /\ toPort' \in [Processes -> Seq(Requests)]
         /\ \A q \in Processes : SetsIds(q)'
<1> DEFINE s == toPort[p]
<1>1. s \in Seq(Requests)
  BY DEF Shape
<1>2. /\ Tail(s) \in Seq(Requests) /\ Len(Tail(s)) = Len(s) - 1 /\ Len(s) \in Nat /\ Len(s) > 0
      /\ \A i \in 1..Len(Tail(s)) : Tail(s)[i] = s[i + 1] /\ i + 1 \in 1..Len(s)
  BY <1>1
<1>3. toPort'[p] = Tail(s) /\ \A q \in Processes \ {p} : toPort'[q] = toPort[q]
  BY DEF Shape
<1>4. toPort' \in [Processes -> Seq(Requests)]
  BY <1>2 DEF Shape
<1>5. SetsIds(p)'
  <2> SUFFICES ASSUME NEW i \in 1..Len(Tail(s)), Tail(s)[i].type = "set_instance_id"
               PROVE  /\ Tail(s)[i].name \in InstanceIds
                      /\ phase[p] # "ended" => instance[p] # None
    BY <1>2, <1>3 DEF SetsIds
  <2> QED BY <1>1, <1>2 DEF SetsIds
<1>6. ASSUME NEW q \in Processes \ {p} PROVE SetsIds(q)'
  BY <1>3 DEF SetsIds
<1> QED BY <1>4, <1>5, <1>6

\* Messages are sent: those on their way are now for something else.
LEMMA MoreMessages ==
  ASSUME Shape, \A q \in Processes : SetsIds(q), NEW p \in Processes, NEW sent \in Seq(Requests),
         toPort' = [toPort EXCEPT ![p] = Outdated(@) \o sent],
         phase'[p] # "ended", phase[p] # "ended",
         instance[p] # None => instance'[p] # None,
         \A q \in Processes \ {p} : phase'[q] = phase[q] /\ instance'[q] = instance[q],
         \A i \in DOMAIN sent : sent[i].type = "set_instance_id" =>
           sent[i].name \in InstanceIds /\ instance'[p] # None
  PROVE  /\ toPort' \in [Processes -> Seq(Requests)]
         /\ \A q \in Processes : SetsIds(q)'
<1> DEFINE s == toPort[p]
           old == Outdated(s)
<1>1. s \in Seq(Requests)
  BY DEF Shape
<1>2. /\ old \in Seq(Requests) /\ Len(old) = Len(s)
      /\ \A i \in 1..Len(s) : old[i].type = s[i].type /\ old[i].name = s[i].name
  BY <1>1, OutdatedIsSeq
<1> HIDE DEF old
<1>3. /\ old \o sent \in Seq(Requests)
      /\ DOMAIN (old \o sent) = 1..(Len(s) + Len(sent)) /\ Len(s) \in Nat /\ Len(sent) \in Nat
      /\ DOMAIN sent = 1..Len(sent) /\ DOMAIN s = 1..Len(s)
      /\ \A i \in 1..Len(s) : (old \o sent)[i] = old[i]
      /\ \A i \in (Len(s) + 1)..(Len(s) + Len(sent)) : (old \o sent)[i] = sent[i - Len(s)]
  <2>1. Len(s) \in Nat /\ Len(sent) \in Nat /\ DOMAIN sent = 1..Len(sent) /\ DOMAIN s = 1..Len(s)
    BY <1>1
  <2>2. /\ old \o sent \in Seq(Requests) /\ Len(old \o sent) = Len(s) + Len(sent)
        /\ \A i \in 1 .. Len(s) + Len(sent) :
             (old \o sent)[i] = IF i <= Len(s) THEN old[i] ELSE sent[i - Len(s)]
    <3>1. old \in Seq(Requests) /\ sent \in Seq(Requests)
      BY <1>2
    <3>2. /\ old \o sent \in Seq(Requests) /\ Len(old \o sent) = Len(old) + Len(sent)
          /\ \A i \in 1 .. Len(old) + Len(sent) :
               (old \o sent)[i] = IF i <= Len(old) THEN old[i] ELSE sent[i - Len(old)]
      BY <3>1, ConcatProperties
    <3> QED BY <1>2, <3>2
  <2>3. DOMAIN (old \o sent) = 1..(Len(s) + Len(sent))
    BY <2>2
  <2> QED BY <2>1, <2>2, <2>3
<1>4. toPort'[p] = old \o sent /\ \A q \in Processes \ {p} : toPort'[q] = toPort[q]
  BY DEF Shape, old
<1>5. toPort' \in [Processes -> Seq(Requests)]
  BY <1>3 DEF Shape, old
<1>6. SetsIds(p)'
  <2> SUFFICES ASSUME NEW i \in 1..(Len(s) + Len(sent)),
                      (old \o sent)[i].type = "set_instance_id"
               PROVE  (old \o sent)[i].name \in InstanceIds /\ instance'[p] # None
    BY <1>3, <1>4 DEF SetsIds
  <2>1. CASE i \in 1..Len(s)
    BY <1>2, <1>3, <2>1 DEF SetsIds
  <2>2. CASE i \in (Len(s) + 1)..(Len(s) + Len(sent))
    <3>1. i - Len(s) \in 1..Len(sent)
      BY <1>3, <2>2
    <3> QED BY <1>3, <2>2, <3>1
  <2> QED BY <1>3, <2>1, <2>2
<1>7. ASSUME NEW q \in Processes \ {p} PROVE SetsIds(q)'
  BY <1>4 DEF SetsIds
<1> QED BY <1>5, <1>6, <1>7

-----------------------------------------------------------------------------
(* Steps *)

SameRecords ==
  /\ controls' = [p \in Processes |-> controls'[p]]
  /\ \A p \in Processes :
       /\ DOMAIN controls'[p] = {"id", "awaits", "awaitsOld", "asksKey", "open"}
       /\ controls'[p].open = controls[p].open /\ controls'[p].id = controls[p].id

Starts(p) == phase[p] \in {"off", "ended"}

\* Steps that open, close and own no connection.
LEMMA Preserved ==
  ASSUME IInv, Shape', BusyIsAtRequest', SameRecords,
         \A p \in Processes : SetsIds(p)',
         \A p \in Processes : phase'[p] = phase[p] \/ (~Starts(p) /\ ~Starts(p)'),
         \A p \in Processes : instance[p] # None => instance'[p] # None,
         closed' = closed
  PROVE  IInv'
<1>1. OneOwner'
  BY DEF IInv, OneOwner, SameRecords, Connected
<1>2. ASSUME NEW p \in Processes PROVE ProcessInv(p)'
  <2>1. Remembers(p)' /\ OffIsClosed(p)'
    BY DEF IInv, ProcessInv, Remembers, OffIsClosed, SameRecords, Starts
  <2>2. ReplacedIsClosed(p)' /\ ClosedHasReason(p)'
    BY DEF IInv, ProcessInv, ReplacedIsClosed, ClosedHasReason, SameRecords, Starts
  <2> QED BY <2>1, <2>2 DEF ProcessInv
<1> QED BY <1>1, <1>2 DEF IInv

LEMMA NothingChanges ==
  ASSUME IInv, UNCHANGED <<controls, toPort, phase, commands, at, instance, closed>>
  PROVE  IInv'
BY DEF IInv, Shape, BusyIsAtRequest, OneOwner, Connected, ProcessInv,
       SetsIds, Remembers, OffIsClosed, ReplacedIsClosed, ClosedHasReason

\* Only what the controls asked for changes.
LEMMA RequestsChange ==
  ASSUME IInv, SameRecords, UNCHANGED <<toPort, phase, commands, at, instance, closed>>
  PROVE  IInv'
<1>1. Shape' /\ BusyIsAtRequest' /\ \A p \in Processes : SetsIds(p)'
  BY DEF IInv, Shape, BusyIsAtRequest, SameRecords, ProcessInv, SetsIds
<1> QED BY <1>1, Preserved

LEMMA AroundStep == ASSUME IInv, Around PROVE IInv'
<1>1. CASE ConnectServer \/ ServerActs
  BY <1>1, NothingChanges DEF Around, ConnectServer, ServerActs, ctl_vars, ghost_vars
<1>2. CASE MirrorVirtualKeyState
  <2> PICK key : key = Head(toClient).key
    OBVIOUS
  <2>1. controls' = [p \in Processes |->
          IF Awaits(p, key) THEN [controls[p] EXCEPT !.awaits = None, !.awaitsOld = FALSE]
                            ELSE controls[p]]
    BY <1>2 DEF MirrorVirtualKeyState, NotifyControls
  <2>2. SameRecords
    BY <2>1 DEF SameRecords, IInv, Shape
  <2> QED BY <1>2, <2>2, RequestsChange
          DEF Around, MirrorVirtualKeyState, NotifyControls, ctl_vars, ghost_vars
<1>3. CASE ReadNextKeyInfo
  <2>1. SameRecords
    BY <1>3 DEF ReadNextKeyInfo, SameRecords, IInv, Shape
  <2> QED BY <1>3, <2>1, RequestsChange DEF Around, ReadNextKeyInfo, ctl_vars, ghost_vars
<1> QED BY <1>1, <1>2, <1>3 DEF Around

\* A message that sets no instance id is read.
LEMMA OtherMessageStep ==
  ASSUME IInv, NEW p \in Processes, toPort[p] # << >>,
         toPort' = [toPort EXCEPT ![p] = Tail(@)], SameRecords,
         closed' = [q \in Processes |->
           IF Connected(q) /\ ~controls'[q].open /\ q # p /\ phase[q] # "ended" THEN "replaced" ELSE closed[q]],
         UNCHANGED <<phase, commands, at, instance>>
  PROVE  IInv'
<1>1. \A q \in Processes : SetsIds(q)
  BY DEF IInv, ProcessInv
<1>2. toPort' \in [Processes -> Seq(Requests)] /\ \A q \in Processes : SetsIds(q)'
  BY <1>1, FewerMessages DEF IInv
<1>3. closed' = closed
  BY DEF IInv, Shape, SameRecords, Connected
<1>4. Shape' /\ BusyIsAtRequest'
  BY <1>2, <1>3 DEF IInv, Shape, BusyIsAtRequest, SameRecords
<1> QED BY <1>2, <1>3, <1>4, Preserved

\* The old owner of the instance id loses its connection.
LEMMA SetInstanceIdStep ==
  ASSUME IInv, NEW p \in Processes, SetInstanceId(p),
         closed' = [q \in Processes |->
           IF Connected(q) /\ ~controls'[q].open /\ q # p /\ phase[q] # "ended" THEN "replaced" ELSE closed[q]],
         UNCHANGED <<phase, commands, at, instance>>
  PROVE  IInv'
<1> DEFINE id == Head(toPort[p]).name
<1>1. /\ toPort[p] \in Seq(Requests) /\ toPort[p] # << >>
      /\ toPort[p][1].type = "set_instance_id" /\ id = toPort[p][1].name /\ 1 \in DOMAIN toPort[p]
      /\ controls[p].open
  BY DEF IInv, Shape, SetInstanceId, Received, Connected
<1>2. id \in InstanceIds /\ id # None /\ (phase[p] # "ended" => instance[p] # None)
  BY <1>1, NamesDenoteKeys DEF IInv, ProcessInv, SetsIds
<1>3. controls' = IF controls[p].id # id THEN TakenOver(p, id) ELSE controls
  BY DEF SetInstanceId
<1> DEFINE lost(q) == q # p /\ controls[q].open /\ controls[q].id = id
<1>4. /\ controls' = [q \in Processes |-> controls'[q]]
      /\ \A q \in Processes : DOMAIN controls'[q] = {"id", "awaits", "awaitsOld", "asksKey", "open"}
      /\ controls'[p].id = id /\ controls'[p].open
      /\ \A q \in Processes \ {p} : IF lost(q) THEN controls'[q].open = FALSE ELSE controls'[q] = controls[q]
  <2>1. CASE controls[p].id # id
    <3>1. controls' = TakenOver(p, id)
      BY <1>3, <2>1
    <3>2. ASSUME NEW q \in Processes \ {p}
          PROVE  controls'[q] = IF lost(q) THEN NoControl ELSE controls[q]
      BY <3>1 DEF TakenOver, Owners, Connected
    <3>3. controls'[p] = [controls[p] EXCEPT !.id = id]
      BY <3>1 DEF TakenOver
    <3>4. controls'[p].id = id /\ controls'[p].open = controls[p].open /\ DOMAIN controls'[p] = DOMAIN controls[p]
      BY <3>3 DEF IInv, Shape
    <3>5. DOMAIN NoControl = {"id", "awaits", "awaitsOld", "asksKey", "open"} /\ NoControl.open = FALSE
      BY DEF NoControl
    <3>6. controls' = [q \in Processes |-> controls'[q]]
      BY <3>1 DEF TakenOver
    <3> QED BY <1>1, <3>2, <3>4, <3>5, <3>6 DEF IInv, Shape
  <2>2. CASE controls[p].id = id
    <3>1. controls' = controls
      BY <1>3, <2>2
    <3>2. \A q \in Processes : ~lost(q)
      BY <1>1, <1>2, <2>2 DEF IInv, OneOwner, Connected
    <3> QED BY <1>1, <2>2, <3>1, <3>2 DEF IInv, Shape
  <2> QED BY <2>1, <2>2
<1> HIDE DEF id
<1>5. /\ toPort' \in [Processes -> Seq(Requests)]
      /\ \A q \in Processes : SetsIds(q)'
  <2>1. toPort' = [q \in Processes |-> IF controls'[q].open THEN IF q = p THEN Tail(toPort[p]) ELSE toPort[q]
                                        ELSE << >>]
    BY DEF SetInstanceId
  <2>2. /\ Tail(toPort[p]) \in Seq(Requests) /\ << >> \in Seq(Requests)
        /\ \A i \in DOMAIN Tail(toPort[p]) :
             Tail(toPort[p])[i] = toPort[p][i + 1] /\ i + 1 \in DOMAIN toPort[p]
    BY <1>1
  <2>3. toPort' \in [Processes -> Seq(Requests)]
    BY <2>1, <2>2 DEF IInv, Shape
  <2>4. SetsIds(p)'
    <3>1. toPort'[p] = Tail(toPort[p])
      BY <1>4, <2>1
    <3> QED BY <2>2, <3>1 DEF IInv, ProcessInv, SetsIds
  <2>5. ASSUME NEW q \in Processes \ {p} PROVE SetsIds(q)'
    <3>1. toPort'[q] = toPort[q] \/ DOMAIN toPort'[q] = {}
      BY <2>1
    <3> QED BY <3>1 DEF IInv, ProcessInv, SetsIds
  <2> QED BY <2>3, <2>4, <2>5
<1>6. /\ closed'[p] = closed[p]
      /\ \A q \in Processes \ {p} :
           closed'[q] = IF lost(q) /\ phase[q] # "ended" THEN "replaced" ELSE closed[q]
  BY <1>4 DEF IInv, Shape, Connected
<1>7. Shape'
  BY <1>4, <1>5, <1>6 DEF IInv, Shape
<1>8. BusyIsAtRequest'
  BY DEF IInv, BusyIsAtRequest
<1>9. OneOwner'
  BY <1>4 DEF IInv, OneOwner, Connected
<1>10. ProcessInv(p)'
  BY <1>1, <1>2, <1>4, <1>5, <1>6
     DEF IInv, ProcessInv, Remembers, OffIsClosed, ReplacedIsClosed, ClosedHasReason
<1>11. ASSUME NEW q \in Processes \ {p} PROVE ProcessInv(q)'
  <2>1. CASE lost(q)
    <3>1. controls[q].id # None /\ controls[q].open
      BY <1>2, <2>1
    <3>2. phase[q] # "off" /\ (phase[q] # "ended" => instance[q] # None)
      BY <3>1 DEF IInv, ProcessInv, Remembers, OffIsClosed
    <3>3. controls'[q].open = FALSE /\ closed'[q] = IF phase[q] # "ended" THEN "replaced" ELSE closed[q]
      BY <1>4, <1>6, <2>1
    <3>4. phase[q] = "ended" => closed[q] # "replaced"
      BY DEF IInv, ProcessInv, ReplacedIsClosed
    <3> QED BY <1>5, <3>2, <3>3, <3>4
            DEF ProcessInv, Remembers, OffIsClosed, ReplacedIsClosed, ClosedHasReason
  <2>2. CASE ~lost(q)
    <3>1. controls'[q] = controls[q] /\ closed'[q] = closed[q]
      BY <1>4, <1>6, <2>2
    <3> QED BY <1>5, <3>1
            DEF IInv, ProcessInv, Remembers, OffIsClosed, ReplacedIsClosed, ClosedHasReason
  <2> QED BY <2>1, <2>2
<1> QED BY <1>7, <1>8, <1>9, <1>10, <1>11 DEF IInv

LEMMA PortReadsStep == ASSUME IInv, NEW p \in Processes, PortReads(p) PROVE IInv'
<1> DEFINE read == toPort' = [toPort EXCEPT ![p] = Tail(@)]
<1>1. CASE SetInstanceId(p)
  BY <1>1, SetInstanceIdStep DEF PortReads, ctl_vars
<1>2. ASSUME read, SameRecords, toPort[p] # << >> PROVE IInv'
  BY <1>2, OtherMessageStep DEF PortReads, ctl_vars
<1>3. controls' = controls => SameRecords
  BY DEF SameRecords, IInv, Shape
<1>4. CASE GetVirtualKeyState(p) \/ SetKeyState(p) \/ SetConfigFile(p) \/ Inject(p)
  <2>1. controls' = controls /\ toPort[p] # << >> /\ read
    BY <1>4 DEF GetVirtualKeyState, SetKeyState, SetConfigFile, Inject, Received, Reply, ReplyResult
  <2> QED BY <1>2, <1>3, <2>1
<1>5. CASE RequestToggleNotification(p)
  <2>1. toPort[p] # << >> /\ read
    BY <1>5 DEF RequestToggleNotification, Received, Reply
  <2>2. PICK key, old :
          controls' = controls \/ controls' = [controls EXCEPT ![p].awaits = key, ![p].awaitsOld = old]
    BY <1>5 DEF RequestToggleNotification
  <2>3. CASE controls' = [controls EXCEPT ![p].awaits = key, ![p].awaitsOld = old]
    <3>1. /\ controls' = [q \in Processes |-> controls'[q]]
          /\ \A q \in Processes \ {p} : controls'[q] = controls[q]
          /\ controls'[p] = [controls[p] EXCEPT !.awaits = key, !.awaitsOld = old]
      BY <2>3 DEF IInv, Shape
    <3>2. SameRecords
      BY <3>1 DEF SameRecords, IInv, Shape
    <3> QED BY <1>2, <2>1, <3>2
  <2> QED BY <1>2, <1>3, <2>1, <2>2, <2>3
<1>6. CASE RequestNextKeyInfo(p)
  <2>1. toPort[p] # << >> /\ read /\ SameRecords
    BY <1>6 DEF RequestNextKeyInfo, Received, SameRecords, IInv, Shape
  <2> QED BY <1>2, <2>1
<1> QED BY <1>1, <1>4, <1>5, <1>6 DEF PortReads, ReadMessage

\* What a process has asked for and done changes, but not whether it is
\* connected: then only its messages and its phase are to be looked at.
LEMMA RequestStep ==
  ASSUME IInv, NEW p \in Processes, ~Starts(p), SameRecords, closed' = closed,
         NEW f \in Phases \ {"off", "ended"}, phase' = [phase EXCEPT ![p] = f],
         commands' = commands, at' \in [Processes -> Nat \ {0}],
         \A q \in Processes \ {p} : at'[q] = at[q],
         f \in {"reading", "waiting"} => at'[p] \in DOMAIN commands[p],
         instance' \in [Processes -> InstanceIds \cup {None}],
         \A q \in Processes : instance[q] # None => instance'[q] # None,
         toPort' \in [Processes -> Seq(Requests)],
         \A q \in Processes : SetsIds(q)'
  PROVE  IInv'
<1>1. phase'[p] = f /\ \A q \in Processes \ {p} : phase'[q] = phase[q]
  BY DEF IInv, Shape
<1>2. Shape'
  BY DEF IInv, Shape, SameRecords
<1>3. BusyIsAtRequest'
  BY <1>1 DEF IInv, BusyIsAtRequest
<1>4. \A q \in Processes : phase'[q] = phase[q] \/ (~Starts(q) /\ ~Starts(q)')
  BY <1>1 DEF Starts
<1> QED BY <1>2, <1>3, <1>4, Preserved

LEMMA MakesRequestStep == ASSUME IInv, NEW p \in Processes, MakesRequest(p) PROVE IInv'
<1>1. PICK lines \in Nat : MakeRequest(p, lines)
  BY CommandLinesAreRequests DEF MakesRequest
<1>2. /\ phase[p] = "idle" /\ ~Starts(p)
      /\ at[p] \in DOMAIN commands[p] /\ Request(p) \in CommandRequests /\ Request(p).op # "restart"
  BY <1>1 DEF MakeRequest, Starts, Request, IInv, Shape
<1>3. UNCHANGED <<commands, closed>>
  BY <1>1 DEF MakeRequest
<1>4. CASE Connected(p)
  <2> DEFINE sent == MessagesOf(Request(p), lines)
  <2>1. /\ phase' = [phase EXCEPT ![p] = "reading"] /\ at' = at
        /\ toPort' = [toPort EXCEPT ![p] = Outdated(@) \o sent]
        /\ controls' = [controls EXCEPT ![p].awaitsOld = (controls[p].awaits # None)]
        /\ instance' = IF Request(p).op = "set_instance_id"
                       THEN [instance EXCEPT ![p] = Request(p).name] ELSE instance
    BY <1>1, <1>4 DEF MakeRequest, Send
  <2>2. SameRecords
    BY <2>1 DEF SameRecords, IInv, Shape
  <2>3. Request(p).op = "set_instance_id" => Request(p).name \in InstanceIds
    BY <1>2 DEF CommandRequests, KeyOps, WaitOps, OtherOps
  <2>4. /\ instance' \in [Processes -> InstanceIds \cup {None}]
        /\ \A q \in Processes : instance[q] # None => instance'[q] # None
        /\ \A q \in Processes \ {p} : instance'[q] = instance[q]
        /\ Request(p).op = "set_instance_id" => instance'[p] # None
    BY <2>1, <2>3, NamesDenoteKeys DEF IInv, Shape
  <2>5. /\ sent \in Seq(Requests)
        /\ \A i \in DOMAIN sent : sent[i].type = "set_instance_id" =>
             sent[i].name \in InstanceIds /\ instance'[p] # None
    <3>1. PICK r \in CommandRequests : r = Request(p)
      BY <1>2
    <3>2. /\ MessagesOf(r, lines) \in Seq(Requests)
          /\ \A i \in DOMAIN MessagesOf(r, lines) :
               MessagesOf(r, lines)[i].type = "set_instance_id" =>
                 r.op = "set_instance_id" /\ MessagesOf(r, lines)[i].name = r.name
      BY <1>2, <3>1, MessagesAreRequests
    <3> QED BY <2>3, <2>4, <3>1, <3>2
  <2> HIDE DEF sent
  <2>6. /\ phase'[p] = "reading"
        /\ \A q \in Processes \ {p} : phase'[q] = phase[q]
    BY <2>1 DEF IInv, Shape
  <2>7. \A q \in Processes : SetsIds(q)
    BY DEF IInv, ProcessInv
  <2>8. toPort' \in [Processes -> Seq(Requests)] /\ \A q \in Processes : SetsIds(q)'
    <3>1. PICK messages \in Seq(Requests) : messages = sent
      BY <2>5
    <3>2. /\ toPort' = [toPort EXCEPT ![p] = Outdated(@) \o messages]
          /\ \A i \in DOMAIN messages : messages[i].type = "set_instance_id" =>
               messages[i].name \in InstanceIds /\ instance'[p] # None
      BY <2>1, <2>5, <3>1
    <3>3. Shape /\ phase[p] # "ended" /\ phase'[p] # "ended"
      BY <1>2, <2>6 DEF IInv
    <3> QED BY <2>4, <2>6, <2>7, <3>2, <3>3, MoreMessages
  <2>9. at' \in [Processes -> Nat \ {0}]
    BY <2>1 DEF IInv, Shape
  <2> QED BY <1>2, <1>3, <2>1, <2>2, <2>4, <2>8, <2>9, RequestStep DEF Phases
<1>5. CASE ~Connected(p)
  <2>1. /\ at' = [at EXCEPT ![p] = @ + 1]
        /\ UNCHANGED <<controls, toPort, phase, instance>>
    BY <1>1, <1>5 DEF MakeRequest, port_vars
  <2>2. at' \in [Processes -> Nat \ {0}] /\ \A q \in Processes \ {p} : at'[q] = at[q]
    BY <2>1 DEF IInv, Shape
  <2>3. SameRecords
    BY <2>1 DEF SameRecords, IInv, Shape
  <2>4. toPort' \in [Processes -> Seq(Requests)] /\ \A q \in Processes : SetsIds(q)'
    BY <2>1 DEF IInv, Shape, ProcessInv, SetsIds
  <2>5. phase' = [phase EXCEPT ![p] = "idle"] /\ instance' \in [Processes -> InstanceIds \cup {None}]
    BY <1>2, <2>1 DEF IInv, Shape
  <2> QED BY <1>2, <1>3, <2>1, <2>2, <2>3, <2>4, <2>5, RequestStep DEF Phases
<1> QED BY <1>4, <1>5

LEMMA ReadFailsStep == ASSUME IInv, NEW p \in Processes, ReadFails(p) PROVE IInv'
<1>1. /\ phase[p] \in {"reading", "waiting"} /\ ~Starts(p)
      /\ phase' = [phase EXCEPT ![p] = "idle"] /\ at' = [at EXCEPT ![p] = @ + 1]
      /\ UNCHANGED <<controls, toPort, commands, instance, closed>>
  BY DEF ReadFails, Busy, Finish, Starts, port_vars, ghost_vars
<1>2. at' \in [Processes -> Nat \ {0}] /\ \A q \in Processes \ {p} : at'[q] = at[q]
  BY <1>1 DEF IInv, Shape
<1>3. SameRecords
  BY <1>1 DEF SameRecords, IInv, Shape
<1>4. toPort' \in [Processes -> Seq(Requests)] /\ instance' \in [Processes -> InstanceIds \cup {None}]
  BY <1>1 DEF IInv, Shape
<1>5. \A q \in Processes : SetsIds(q)'
  <2>1. phase'[p] = "idle" /\ \A q \in Processes \ {p} : phase'[q] = phase[q]
    BY <1>1 DEF IInv, Shape
  <2> QED BY <1>1, <2>1 DEF IInv, ProcessInv, SetsIds
<1> QED BY <1>1, <1>2, <1>3, <1>4, <1>5, RequestStep DEF Phases

LEMMA ReadStep == ASSUME IInv, NEW p \in Processes, ReadSome(p) PROVE IInv'
<1>1. PICK parts : Read(p, parts)
  BY DEF ReadSome
<1>2. /\ phase[p] \in {"reading", "waiting"} /\ ~Starts(p)
      /\ UNCHANGED <<commands, instance, closed>>
  BY <1>1 DEF Read, Busy, Starts
<1>3. instance' \in [Processes -> InstanceIds \cup {None}]
  BY <1>2 DEF IInv, Shape
<1>4. \/ \E res : Finish(p, res) /\ UNCHANGED <<toPort, controls>>
      \/ \E name \in Names :
           /\ toPort' = [toPort EXCEPT ![p] = Outdated(@) \o
                << Message("request_virtual_key_toggle_notification", name, "Not") >>]
           /\ controls' = [controls EXCEPT ![p].awaitsOld = (controls[p].awaits # None)]
           /\ phase' = [phase EXCEPT ![p] = "waiting"]
           /\ at' = at
  <2>1. \A answer : ~IsDone(Request(p).op, answer.state) => Request(p).name \in Names
    <3>1. Request(p) \in CommandRequests
      BY <1>2 DEF IInv, Shape, BusyIsAtRequest, Request
    <3>2. Request(p).op \in WaitOps => Request(p).name \in Names
      BY <3>1 DEF CommandRequests, KeyOps, WaitOps, OtherOps
    <3> QED BY <3>2 DEF IsDone
  <2>2. ASSUME NEW answer, Proceed(p, answer)
        PROVE  \/ \E res : Finish(p, res) /\ UNCHANGED <<toPort, controls>>
               \/ \E name \in Names :
                    /\ toPort' = [toPort EXCEPT ![p] = Outdated(@) \o
                         << Message("request_virtual_key_toggle_notification", name, "Not") >>]
                    /\ controls' = [controls EXCEPT ![p].awaitsOld = (controls[p].awaits # None)]
                    /\ phase' = [phase EXCEPT ![p] = "waiting"]
                    /\ at' = at
    BY <2>1, <2>2 DEF Proceed
  <2> QED BY <1>1, <2>2 DEF Read
<1>5. CASE \E res : Finish(p, res) /\ UNCHANGED <<toPort, controls>>
  <2>1. /\ phase' = [phase EXCEPT ![p] = "idle"] /\ at' = [at EXCEPT ![p] = @ + 1]
        /\ UNCHANGED <<toPort, controls>>
    BY <1>5 DEF Finish
  <2>2. at' \in [Processes -> Nat \ {0}] /\ \A q \in Processes \ {p} : at'[q] = at[q]
    BY <2>1 DEF IInv, Shape
  <2>3. SameRecords
    BY <2>1 DEF SameRecords, IInv, Shape
  <2>4. toPort' \in [Processes -> Seq(Requests)]
    BY <2>1 DEF IInv, Shape
  <2>5. \A q \in Processes : SetsIds(q)'
    <3>1. phase'[p] = "idle" /\ \A q \in Processes \ {p} : phase'[q] = phase[q]
      BY <2>1 DEF IInv, Shape
    <3> QED BY <1>2, <2>1, <3>1 DEF IInv, ProcessInv, SetsIds
  <2> QED BY <1>2, <1>3, <2>1, <2>2, <2>3, <2>4, <2>5, RequestStep DEF Phases
<1>6. ASSUME NEW name \in Names,
             toPort' = [toPort EXCEPT ![p] = Outdated(@) \o
               << Message("request_virtual_key_toggle_notification", name, "Not") >>],
             controls' = [controls EXCEPT ![p].awaitsOld = (controls[p].awaits # None)],
             phase' = [phase EXCEPT ![p] = "waiting"],
             at' = at
      PROVE  IInv'
  <2> DEFINE m == Message("request_virtual_key_toggle_notification", name, "Not")
  <2>1. m \in Requests /\ m.type # "set_instance_id"
    BY DEF Message, Requests
  <2>2. << m >> \in Seq(Requests) /\ \A i \in DOMAIN << m >> : << m >>[i] = m
    BY <2>1
  <2>3. toPort' = [toPort EXCEPT ![p] = Outdated(@) \o << m >>]
    BY <1>6
  <2> HIDE DEF m
  <2>4. phase'[p] = "waiting" /\ \A q \in Processes \ {p} : phase'[q] = phase[q]
    BY <1>6 DEF IInv, Shape
  <2>5. \A q \in Processes : SetsIds(q)
    BY DEF IInv, ProcessInv
  <2>6. toPort' \in [Processes -> Seq(Requests)] /\ \A q \in Processes : SetsIds(q)'
    BY <1>2, <2>1, <2>2, <2>3, <2>4, <2>5, MoreMessages DEF IInv
  <2>7. SameRecords
    BY <1>6 DEF SameRecords, IInv, Shape
  <2>8. at' \in [Processes -> Nat \ {0}] /\ at'[p] \in DOMAIN commands[p]
    BY <1>2, <1>6 DEF IInv, Shape, BusyIsAtRequest
  <2> QED BY <1>2, <1>3, <1>6, <2>6, <2>7, <2>8, RequestStep DEF Phases
<1> QED BY <1>4, <1>5, <1>6

\* A new connection that nobody knows anything of.
LEMMA OpenedStep ==
  ASSUME IInv, NEW p \in Processes, Opened(p), closed[p] # "replaced",
         phase' = [phase EXCEPT ![p] = "idle"], phase[p] \in {"off", "idle"},
         at' \in [Processes -> Nat \ {0}], \A q \in Processes \ {p} : at'[q] = at[q],
         UNCHANGED <<commands, instance>>
  PROVE  IInv'
<1>1. /\ controls' = [controls EXCEPT ![p] = NewControl]
      /\ toPort' = [toPort EXCEPT ![p] = << >>]
      /\ closed' = [closed EXCEPT ![p] = "no"]
  <2>1. closed' = [closed EXCEPT ![p] = IF @ = "replaced" THEN @ ELSE "no"]
    BY DEF Opened
  <2>2. closed' = [closed EXCEPT ![p] = IF closed[p] = "replaced" THEN closed[p] ELSE "no"]
    BY <2>1 DEF IInv, Shape
  <2> QED BY <2>2 DEF Opened
<1>2. /\ NewControl.id = None /\ NewControl.open
      /\ DOMAIN NewControl = {"id", "awaits", "awaitsOld", "asksKey", "open"}
  BY DEF NewControl, NoControl
<1>3. /\ controls'[p] = NewControl /\ toPort'[p] = << >> /\ closed'[p] = "no" /\ phase'[p] = "idle"
      /\ \A q \in Processes \ {p} :
           /\ controls'[q] = controls[q] /\ toPort'[q] = toPort[q]
           /\ closed'[q] = closed[q] /\ phase'[q] = phase[q]
  BY <1>1 DEF IInv, Shape
<1>4. Shape'
  <2>1. << >> \in Seq(Requests)
    OBVIOUS
  <2> QED BY <1>1, <1>2, <1>3, <2>1 DEF IInv, Shape, Phases
<1>5. BusyIsAtRequest'
  BY <1>3 DEF IInv, BusyIsAtRequest
<1>6. OneOwner'
  BY <1>2, <1>3 DEF IInv, OneOwner, Connected
<1>7. ProcessInv(p)'
  BY <1>2, <1>3 DEF ProcessInv, SetsIds, Remembers, OffIsClosed, ReplacedIsClosed, ClosedHasReason
<1>8. ASSUME NEW q \in Processes \ {p} PROVE ProcessInv(q)'
  BY <1>3 DEF IInv, ProcessInv, SetsIds, Remembers, OffIsClosed, ReplacedIsClosed, ClosedHasReason
<1> QED BY <1>4, <1>5, <1>6, <1>7, <1>8 DEF IInv

LEMMA StartStep == ASSUME IInv, NEW p \in Processes, Start(p) PROVE IInv'
<1>1. phase[p] = "off" /\ closed[p] # "replaced"
  BY DEF Start, IInv, ProcessInv, ReplacedIsClosed
<1>2. at' \in [Processes -> Nat \ {0}] /\ at' = at
  BY DEF Start, IInv, Shape
<1> QED BY <1>1, <1>2, OpenedStep DEF Start

LEMMA RestartStep == ASSUME IInv, NEW p \in Processes, Restart(p) PROVE IInv'
<1>1. /\ phase[p] = "idle" /\ at' = [at EXCEPT ![p] = 1]
      /\ UNCHANGED <<phase, commands, instance>>
  BY DEF Restart, AtRestart
<1>2. at' \in [Processes -> Nat \ {0}] /\ \A q \in Processes \ {p} : at'[q] = at[q]
  BY <1>1 DEF IInv, Shape
<1>3. phase' = [phase EXCEPT ![p] = "idle"]
  BY <1>1 DEF IInv, Shape
<1>4. CASE Opened(p) /\ Reconnects(p)
  <2>1. closed[p] # "replaced"
    BY <1>4 DEF Reconnects, IInv, ProcessInv, ReplacedIsClosed
  <2> QED BY <1>1, <1>2, <1>3, <1>4, <2>1, OpenedStep
<1>5. CASE UNCHANGED <<port_vars, ghost_vars>>
  <2>1. UNCHANGED <<controls, toPort, closed>>
    BY <1>5 DEF port_vars, ghost_vars
  <2>2. SameRecords /\ toPort' \in [Processes -> Seq(Requests)]
    BY <2>1 DEF SameRecords, IInv, Shape
  <2>3. \A q \in Processes : SetsIds(q)'
    BY <1>1, <2>1 DEF IInv, ProcessInv, SetsIds
  <2>4. instance' \in [Processes -> InstanceIds \cup {None}] /\ ~Starts(p)
    BY <1>1 DEF IInv, Shape, Starts
  <2> QED BY <1>1, <1>2, <1>3, <2>1, <2>2, <2>3, <2>4, RequestStep DEF Phases
<1> QED BY <1>4, <1>5 DEF Restart

LEMMA EndStep == ASSUME IInv, NEW p \in Processes, End(p) PROVE IInv'
<1>1. /\ phase'[p] = "ended" /\ closed'[p] = "no" /\ instance'[p] = None /\ at'[p] = 1
      /\ UNCHANGED <<controls, toPort, commands>>
      /\ \A q \in Processes \ {p} :
           /\ phase'[q] = phase[q] /\ closed'[q] = closed[q]
           /\ instance'[q] = instance[q] /\ at'[q] = at[q]
  BY DEF End, IInv, Shape
<1>2. Shape'
  BY <1>1 DEF End, IInv, Shape, Phases
<1>3. BusyIsAtRequest' /\ OneOwner'
  BY <1>1 DEF IInv, BusyIsAtRequest, OneOwner, Connected
<1>4. ProcessInv(p)'
  BY <1>1 DEF IInv, ProcessInv, SetsIds, Remembers, OffIsClosed, ReplacedIsClosed, ClosedHasReason
<1>5. ASSUME NEW q \in Processes \ {p} PROVE ProcessInv(q)'
  BY <1>1 DEF IInv, ProcessInv, SetsIds, Remembers, OffIsClosed, ReplacedIsClosed, ClosedHasReason
<1> QED BY <1>2, <1>3, <1>4, <1>5 DEF IInv

LEMMA PortErasesStep == ASSUME IInv, NEW p \in Processes, PortErases(p) PROVE IInv'
<1>1. /\ phase[p] = "ended"
      /\ controls' = [controls EXCEPT ![p] = NoControl] /\ toPort' = [toPort EXCEPT ![p] = << >>]
      /\ UNCHANGED <<phase, commands, at, instance, closed>>
  BY DEF PortErases, Erase, ctl_vars, ghost_vars
<1>2. DOMAIN NoControl = {"id", "awaits", "awaitsOld", "asksKey", "open"} /\ ~NoControl.open
  BY DEF NoControl
<1>3. /\ controls'[p] = NoControl /\ toPort'[p] = << >>
      /\ \A q \in Processes \ {p} : controls'[q] = controls[q] /\ toPort'[q] = toPort[q]
  BY <1>1 DEF IInv, Shape
<1>4. Shape'
  <2>1. << >> \in Seq(Requests)
    OBVIOUS
  <2> QED BY <1>1, <1>2, <1>3, <2>1 DEF IInv, Shape
<1>5. BusyIsAtRequest' /\ OneOwner'
  BY <1>1, <1>2, <1>3 DEF IInv, BusyIsAtRequest, OneOwner, Connected
<1>6. ProcessInv(p)'
  BY <1>1, <1>2, <1>3
     DEF IInv, ProcessInv, SetsIds, Remembers, OffIsClosed, ReplacedIsClosed, ClosedHasReason
<1>7. ASSUME NEW q \in Processes \ {p} PROVE ProcessInv(q)'
  BY <1>1, <1>3
     DEF IInv, ProcessInv, SetsIds, Remembers, OffIsClosed, ReplacedIsClosed, ClosedHasReason
<1> QED BY <1>4, <1>5, <1>6, <1>7 DEF IInv

LEMMA ClientLosesServerStep == ASSUME IInv, ClientLosesServer PROVE IInv'
<1>1. /\ controls' = [p \in Processes |-> NoControl] /\ toPort' = [p \in Processes |-> << >>]
      /\ closed' = [p \in Processes |->
           IF Connected(p) /\ phase[p] # "ended" THEN "reset" ELSE closed[p]]
      /\ UNCHANGED <<phase, commands, at, instance>>
  BY DEF ClientLosesServer, PortReset, Reset, ctl_vars
<1>2. DOMAIN NoControl = {"id", "awaits", "awaitsOld", "asksKey", "open"} /\ ~NoControl.open
  BY DEF NoControl
<1>3. Shape'
  <2>1. << >> \in Seq(Requests)
    OBVIOUS
  <2> QED BY <1>1, <1>2, <2>1 DEF IInv, Shape
<1>4. BusyIsAtRequest' /\ OneOwner'
  BY <1>1, <1>2 DEF IInv, BusyIsAtRequest, OneOwner, Connected
<1>5. ASSUME NEW p \in Processes PROVE ProcessInv(p)'
  <2>1. SetsIds(p)' /\ Remembers(p)' /\ OffIsClosed(p)'
    BY <1>1, <1>2 DEF SetsIds, Remembers, OffIsClosed
  <2>2. ReplacedIsClosed(p)' /\ ClosedHasReason(p)'
    BY <1>1, <1>2 DEF IInv, ProcessInv, ReplacedIsClosed, ClosedHasReason, Connected
  <2> QED BY <2>1, <2>2 DEF ProcessInv
<1> QED BY <1>3, <1>4, <1>5 DEF IInv

-----------------------------------------------------------------------------
(* The invariant *)

LEMMA InvInit == ControlInit => IInv
<1> SUFFICES ASSUME ControlInit PROVE IInv
  OBVIOUS
<1>1. DOMAIN NoControl = {"id", "awaits", "awaitsOld", "asksKey", "open"} /\ ~NoControl.open
  BY DEF NoControl
<1>2. /\ controls = [p \in Processes |-> NoControl] /\ toPort = [p \in Processes |-> << >>]
      /\ phase = [p \in Processes |-> "off"] /\ closed = [p \in Processes |-> "no"]
      /\ commands \in [Processes -> Seq(CommandRequests)]
      /\ at = [p \in Processes |-> 1] /\ instance = [p \in Processes |-> None]
  BY CommandLinesAreRequests DEF ControlInit, PortInit
<1>3. Shape
  <2>1. << >> \in Seq(Requests)
    OBVIOUS
  <2> QED BY <1>1, <1>2, <2>1 DEF Shape, Phases
<1>4. BusyIsAtRequest /\ OneOwner
  BY <1>1, <1>2 DEF BusyIsAtRequest, OneOwner, Connected
<1>5. ASSUME NEW p \in Processes PROVE ProcessInv(p)
  BY <1>1, <1>2 DEF ProcessInv, SetsIds, Remembers, OffIsClosed, ReplacedIsClosed, ClosedHasReason
<1> QED BY <1>3, <1>4, <1>5 DEF IInv

LEMMA InvNext == IInv /\ [ControlNext]_control_vars => IInv'
<1> SUFFICES ASSUME IInv, [ControlNext]_control_vars PROVE IInv'
  OBVIOUS
<1>1. CASE UNCHANGED control_vars
  BY <1>1, NothingChanges DEF control_vars, port_vars, ctl_vars, ghost_vars
<1>2. CASE Around
  BY <1>2, AroundStep
<1>3. CASE ClientLosesServer
  BY <1>3, ClientLosesServerStep
<1>4. ASSUME NEW p \in Processes,
             \/ PortReads(p) \/ PortErases(p)
             \/ Start(p) \/ MakesRequest(p) \/ Restart(p) \/ End(p)
             \/ ReadSome(p) \/ ReadFails(p)
      PROVE  IInv'
  BY <1>4, PortReadsStep, PortErasesStep, StartStep, MakesRequestStep, RestartStep, EndStep,
     ReadStep, ReadFailsStep
<1> QED BY <1>1, <1>2, <1>3, <1>4 DEF ControlNext, ControlStep

\* The invariant, which is inductive, holds in every state of the system: what
\* the client knows a process by, the process itself remembers.
THEOREM InvHolds == ControlSpec => []IInv
BY InvInit, InvNext, PTL DEF ControlSpec

\* An instance id has one owner, however many processes set it at the same
\* time (ControlPort.cpp, disconnect_by_instance_id).
THEOREM IdsHaveOneOwner == ControlSpec => []OneOwner
<1>1. IInv => OneOwner
  BY DEF IInv
<1> QED BY <1>1, InvHolds, PTL

\* A process that was replaced stays closed, and only another one replaces it
\* (main.cpp, restart with an instance id).
THEOREM ReplacedStayClosed == ControlSpec => []ReplacedForGood
<1>1. IInv => ReplacedForGood
  BY DEF IInv, ProcessInv, ReplacedIsClosed, ClosedHasReason, ReplacedForGood, Connected
<1> QED BY <1>1, InvHolds, PTL

=============================================================================
