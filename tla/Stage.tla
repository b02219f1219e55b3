------------------------------- MODULE Stage -------------------------------
(***************************************************************************)
(* The mapping engine (src/src/runtime/Stage.cpp): one Stage turns key     *)
(* events of the devices into key events of the virtual devices. A Stage   *)
(* is a value st, every member function an operator that returns the next  *)
(* value:                                                                  *)
(*   seq          the input since the last match, or matched and held      *)
(*   might        the sequence is held back, something might still match   *)
(*   out          the keys which were output and are still down            *)
(*   onRelease    outputs to complete when their trigger is released       *)
(*   timeout      the timeout last requested                               *)
(*   history      the input a no-might-match mapping might still match     *)
(*   lastPressed, lastRepeat   device indices for suppressing key repeat   *)
(*   clientActive, active      active contexts, before and after filters   *)
(*   buf          output produced so far (m_output_buffer)                 *)
(*   stage        which contexts it has: an element of DOMAIN Contexts     *)
(*   toggle       a Down of a virtual key always toggles (no directive)    *)
(*   reapplied, anyKeys, exitPos, devices                                  *)
(* A Trigger is only ever asked for its event, so it is that event.        *)
(***************************************************************************)
EXTENDS MatchKeySequence

CONSTANTS
  Contexts            \* per stage of a configuration: its contexts, in order

\* What may be in the output of a stage, and in an output expression.
OutputKeys == DeviceKeys \cup VirtualKeys \cup ActionKeys \cup {"timeout"}
OutputExpressions == Seq(EventsOf(OutputKeys \cup {"any"}) \cup {Event("none", "OutputOnRelease")})
InputExpressions  == Seq(EventsOf(AllKeys)) \ {<< >>}

\* The contexts are what the parser of the configuration makes: each mapping
\* has its output or a command, and what falls through does so to another.
ASSUME ContextsAreParsed ==
  \A stage \in DOMAIN Contexts :
    /\ Contexts[stage] \in Seq(ToSet(Contexts[stage]))
    /\ \A c \in DOMAIN Contexts[stage] :
         LET ctx == Contexts[stage][c]
         IN  /\ ctx.inputs \in Seq([input : InputExpressions, output : Int])
             /\ ctx.outputs \in Seq(OutputExpressions)
             /\ \A command \in DOMAIN ctx.commands :
                  command < 0 /\ ctx.commands[command] \in OutputExpressions
             /\ \A i \in DOMAIN ctx.inputs : ctx.inputs[i].output < Len(ctx.outputs)
             /\ ctx.fallthrough => c < Len(Contexts[stage])

NoDevice  == -1
AnyDevice == -2
NoFilter  == {"every device"}

NoTimeout == [event |-> NoEvent, trigger |-> "none", matched |-> << >>,
              notExceeded |-> FALSE, virtualKeysChanged |-> FALSE]

ExitSequence == <<"ShiftLeft", "Escape", "K">>

NewStage(stage) ==
  [ stage |-> stage, toggle |-> TRUE, seq |-> << >>, might |-> FALSE, out |-> << >>, onRelease |-> << >>,
    timeout |-> NoTimeout, history |-> << >>,
    lastPressed |-> NoDevice, lastRepeat |-> NoDevice,
    clientActive |-> << >>, active |-> << >>, buf |-> << >>,
    reapplied |-> FALSE, anyKeys |-> << >>, exitPos |-> 0,
    devices |-> << >> ]

IsClear(st) ==
  /\ st.out = << >> /\ st.onRelease = << >> /\ st.seq = << >> /\ st.history = << >>
  /\ st.lastRepeat = NoDevice /\ ~st.might /\ st.timeout = NoTimeout

OutputKeysDown(st) == Select(Map(st.out, LAMBDA o : o.key),
                                LAMBDA key : key \in DeviceKeys)

Context(st, c) == Contexts[st.stage][c]

ShouldExit(st) == st.exitPos = Len(ExitSequence)

-----------------------------------------------------------------------------
(* Helpers on sequences of events. *)

RFindKey(seq, key) == LastOf({i \in DOMAIN seq : seq[i].key = key})
HasNonOptional(seq) == \E i \in DOMAIN seq : IsNonOptional(seq[i])
HasUp(seq, key) == \E i \in DOMAIN seq : SameEvent(seq[i], Release(key))
From(seq, i) == SubSeq(seq, i, Len(seq))

\* Bug: the mapping is one as any other.
IsNoMightMatchNever(input) == FALSE

IsNoMightMatch(input) == input # << >> /\ input[1].state = "NoMightMatch"

HasNoMightMatchMapping(st) ==
  \E c \in DOMAIN Contexts[st.stage] : \E i \in DOMAIN Context(st, c).inputs :
    IsNoMightMatch(Context(st, c).inputs[i].input)

\* The event an input expression ends with, which keeps its output pressed.
TriggerEvent(input) ==
  LET nonOptional == Select(input, IsNonOptional)
  IN  IF nonOptional # << >> THEN Last(nonOptional) ELSE Last(input)

IsPhysicallyPressed(st, key) ==
  LET i == RFindKey(st.seq, key) IN i # 0 /\ st.seq[i].state # "Up"

Emit(st, event) == [st EXCEPT !.buf = Append(@, event)]

-----------------------------------------------------------------------------
(* Contexts: filters by device and by held modifiers, falling through. *)

HasDeviceFilter(ctx) == ctx.devices # NoFilter

\* matching_device_bits: all bits until evaluate_device_filters ran.
\* Bug: the bit of the next device.
MatchingDevicesOffByOne(st, ctx) ==
  IF ~HasDeviceFilter(ctx) \/ st.devices = << >> THEN {NoDevice, AnyDevice} \cup (0..63)
  ELSE {AnyDevice} \cup {i \in DOMAIN st.devices : st.devices[i] \in ctx.devices}

MatchingDevices(st, ctx) ==
  IF ~HasDeviceFilter(ctx) \/ st.devices = << >> THEN {NoDevice, AnyDevice} \cup (0..63)
  ELSE {AnyDevice} \cup {i - 1 : i \in {j \in DOMAIN st.devices : st.devices[j] \in ctx.devices}}

Fallthrough(st, c) == FirstOf({d \in DOMAIN Contexts[st.stage] : d >= c /\ ~Context(st, d).fallthrough})

IsContextActive(st, c) ==
  \E i \in DOMAIN st.active : st.active[i] = c \/ Fallthrough(st, st.active[i]) = c

MatchModifierFilter(st, modifiers) ==
  \A i \in DOMAIN modifiers :
    (\E j \in DOMAIN st.seq : st.seq[j].key = modifiers[i].key) = (modifiers[i].state # "Not")

\* The output of a mapping: direct, or the last override of a command by
\* an active context. << >> when the command is not overridden. An output
\* is named by where it is defined, as the code compares its address.
FindOutput(st, c, output) ==
  LET overriding == Select(st.active,
        LAMBDA a : output \in DOMAIN Context(st, Fallthrough(st, a)).commands)
  IN  IF output >= 0 THEN <<c, output>>
      ELSE IF overriding = << >> THEN << >>
      ELSE <<Fallthrough(st, Last(overriding)), output>>

OutputSequence(st, found) ==
  LET ctx == Context(st, found[1])
  IN  IF found[2] >= 0 THEN ctx.outputs[found[2] + 1] ELSE ctx.commands[found[2]]

-----------------------------------------------------------------------------
(***************************************************************************)
(* Output. out holds each key once, released and suppressed tell whether   *)
(* a Not in an output expression keeps it released for a while.            *)
(***************************************************************************)
OutputIndex(st, key) == FirstOf({i \in DOMAIN st.out : st.out[i].key = key})

WithoutLast(seq, key) ==
  LET i == RFindKey(seq, key) IN IF i = 0 THEN seq ELSE RemoveAt(seq, i)

UpdateOutputUp(st, i, key, trigger) ==
  IF i = 0 THEN st
  ELSE IF st.out[i].twice /\ key \in VirtualKeys
  THEN [Emit(st, Release(key)) EXCEPT !.out[i].twice = FALSE]
  ELSE IF st.out[i].twice /\ ~st.out[i].suppressed
  THEN [st EXCEPT !.out[i].twice = FALSE, !.buf = WithoutLast(@, key)]
  \* only releasing the trigger can permanently release
  ELSE IF st.out[i].trigger = trigger
  THEN [Emit(st, Release(key)) EXCEPT !.out = RemoveAt(@, i)]
  ELSE [Emit(st, Release(key)) EXCEPT !.out[i].released = TRUE]

\* Bug: a Not releases what is already released.
UpdateOutputNotAgain(st, i, key) ==
  IF i = 0 \/ key \in VirtualKeys \cup ActionKeys THEN st
  ELSE [Emit(st, Release(key)) EXCEPT !.out[i].released = TRUE, !.out[i].suppressed = TRUE]

UpdateOutputNot(st, i, key) ==
  IF i = 0 \/ key \in VirtualKeys \cup ActionKeys THEN st
  ELSE [ (IF st.out[i].released THEN st ELSE Emit(st, Release(key)))
         EXCEPT !.out[i].released = TRUE, !.out[i].suppressed = TRUE ]

\* The i-th output is pressed again when it was released by a Not. done tells
\* that this already put the pressed key in its place.
ReapplyAt(r, key, i) ==
  LET o == r.st.out[i]
  IN
  IF r.done \/ ~o.released THEN r
  ELSE IF ~o.suppressed THEN
    [ st |-> [Emit(r.st, Press(o.key)) EXCEPT !.out[i].released = FALSE, !.reapplied = TRUE],
      done |-> o.key = key ]
  ELSE IF /\ o.key = key /\ key \in CommonModifiers
          /\ r.st.buf # << >> /\ SameEvent(Last(r.st.buf), Release(key))
  THEN [st |-> [r.st EXCEPT !.buf = Front(@), !.out[i].released = FALSE], done |-> TRUE]
  ELSE r

Reapply(st, key) ==
  FoldLeft(LAMBDA r, i : ReapplyAt(r, key, i), [st |-> st, done |-> FALSE], [i \in DOMAIN st.out |-> i])

\* r is what reapplying resulted in.
PressOutput(r, i, event, trigger, c) ==
  IF r.done THEN r.st
  ELSE IF i = 0 /\ event.key = "timeout" THEN Emit(r.st, event)
  ELSE IF i = 0
  THEN Emit([r.st EXCEPT !.out = Append(@,
              [ key |-> event.key, trigger |-> trigger, suppressed |-> FALSE,
                released |-> FALSE, twice |-> FALSE, ctx |-> c ])], event)
  ELSE IF r.st.reapplied
  THEN Emit([Emit(r.st, Release(event.key)) EXCEPT !.out[i].released = FALSE,
                                                   !.out[i].twice = FALSE], event)
  ELSE Emit([r.st EXCEPT !.out[i].released = FALSE, !.out[i].twice = TRUE], event)

UpdateOutputDown(st, i, event, trigger, c) ==
  PressOutput(Reapply(st, event.key), i, event, trigger, c)

UpdateOutputAt(st, i, event, trigger, c) ==
  CASE event.state = "Up"   -> UpdateOutputUp(st, i, event.key, trigger)
    [] event.state = "Not"  -> UpdateOutputNot(st, i, event.key)
    [] event.state = "Down" -> UpdateOutputDown(st, i, event, trigger, c)
    [] OTHER -> st

\* trigger is the key that holds the output.
UpdateOutput(st, event, trigger, c) ==
  UpdateOutputAt(st, OutputIndex(st, event.key), event, trigger, c)

\* A virtual key is down when it was pressed an odd number of times.
IsVirtualKeyDown(st, key) ==
  Len(Select(st.seq \o st.buf, LAMBDA ev : ev.key = key /\ IsDown(ev))) % 2 = 1

\* A virtual key is toggled by a Down, which a Not only inserts when it is down.
ToggleEvents(st, event) ==
  IF event.state = "Not"
  THEN IF IsVirtualKeyDown(st, event.key) THEN <<Press(event.key), Release(event.key)>> ELSE << >>
  ELSE IF IsVirtualKeyDown(st, event.key) /\ ~st.toggle THEN << >> ELSE <<event>>

\* The updates an event of an output expression stands for. Any are all keys
\* of the output, or those that Any of the input matched.
OutputUpdates(st, event) ==
  IF event.key = "any"
  THEN Map(IF event.state = "Not" THEN Map(st.out, LAMBDA o : o.key) ELSE st.anyKeys,
           LAMBDA key : Event(key, event.state))
  ELSE IF event.key \in VirtualKeys THEN ToggleEvents(st, event)
  ELSE <<event>>

NoteVirtualKey(st, event) ==
  IF event.key \notin VirtualKeys \/ st.timeout = NoTimeout THEN st
  ELSE [st EXCEPT !.timeout.virtualKeysChanged = TRUE]

\* trigger is the event that triggered the output.
ApplyOutputEvent(st, event, trigger, c) ==
  FoldLeft(LAMBDA s, ev : UpdateOutput(s, ev, trigger.key, c),
           NoteVirtualKey(st, event), OutputUpdates(st, event))

IsOutputOnRelease(event) == event.state = "OutputOnRelease"

\* A press only triggers what comes before OutputOnRelease, which is at split.
ApplyUntil(st, sequence, split, trigger, c) ==
  [ FoldLeft(LAMBDA s, ev : ApplyOutputEvent(s, ev, trigger, c), st,
             Select(IF split = 0 THEN sequence ELSE SubSeq(sequence, 1, split - 1),
                       LAMBDA ev : ~IsOutputOnRelease(ev)))
    EXCEPT !.onRelease =
      IF split = 0 THEN @
      ELSE Append(@, [trigger |-> trigger.key, rest |-> From(sequence, split + 1), ctx |-> c]) ]

ApplyOutput(st, sequence, trigger, c) ==
  ApplyUntil(st, sequence,
             FirstOf({i \in DOMAIN sequence : trigger.state = "Down" /\ IsOutputOnRelease(sequence[i])}),
             trigger, c)

\* Bug: what is down stays down.
ReleaseTriggeredUnheld(st, key, c) ==
  LET ups == Reverse(Select(st.out, LAMBDA o : o.trigger = key /\ o.released))
  IN  [st EXCEPT !.out = Select(@, LAMBDA o : o.trigger # key),
                 !.buf = @ \o Map(ups, LAMBDA o : Release(o.key))]

IsTriggeredBy(o, key, c) == o.trigger = key /\ (key # "ContextActive" \/ o.ctx = c)

ReleaseTriggered(st, key, c) ==
  [ st EXCEPT
      !.out = Select(@, LAMBDA o : ~IsTriggeredBy(o, key, c)),
      !.buf = @ \o Map(Reverse(Select(st.out, LAMBDA o : IsTriggeredBy(o, key, c) /\ ~o.released)),
                       LAMBDA o : Release(o.key)),
      !.timeout = IF @ # NoTimeout /\ @.trigger = key THEN NoTimeout ELSE @ ]

\* Bug: output is only released by what it is mapped to.
ReleaseOutputNever(st, event, c) == st

ReleaseOutput(st, event, c) ==
  IF event.state = "Up" THEN ReleaseTriggered(st, event.key, c) ELSE st

\* Sequences that are output in a row, all that waits for a release among them.
ApplyOutputs(st, outputs, event) ==
  FoldLeft(LAMBDA s, o : ApplyOutput(s, o.rest, event, o.ctx), st, outputs)

Waiting(st, event, c) ==
  Select(st.onRelease, LAMBDA o : event.state = "Up" /\ IsTriggeredBy(o, event.key, c))
NotWaiting(st, event, c) ==
  [st EXCEPT !.onRelease = Select(@, LAMBDA o : event.state # "Up" \/ ~IsTriggeredBy(o, event.key, c))]

ContinueOutputOnRelease(st, event, c) ==
  ApplyOutputs(NotWaiting(st, event, c), Waiting(st, event, c), event)

-----------------------------------------------------------------------------
(* Activation of contexts, which ContextActive mappings turn into output. *)

\* The ContextActive mapping of a context, or 0.
ContextActiveInput(st, c) ==
  FirstOf({i \in DOMAIN Context(st, c).inputs :
             Context(st, c).inputs[i].input[1].key = "ContextActive"})

\* What the mapping of a context that becomes active outputs.
ActivationOutput(st, event, c, output) ==
  IF event.state = "Up" \/ output = << >> THEN << >>
  ELSE <<[rest |-> OutputSequence(st, output), ctx |-> c]>>

OnContextActiveEvent(st, event, c) ==
  IF ContextActiveInput(st, c) = 0 THEN st
  ELSE ReleaseOutput(
         ApplyOutputs(NotWaiting(st, event, c),
           Waiting(st, event, c) \o ActivationOutput(st, event, c,
             FindOutput(st, c, Context(st, c).inputs[ContextActiveInput(st, c)].output)), event),
         event, c)

Sorted(changes) == Select(changes, LAMBDA ch : ch.state = "Up")
                     \o Select(changes, LAMBDA ch : ch.state = "Down")

\* What the comparison of the previous and the current active contexts, both
\* taken to be sorted, tells to be deactivated and activated.
CompareContexts(c) ==
  IF c.prev = << >> /\ c.curr = << >> THEN c
  ELSE IF c.curr = << >> \/ (c.prev # << >> /\ c.prev[1] < c.curr[1])
  THEN [c EXCEPT !.prev = Tail(@), !.changes = Append(@, [state |-> "Up", ctx |-> c.prev[1]])]
  ELSE IF c.prev = << >> \/ c.curr[1] < c.prev[1]
  THEN [c EXCEPT !.curr = Tail(@), !.changes = Append(@, [state |-> "Down", ctx |-> c.curr[1]])]
  ELSE [c EXCEPT !.prev = Tail(@), !.curr = Tail(@)]

ContextChanged(prev, curr) ==
  LET last == Len(prev) + Len(curr)
      after[round \in 0..last] ==
        IF round = 0 THEN [prev |-> prev, curr |-> curr, changes |-> << >>]
                     ELSE CompareContexts(after[round - 1])
  IN  after[last].changes

\* A context by its filters, a device filter applies before falling through.
PassesFilters(st, c) ==
  /\ MatchModifierFilter(st, Context(st, c).modifier) # Context(st, c).invert
  /\ HasDeviceFilter(Context(st, c)) => MatchingDevices(st, Context(st, c)) # {AnyDevice}

Target(st, c) == IF HasDeviceFilter(Context(st, c)) THEN c ELSE Fallthrough(st, c)

WithoutRepetitions(seq) ==
  Map(Select([i \in DOMAIN seq |-> i], LAMBDA i : i = 1 \/ seq[i] # seq[i - 1]),
      LAMBDA i : seq[i])

\* The active contexts after their filters.
PassingContexts(st) ==
  WithoutRepetitions(Map(Select(st.clientActive, LAMBDA c : PassesFilters(st, c)),
                         LAMBDA c : Target(st, c)))

\* Those that end are deactivated before others are activated.
Activate(st, active) ==
  FoldLeft(LAMBDA s, ch : OnContextActiveEvent(s, Event("ContextActive", ch.state), ch.ctx),
           [st EXCEPT !.active = active], Sorted(ContextChanged(st.active, active)))

UpdateActiveContexts(st) == Activate(st, PassingContexts(st))

-----------------------------------------------------------------------------
(* History of the input, for the no-might-match mappings. *)

AddHistoryEvent(st, event, elapsed) ==
  LET i == RFindKey(st.history, event.key)
      isDown == i # 0 /\ st.history[i].state = "Down"
      n == Len(st.history)
      timed == IF n = 0 THEN << >>
               ELSE IF st.history[n].state = "HistoryTiming"
               THEN [st.history EXCEPT ![n].value = SumTimeouts(elapsed, @)]
               ELSE Append(st.history, Timeout("HistoryTiming", elapsed))
  IN  IF (event.state = "Down") = isDown THEN st
      ELSE [st EXCEPT !.history = Append(timed, event)]

\* Bug: only a leading release is removed.
CleanUpHistoryOnce(st) ==
  IF st.history # << >> /\ st.history[1].state = "Up" THEN [st EXCEPT !.history = Tail(@)] ELSE st

\* A no-might-match mapping might match the history without its first event.
HistoryMightMatch(st) ==
  \E i \in DOMAIN st.active : \E j \in DOMAIN Context(st, st.active[i]).inputs :
    LET input == Context(st, st.active[i]).inputs[j].input
    IN  /\ IsNoMightMatch(input)
        /\ MatchSequence(Tail(input), st.history, TRUE).result = "might_match"

\* The first event of the history is removed when it keeps every
\* no-might-match mapping from matching.
CleanUpFirst(st) ==
  LET h == st.history
      first == h[1]
      up == FirstOf({i \in DOMAIN h : SameEvent(h[i], Release(first.key))})
      rest == IF first.key \in CommonModifiers THEN Tail(h) ELSE Tail(RemoveAt(h, up))
  IN
  IF h = << >> THEN st
  ELSE IF first.state \in {"HistoryTiming", "Up"}
  THEN [st EXCEPT !.history = Tail(@)]
  ELSE IF up = 0 \/ HistoryMightMatch(st) THEN st
  ELSE [st EXCEPT !.history = rest]

CleanUpHistory(st) == FoldLeft(LAMBDA s, i : CleanUpFirst(s), st, st.history)

-----------------------------------------------------------------------------
(***************************************************************************)
(* Matching: the mappings of the active contexts in order, the first one   *)
(* that matches - or might match the whole sequence - decides.             *)
(***************************************************************************)
NoMatch == [result |-> "no_match", output |-> << >>, trigger |-> NoEvent, ctx |-> 0,
            timeout |-> NoEvent]

\* What a mapping says. Only the whole sequence is held back for it, and a
\* no-might-match mapping holds nothing back.
MappingResult(first, c, input, m, output) ==
  [ accepted |-> \/ m.result = "match" /\ output # << >>
                 \/ m.result = "might_match" /\ first /\ ~IsNoMightMatch(input),
    any |-> m.any,
    match |-> [ result |-> m.result, ctx |-> c, timeout |-> m.timeout,
                output |-> IF m.result = "match" THEN output ELSE << >>,
                trigger |-> TriggerEvent(input) ] ]

\* No-might-match mappings need a history of the keys of a device.
IsSkipped(st, first, input, device) ==
  /\ IsNoMightMatch(input)
  /\ ~first \/ st.history = << >> \/ device = AnyDevice

ContextResults(st, first, matchedAreOptional, sequence, device, c) ==
  Map(Select(Context(st, c).inputs, LAMBDA in : ~IsSkipped(st, first, in.input, device)),
      LAMBDA in : MappingResult(first, c, in.input,
        MatchSequence(in.input, IF IsNoMightMatch(in.input) THEN st.history ELSE sequence,
                      matchedAreOptional),
        FindOutput(st, c, in.output)))

\* What each mapping says, in order. Mappings that are skipped say nothing.
MatchResults(st, first, matchedAreOptional, sequence, device) ==
  FoldLeft(LAMBDA acc, a :
             acc \o ContextResults(st, first, matchedAreOptional, sequence, device,
                                   Fallthrough(st, a)),
           << >>, Select(st.active, LAMBDA a : device \in MatchingDevices(st, Context(st, a))))

\* The first result that is accepted, and the stage with the keys Any stood
\* for when last compared.
Accepted(st, results) ==
  LET i == FirstOf({j \in DOMAIN results : results[j].accepted})
      last == IF i # 0 THEN i ELSE Len(results)
  IN  [ match |-> IF i = 0 THEN NoMatch ELSE results[i].match,
        st |-> IF last = 0 THEN st ELSE [st EXCEPT !.anyKeys = results[last].any] ]

MatchInput(st, first, matchedAreOptional, sequence, device) ==
  Accepted(st, MatchResults(st, first, matchedAreOptional, sequence, device))

\* When nothing might match any more, the longest start that matches. Both
\* carry the length of what they are about.
Found(m, length, startOnly) ==
  [match |-> m.match, st |-> m.st, length |-> length, startOnly |-> startOnly]

FoundStart(m, length) == Found(m, length, m.match.result = "match")

\* found is what a longer start resulted in.
MatchStartOf(found, length, device) ==
  LET start == SubSeq(found.st.seq, 1, length)
  IN  IF found.startOnly \/ ~HasNonOptional(start) THEN found
      ELSE FoundStart(MatchInput(found.st, FALSE, TRUE, start, device), length)

MatchStart(st, device) ==
  FoldLeft(LAMBDA found, length : MatchStartOf(found, length, device),
           Found([match |-> NoMatch, st |-> st], Len(st.seq), FALSE),
           [i \in 1..(Len(st.seq) - 1) |-> Len(st.seq) - i])

\* Bug: what follows the matched part is forgotten.
FinishSequenceForgets(st, length) ==
  LET held(i) == IsDown(st.seq[i]) /\ ~HasUp(From(st.seq, i), st.seq[i].key)
      kept == Select([i \in 1..length |-> i], held)
  IN  [st EXCEPT !.seq = Map(kept, LAMBDA i : [st.seq[i] EXCEPT !.state = "DownMatched"])]

\* The matched part: held keys stay as matched, the others are erased.
FinishSequence(st, length) ==
  LET held(i) == IsDown(st.seq[i]) /\ ~HasUp(From(st.seq, i), st.seq[i].key)
      timedOut(i) == ~IsDown(st.seq[i]) /\ st.seq[i].key = "timeout"
      kept == Select([i \in 1..length |-> i], LAMBDA i : held(i) \/ timedOut(i))
      finished(i) == [st.seq[i] EXCEPT !.state = IF held(i) THEN "DownMatched" ELSE "UpMatched"]
  IN  [st EXCEPT !.seq = Map(kept, finished) \o From(@, length + 1)]

\* Bug: nothing is forwarded while a timeout is pending.
IsForwardedWithoutTimeout(st, released) == st.timeout = NoTimeout

\* A key that stays down is not forwarded once the timeout matched.
IsForwarded(st, released) == released \/ st.timeout.matched = << >>

\* Nothing matches: one event of the beginning passes through unmapped.
IsReleased(st, i) == HasUp(From(st.seq, i), st.seq[i].key)

ForwardAt(st, i, event, released) ==
  IF i = 0 THEN st
  ELSE IF ~IsDown(event) THEN [ReleaseTriggered(st, event.key, -1) EXCEPT !.seq = RemoveAt(@, i)]
  ELSE [ (IF IsForwarded(st, released) THEN UpdateOutput(st, event, event.key, -1) ELSE st)
         EXCEPT !.seq = IF released THEN RemoveAt(@, i) ELSE [@ EXCEPT ![i].state = "DownMatched"] ]

ForwardFromSequence(st) ==
  LET i == FirstOf({j \in DOMAIN st.seq : st.seq[j].state # "DownMatched" \/ IsReleased(st, j)})
  IN  ForwardAt(st, i, st.seq[i], IsReleased(st, i))

-----------------------------------------------------------------------------
(***************************************************************************)
(* Input. Each step of Stage::apply_input is an operator of its own, an    *)
(* early return of the code is an input that is Ignored.                   *)
(***************************************************************************)
NotTimeoutPending(st) ==
  st.timeout # NoTimeout /\ IsNotTimeoutState(st.timeout.event.state)

\* The key is down in the sequence, pressing it again is a key repeat.
IsKeyRepeat(st, event) == event.state = "Down" /\ IsPhysicallyPressed(st, event.key)

RepeatDevice(st, device) == IF device = st.lastPressed THEN device ELSE st.lastRepeat

Ignored(st, event, device) ==
  \* the trigger of a pending output on release repeats
  \/ event.state = "Down" /\ \E i \in DOMAIN st.onRelease : st.onRelease[i].trigger = event.key
  \* a short timeout after the not-timeout was exceeded
  \/ /\ NotTimeoutPending(st) /\ event.key = "timeout"
     /\ st.timeout.event.value # event.value /\ st.timeout.notExceeded
  \* key repeat while the sequence might match or of another device
  \/ /\ IsKeyRepeat(st, event)
     /\ st.might \/ (device # NoDevice /\ device # RepeatDevice(st, device))

\* An exceeded not-timeout is remembered until its trigger is released.
TrackNotTimeout(st, event) ==
  IF ~NotTimeoutPending(st) THEN st
  ELSE IF event.key = "timeout" THEN [st EXCEPT !.timeout.notExceeded = @ \/ st.timeout.event.value = event.value]
  ELSE IF event.state = "Up" /\ st.timeout.trigger = event.key
  THEN [st EXCEPT !.timeout.notExceeded = FALSE]
  ELSE st

\* Bug: which device repeats is not forgotten.
TrackDeviceForever(st, event, device) ==
  IF IsKeyRepeat(st, event)
  THEN [st EXCEPT !.seq = RemoveAt(@, RFindKey(@, event.key)),
                  !.lastRepeat = RepeatDevice(st, device)]
  ELSE [st EXCEPT !.lastPressed = IF event.state = "Down" /\ device >= 0 THEN device ELSE @]

TrackDevice(st, event, device) ==
  IF IsKeyRepeat(st, event) THEN
    [st EXCEPT !.seq = RemoveAt(@, RFindKey(@, event.key)),
               !.lastRepeat = IF device = NoDevice THEN @ ELSE RepeatDevice(st, device)]
  ELSE [st EXCEPT
    !.lastRepeat  = IF device = @ THEN NoDevice ELSE @,
    !.lastPressed = IF event.state = "Down" /\ device >= 0 THEN device ELSE @]

AddToSequence(st, event, elapsed) ==
  LET added == [st EXCEPT !.seq = Append(@, event)]
      inHistory == /\ HasNoMightMatchMapping(st)
                   /\ event.key \notin VirtualKeys \cup {"timeout"}
  IN  UpdateActiveContexts(IF inHistory THEN AddHistoryEvent(added, event, elapsed) ELSE added)

\* A release: what already matched is not forwarded and leaves the sequence.
RemoveReleased(st, event) ==
  LET seq == IF st.timeout.matched = << >> THEN st.seq
             ELSE Map(st.seq, LAMBDA ev :
                    IF ev.state = "Down" THEN [ev EXCEPT !.state = "DownMatched"] ELSE ev)
      i == FirstOf({j \in DOMAIN seq : seq[j].key = event.key})
  IN  IF event.state # "Up" THEN st
      ELSE [st EXCEPT !.seq = IF ~st.might /\ seq[i].state = "DownMatched"
                              THEN RemoveAt(seq, i) ELSE seq]

\* Bug: what a Not suppressed stays suppressed.
UnsuppressNothing(st) == st

\* Common modifiers stay suppressed while another one is output.
Unsuppress(st) ==
  LET modifierDown == \E i \in DOMAIN st.out :
                        st.out[i].key \in CommonModifiers /\ ~st.out[i].suppressed
      stays(o) == o.key \in CommonModifiers /\ modifierDown
  IN  [st EXCEPT !.out = Map(st.out, LAMBDA o : [o EXCEPT !.suppressed = @ /\ stays(o)])]

\* A mapping waits for a timeout, which is requested from the server.
RequestTimeout(st, request) ==
  LET down == LastOf({i \in DOMAIN st.seq : IsDown(st.seq[i])})
      known == /\ st.timeout # NoTimeout /\ SameEvent(st.timeout.event, request)
               /\ st.timeout.trigger = st.seq[down].key
  IN  IF request.key # "timeout" THEN st
      ELSE IF down = 0 \/ known THEN Emit(st, request)
      ELSE [Emit(st, request) EXCEPT !.timeout =
             [NoTimeout EXCEPT !.event = request, !.trigger = st.seq[down].key]]

\* Once a timeout matched, its cancellation does not match another mapping.
MatchPrevented(st, event, match) ==
  /\ st.timeout # NoTimeout /\ ~NotTimeoutPending(st)
  /\ event.key = "timeout" /\ match.result = "match"
  /\ st.timeout.matched \notin {<< >>, match.output}
  /\ ~st.timeout.virtualKeysChanged

\* Bug: that a timeout matched is not remembered.
TrackTimeoutForgets(st, event, match, startOnly) ==
  IF NotTimeoutPending(st) THEN [st EXCEPT !.timeout.notExceeded = @ \/ match.result = "no_match"]
                           ELSE st

TrackTimeout(st, event, match, startOnly) ==
  IF st.timeout = NoTimeout THEN st
  ELSE IF NotTimeoutPending(st) THEN
    [st EXCEPT !.timeout.notExceeded = @ \/ match.result = "no_match"]
  ELSE IF event.key # "timeout" THEN
    [st EXCEPT !.timeout.matched = IF match.result = "no_match" THEN << >> ELSE @]
  ELSE IF match.result = "match" /\ st.timeout.matched = << >> /\ ~startOnly
  THEN [st EXCEPT !.timeout.matched = match.output]
  ELSE st

(***************************************************************************)
(* The event that keeps the output of a match pressed: the one of the      *)
(* input, optimised, as long as its key is down.                           *)
(***************************************************************************)
OptimizeTrigger(st, event, trigger, output) ==
  IF \/ trigger.key = "any" \/ event.key = "timeout"
     \/ \E i \in DOMAIN output : IsOutputOnRelease(output[i])
  THEN event ELSE trigger

TriggerOfTimeout(st, trigger) ==
  IF trigger.key = "timeout" /\ st.timeout # NoTimeout THEN Press(st.timeout.trigger) ELSE trigger

EnsureTriggerIsDown(st, event, trigger, output) ==
  IF \/ IsPhysicallyPressed(st, trigger.key)
     \/ Len(output) = 1 /\ SameEvent(output[1], trigger) /\ HasUp(st.seq, trigger.key)
  THEN trigger ELSE event

ChooseTrigger(st, event, trigger, output) ==
  EnsureTriggerIsDown(st, event,
    TriggerOfTimeout(st, OptimizeTrigger(st, event, trigger, output)), output)

(***************************************************************************)
(* The loop that matches the sequence, until nothing is left to match or   *)
(* something might match. A round passes what it found from one operator   *)
(* to the next.                                                            *)
(***************************************************************************)
\* When the whole sequence does not match (any more), look at its start.
LookAtStart(m, device) ==
  IF m.match.result = "no_match" /\ m.st.might THEN MatchStart(m.st, device)
                                               ELSE Found(m, Len(m.st.seq), FALSE)

Requested(found) == [found EXCEPT !.st = RequestTimeout(@, found.match.timeout)]

Permitted(found, event) ==
  IF MatchPrevented(found.st, event, found.match) THEN [found EXCEPT !.match = NoMatch] ELSE found

Tracked(found, event) ==
  [found EXCEPT !.st = TrackTimeout(@, event, found.match, found.startOnly)]

StillMight(st) == [st EXCEPT !.might = @ /\ HasNonOptional(st.seq)]

\* The output of a match is applied, otherwise the beginning passes through.
ApplyMatch(st, event, match, output) ==
  ApplyOutput(st, output, ChooseTrigger(st, event, match.trigger, output), match.ctx)

Applied(found, event) ==
  IF found.match.result = "match"
  THEN [ FinishSequence(ApplyMatch(found.st, event, found.match,
                                   OutputSequence(found.st, found.match.output)), found.length)
         EXCEPT !.might = @ /\ found.startOnly ]
  ELSE StillMight(ForwardFromSequence(found.st))

\* Before a round: matchedAreOptional, and done when the loop is left.
Round(st, matchedAreOptional, done) ==
  [st |-> st, matchedAreOptional |-> matchedAreOptional, done |-> done]

Proceed(found, event, matchedAreOptional) ==
  IF found.match.result = "might_match" THEN Round([found.st EXCEPT !.might = TRUE], matchedAreOptional, TRUE)
  ELSE Round(Applied(Tracked(Permitted(found, event), event), event), matchedAreOptional, FALSE)

WholeMatched(m, event, device, matchedAreOptional) ==
  \* first with all events that already matched, then with these optional
  IF m.match.result # "match" /\ ~matchedAreOptional THEN Round(m.st, TRUE, FALSE)
  \* virtual key events match directly or never
  ELSE IF m.match.result # "match" /\ event.key \in VirtualKeys
  THEN Round(FinishSequence(m.st, Len(m.st.seq)), matchedAreOptional, TRUE)
  ELSE Proceed(Requested(LookAtStart(m, device)), event, matchedAreOptional)

MatchOnce(r, event, device) ==
  IF r.done \/ ~HasNonOptional(r.st.seq) THEN r
  ELSE WholeMatched(MatchInput(r.st, TRUE, r.matchedAreOptional, r.st.seq, device),
                    event, device, r.matchedAreOptional)

\* Each round but one shortens the sequence or makes one of its events optional.
MatchLoop(st, event, device) ==
  LET last == 2 * Len(st.seq) + 1
      after[round \in 0..last] ==
        IF round = 0 THEN Round(st, FALSE, FALSE) ELSE MatchOnce(after[round - 1], event, device)
  IN  after[last].st

\* Leading timeouts that matched are forgotten, with all input the timeout is.
ForgetMatched(st) ==
  LET rest == FirstOf({i \in DOMAIN st.seq : st.seq[i].state # "UpMatched"})
      seq  == IF rest = 0 THEN << >> ELSE From(st.seq, rest)
  IN  [st EXCEPT !.seq = seq, !.reapplied = FALSE,
                 !.timeout = IF seq = << >> THEN NoTimeout ELSE @]

\* What follows the matching.
FinishInput(st, event) == CleanUpHistory(ForgetMatched(UpdateActiveContexts(ReleaseOutput(st, event, -1))))

\* What precedes it.
BeginInput(st, event, device, elapsed) ==
  Unsuppress(RemoveReleased(
    AddToSequence(TrackDevice(TrackNotTimeout(st, event), event, device), event, elapsed), event))

\* continued is the stage after the outputs on release.
ApplyContinued(continued, event, device, elapsed) ==
  IF Ignored(continued, event, device) THEN continued
  ELSE FinishInput(MatchLoop(BeginInput(continued, event, device, elapsed), event, device), event)

ApplyInput(st, event, device, elapsed) ==
  ApplyContinued(ContinueOutputOnRelease(st, event, 0), event, device, elapsed)

-----------------------------------------------------------------------------
(* The operations of a Stage. Each empties buf into what it returns. *)

AdvanceExitSequence(st, event) ==
  LET p == st.exitPos
      position ==
        IF event.state # "Down" THEN 0
        ELSE IF p > 0 /\ event.key = ExitSequence[p] THEN p
        ELSE IF p < Len(ExitSequence) /\ event.key = ExitSequence[p + 1] THEN p + 1
        ELSE 0
  IN  IF event.key \in KeyboardKeys THEN [st EXCEPT !.exitPos = position] ELSE st

TakeOutput(st) == [st |-> [st EXCEPT !.buf = << >>], output |-> st.buf]

Update(st, event, device, elapsed) ==
  TakeOutput(ApplyInput(AdvanceExitSequence(st, event), event, device, elapsed))

CancelInactive(st) ==
  [st EXCEPT !.onRelease = Select(@, LAMBDA o : IsContextActive(st, o.ctx))]

SetActiveClientContexts(st, indices) ==
  TakeOutput(CancelInactive(UpdateActiveContexts([st EXCEPT !.clientActive = indices])))

EvaluateDeviceFilters(st, devices) == [st EXCEPT !.devices = devices]

\* Bug: the output is dropped.
ValidateStateSilently(st, down, elapsed) ==
  LET stuck == Select(st.out, LAMBDA o : o.key \in DeviceKeys /\ o.trigger \notin down)
      validated == FoldLeft(LAMBDA s, o : ApplyInput(s, Release(o.key), AnyDevice, elapsed), st, stuck)
  IN  [validated EXCEPT !.buf = << >>]

\* down is what the system says of the keys. The output stays in buf.
ValidateState(st, down, elapsed) ==
  LET lost(key) == key \in DeviceKeys /\ key \notin down
      kept == [st EXCEPT !.might = FALSE, !.seq = Select(@, LAMBDA ev : ~lost(ev.key))]
      stuck == Select(st.out, LAMBDA o : o.key \in DeviceKeys /\ o.trigger \notin down)
  IN  FoldLeft(LAMBDA s, o : ApplyInput(s, Release(o.key), AnyDevice, elapsed), kept, stuck)

=============================================================================
