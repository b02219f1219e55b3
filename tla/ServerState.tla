---------------------------- MODULE ServerState ----------------------------
(***************************************************************************)
(* The server between the input devices, the mapping stages and the        *)
(* virtual device (src/src/server/ServerState.cpp). As a Stage, it is a    *)
(* value sv and every member function an operator that returns the next    *)
(* value, since nobody sees what is in between:                            *)
(*   stages, clientContexts   m_stage                                      *)
(*   buffer         the events to send (m_send_buffer)                     *)
(*   insertAt       where output of a toggled virtual key goes, or Nowhere *)
(*   flush          a flush is scheduled, so nobody else flushes           *)
(*   delayed        ... for later, otherwise for the next iteration        *)
(*   timeout        the input timeout that runs, or NoEvent                *)
(*   virtualDown, lastKey, devices, nextKeyRequested, nextKeys             *)
(*   virtualDevice  there is a virtual device, otherwise on_send_key fails *)
(*   elapsed        time since the timeout was scheduled and since the     *)
(*                  previous event of the history, chosen for every step   *)
(*   sent           what went to the virtual device in this step           *)
(*   told           what went to the client in this step                   *)
(*   exit           on_exit_requested was called                           *)
(* The platform is the unix server, which intercepts every event.          *)
(***************************************************************************)
EXTENDS MultiStage

CONSTANTS
  WheelKeys           \* the mouse keys of a wheel, which are never down

ASSUME WheelKeysAreMouseKeys == WheelKeys \subseteq MouseKeys

Nowhere == -1

\* How often a flush lets mappings toggle virtual keys.
MaxToggles == 9

NewServer ==
  [ stages |-> << >>, clientContexts |-> << >>, buffer |-> << >>, insertAt |-> Nowhere,
    flush |-> FALSE, delayed |-> FALSE, timeout |-> NoEvent, virtualDown |-> {}, lastKey |-> NoEvent,
    devices |-> << >>, nextKeyRequested |-> FALSE, nextKeys |-> << >>, virtualDevice |-> FALSE,
    elapsed |-> 0, sent |-> << >>, told |-> << >>, exit |-> FALSE ]

Tell(sv, message) == [sv EXCEPT !.told = Append(@, message)]

SendKeySequence(sv, sequence) ==
  LET at == IF sv.insertAt # Nowhere THEN sv.insertAt ELSE Len(sv.buffer)
  IN  [sv EXCEPT !.buffer = SubSeq(@, 1, at) \o sequence \o From(@, at + 1)]

ReleaseAllKeys(sv) ==
  LET keys == StagesOutputKeysDown(sv.stages)
  IN  [sv EXCEPT !.buffer = @ \o Map(keys, Release)]

\* Bug: the flush is not scheduled.
ScheduleFlushForgets(sv, delayed) == IF sv.flush THEN sv ELSE [sv EXCEPT !.delayed = delayed]

ScheduleFlush(sv, delayed) ==
  IF sv.flush THEN sv ELSE [sv EXCEPT !.flush = TRUE, !.delayed = delayed]

\* timeout is the request of a stage or the event of an input.
ScheduleTimeout(sv, timeout) == [sv EXCEPT !.timeout = timeout, !.elapsed = 0]
CancelTimeout(sv)            == [sv EXCEPT !.timeout = NoEvent]
TimeoutPending(sv)           == sv.timeout.key = "timeout"

InputTimeout(elapsed) == Timeout("Up", elapsed)

-----------------------------------------------------------------------------
(***************************************************************************)
(* Translating what comes from the server itself: virtual keys, which the  *)
(* client sets and a flush toggles, and timeouts. None of them is a key    *)
(* repeat, asked for, a wheel or the end of the exit sequence, so that     *)
(* translate_input ends the timeout and updates the stages, as it does for *)
(* the inputs it calls itself for. Should the stages be at the end of the  *)
(* exit sequence, it was just read and what is flushed before the reset    *)
(* toggles the key: flush_send_buffer does nothing then (m_sending_key).   *)
(***************************************************************************)

\* What reset_configuration does after the flush.
Restart(sv, stages) ==
  [sv EXCEPT !.stages = stages, !.clientContexts = << >>, !.virtualDown = {},
             !.flush = FALSE, !.delayed = FALSE, !.timeout = NoEvent]

Exit(sv) == [Restart(sv, << >>) EXCEPT !.exit = TRUE]

\* The output of the stages. Its first timeout is a request, whatever it was
\* meant for.
HandleOutput(sv, output) ==
  LET i == FirstOf({j \in DOMAIN output : output[j].key = "timeout"})
  IN  IF i = 0 THEN SendKeySequence(sv, output)
      ELSE SendKeySequence(ScheduleTimeout(sv, output[i]), RemoveAt(output, i))

\* The stages translated the event.
Translated(sv, event, updated) ==
  [sv EXCEPT !.stages = updated.stages,
             !.lastKey = IF event.key \in KeyboardKeys THEN event ELSE @]

OwnOutcome(sv, event, updated) ==
  IF StagesShouldExit(updated.stages) THEN Exit(ReleaseAllKeys(Translated(sv, event, updated)))
                                      ELSE HandleOutput(Translated(sv, event, updated), updated.output)

UpdateWithOwn(sv, event) ==
  OwnOutcome(sv, event, UpdateStages(sv.stages, event, AnyDevice, sv.elapsed))

\* An event ends the timeout, which is an input of its own.
Before(event) == [event |-> event, ends |-> TRUE]
Itself(event) == [event |-> event, ends |-> FALSE]

EndsTimeout(sv, event) ==
  TimeoutPending(sv) /\ (event.state = "Down" \/ CancelTimeoutOnUp(sv.timeout.state))

IsInput(sv, in)   == in.ends => EndsTimeout(sv, in.event)
InputFor(sv, in)  == IF in.ends THEN InputTimeout(sv.elapsed) ELSE in.event
WithoutEnded(sv, in) == IF in.ends THEN CancelTimeout(sv) ELSE sv

TranslateOwn(sv, event) ==
  FoldLeft(LAMBDA s, in : IF IsInput(s, in) THEN UpdateWithOwn(WithoutEnded(s, in), InputFor(s, in)) ELSE s,
           sv, <<Before(event), Itself(event)>>)

TellVirtualKey(sv, event) ==
  IF event.key \notin VirtualKeys THEN sv
  ELSE Tell(sv, [type |-> "virtual_key_state", key |-> event.key, state |-> event.state])

ChangeVirtualKey(sv, event) ==
  TellVirtualKey(
    TranslateOwn([sv EXCEPT !.virtualDown = IF event.state = "Down" THEN @ \cup {event.key}
                                                                    ELSE @ \ {event.key}],
                 event),
    event)

\* Not toggles.
SetVirtualKeyState(sv, key, state) ==
  LET changed == IF key \in sv.virtualDown THEN "Up" ELSE "Down"
  IN  IF state \in {changed, "Not"} THEN ChangeVirtualKey(sv, Event(key, changed)) ELSE sv

\* Bug: only what the client asked for is told.
ToggleVirtualKeySilently(sv, key) == [SetVirtualKeyState(sv, key, "Not") EXCEPT !.told = sv.told]

ToggleVirtualKey(sv, key) == SetVirtualKeyState(sv, key, "Not")

-----------------------------------------------------------------------------
(***************************************************************************)
(* Flushing the send buffer. It goes on to the next virtual key to toggle, *)
(* whose output is inserted behind it, and ends with the buffer, with a    *)
(* delay or with the first event that cannot be sent.                      *)
(***************************************************************************)
IsToggle(event)   == event.key \in VirtualKeys /\ event.state = "Down"
IsAction(event)   == event.key \in ActionKeys /\ event.state = "Down"
IsSendable(event) ==
  /\ event.key \notin VirtualKeys \cup ActionKeys \cup {"timeout"}
  /\ ~(event.key \in WheelKeys /\ event.state = "Down")

Stops(sv, event, toggled) ==
  \/ event.key = "timeout"
  \/ IsToggle(event) /\ toggled < MaxToggles
  \/ IsSendable(event) /\ ~sv.virtualDevice

PassOver(sv, events) ==
  [sv EXCEPT !.sent = @ \o Select(events, IsSendable),
             !.told = @ \o Map(Select(events, IsAction),
                               LAMBDA ev : [type |-> "triggered_action", key |-> ev.key])]

\* What is in the buffer from the next position on, 0 when the flush is over.
FlushUntil(f, stop) ==
  LET end == IF stop = 0 THEN Len(f.sv.buffer) ELSE stop - 1
      sv == PassOver(f.sv, SubSeq(f.sv.buffer, f.next, end))
      event == f.sv.buffer[stop]
  IN
  IF stop = 0 THEN [sv |-> [sv EXCEPT !.buffer = << >>], next |-> 0]
  ELSE IF event.key = "timeout"
  THEN [sv |-> [ScheduleFlush(sv, TRUE) EXCEPT !.buffer = From(@, stop + 1)], next |-> 0]
  ELSE IF IsToggle(event)
  THEN [sv |-> [ToggleVirtualKey([sv EXCEPT !.insertAt = stop], event.key) EXCEPT !.insertAt = Nowhere],
        next |-> stop + 1]
  ELSE [sv |-> [sv EXCEPT !.buffer = From(@, stop)], next |-> 0]

FlushOn(f, toggled) ==
  IF f.next = 0 THEN f
  ELSE FlushUntil(f, FirstOf({i \in f.next..Len(f.sv.buffer) : Stops(f.sv, f.sv.buffer[i], toggled)}))

FlushAll(sv) ==
  FoldLeft(FlushOn, [sv |-> sv, next |-> 1], [i \in 1..(MaxToggles + 1) |-> i - 1]).sv

\* Bug: the flush that was scheduled stays delayed.
FlushSendBufferStaysDelayed(sv) == FlushAll([sv EXCEPT !.flush = FALSE])

FlushSendBuffer(sv) == FlushAll([sv EXCEPT !.flush = FALSE, !.delayed = FALSE])
FlushUnlessScheduled(sv) == IF sv.flush THEN sv ELSE FlushSendBuffer(sv)

\* The stages become what an operation resulted in, its output is sent.
StagesBecome(sv, result) == SendKeySequence([sv EXCEPT !.stages = result.stages], result.output)

SetActiveContexts(sv, indices) ==
  FlushUnlessScheduled(StagesBecome([sv EXCEPT !.clientContexts = indices],
                                    StagesSetActiveContexts(sv.stages, indices, sv.elapsed)))

EvaluateFilters(sv) ==
  IF ~HasDeviceFilters(sv.stages) \/ sv.devices = << >> THEN sv
  ELSE SetActiveContexts([sv EXCEPT !.stages = StagesEvaluateDeviceFilters(@, sv.devices)],
                         sv.clientContexts)

\* reset_configuration, but for the device filters: no stages have none.
Reset(sv, stages) == Restart(FlushSendBuffer(ReleaseAllKeys(sv)), stages)

ResetConfiguration(sv, stages) == EvaluateFilters(Reset(sv, stages))

-----------------------------------------------------------------------------
(***************************************************************************)
(* Translating the input of the devices. The exit sequence resets the      *)
(* server, which flushes the send buffer first.                            *)
(***************************************************************************)

\* Bug: only keys of a keyboard are asked for.
IsAskedForKeyboard(sv, event) == sv.nextKeyRequested /\ event.key \in KeyboardKeys

\* The client asked for the keys that are pressed next.
IsAskedFor(sv, event) == sv.nextKeyRequested /\ event.key \in DeviceKeys \ {"ButtonLeft"}

CollectNextKey(sv, event) ==
  IF event.state = "Down" THEN
    [sv EXCEPT !.nextKeys = IF Contains(@, event.key) THEN @ ELSE Append(@, event.key)]
  ELSE IF sv.nextKeys = << >> THEN sv
  ELSE [Tell(sv, [type |-> "next_key_info", keys |-> sv.nextKeys])
         EXCEPT !.nextKeys = << >>, !.nextKeyRequested = FALSE]

\* Bug: the exit sequence leaves the keys down that are down.
OutcomeHolds(sv, event, updated) ==
  IF StagesShouldExit(updated.stages) THEN Exit(FlushSendBuffer(Translated(sv, event, updated)))
                                      ELSE HandleOutput(Translated(sv, event, updated), updated.output)

Outcome(sv, event, updated) ==
  IF StagesShouldExit(updated.stages)
  THEN Exit(FlushSendBuffer(ReleaseAllKeys(Translated(sv, event, updated))))
  ELSE HandleOutput(Translated(sv, event, updated), updated.output)

UpdateServer(sv, event, device) ==
  Outcome(sv, event, UpdateStages(sv.stages, event, device, sv.elapsed))

\* A wheel has no Down of its own, one precedes the Up.
InputsFor(event) ==
  IF event.key \in WheelKeys /\ event.state = "Up"
  THEN <<Before(event), Before(Press(event.key)), Itself(Press(event.key)), Itself(event)>>
  ELSE <<Before(event), Itself(event)>>

TranslateInput(sv, event, device) ==
  \* key repeat while a flush or a timeout is pending
  IF SameEvent(event, sv.lastKey) /\ (sv.flush \/ TimeoutPending(sv)) THEN sv
  ELSE IF IsAskedFor(sv, event) THEN CollectNextKey(sv, event)
  ELSE FoldLeft(LAMBDA s, in : IF IsInput(s, in)
                               THEN UpdateServer(WithoutEnded(s, in), InputFor(s, in), device) ELSE s,
                sv, InputsFor(event))

-----------------------------------------------------------------------------
(* The messages of the client and the steps of the main loop. *)

OnConfiguration(sv, stages) == ResetConfiguration(sv, stages)

OnDirectives(sv, disableToggle) ==
  IF disableToggle
  THEN [sv EXCEPT !.stages = Map(sv.stages, LAMBDA st : [st EXCEPT !.toggle = FALSE])]
  ELSE sv

OnActiveContexts(sv, indices) == SetActiveContexts(sv, indices)

OnSetVirtualKeyState(sv, key, state) ==
  FlushUnlessScheduled(SetVirtualKeyState(sv, key, state))

OnValidateState(sv, down) == [sv EXCEPT !.stages = StagesValidateState(@, down, sv.elapsed)]

OnRequestNextKeyInfo(sv) == [ReleaseAllKeys(sv) EXCEPT !.nextKeyRequested = TRUE]

OnInjectInput(sv, sequence) ==
  ScheduleFlush(FoldLeft(
    LAMBDA s, ev : TranslateInput(s, ev, NoDevice), sv,
    Select(sequence, LAMBDA ev : ev.state \in {"Up", "Down"} /\ ev.key \in DeviceKeys)), FALSE)

OnInjectOutput(sv, sequence) == ScheduleFlush(SendKeySequence(sv, sequence), FALSE)

SetDeviceDescs(sv, devices) == EvaluateFilters([sv EXCEPT !.devices = devices])

\* The timeout passed: main_loop injects it.
ExpireTimeout(sv) ==
  UpdateWithOwn(CancelTimeout(sv), InputTimeout(sv.timeout.value))

\* The step is over and what it sent and told was taken.
Delivered(sv) == [sv EXCEPT !.sent = << >>, !.told = << >>, !.elapsed = 0]

=============================================================================
