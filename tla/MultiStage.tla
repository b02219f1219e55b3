----------------------------- MODULE MultiStage -----------------------------
(***************************************************************************)
(* The stages of a configuration in a row (src/src/runtime/MultiStage.cpp):*)
(* the output of each is the input of the next. What only the server can   *)
(* carry out - timeout requests, virtual keys, actions - passes by the     *)
(* later stages, while timeouts and virtual keys of the input are told to  *)
(* all of them.                                                            *)
(***************************************************************************)
EXTENDS Stage

IsServerEvent(event) == event.key \in VirtualKeys \cup ActionKeys \cup {"timeout"}

StagesAreClear(stages) == \A i \in DOMAIN stages : IsClear(stages[i])

\* What the last stage holds down is what the system sees.
StagesOutputKeysDown(stages) ==
  IF stages = << >> THEN << >> ELSE OutputKeysDown(stages[Len(stages)])

StagesShouldExit(stages) == stages # << >> /\ ShouldExit(stages[1])

HasDeviceFilters(stages) ==
  \E i \in DOMAIN stages : \E c \in DOMAIN Contexts[stages[i].stage] :
    HasDeviceFilter(Context(stages[i], c))

\* The i-th stage did something, result is its [st, output].
Did(acc, i, result) ==
  [acc EXCEPT !.stages[i] = result.st, !.output = @ \o result.output]

\* What the i-th stage is updated with (own), and what passes it by.
InputOf(i, event) == [event |-> event, own |-> i = 1 \/ ~IsServerEvent(event)]

\* Bug: only the first stage is told of virtual keys and timeouts.
ToldFirstOnly(i, event) == << >>

\* The later stages are told of virtual keys and timeouts of the input.
Told(i, event) ==
  IF i > 1 /\ event.key \in VirtualKeys \cup {"timeout"}
  THEN <<[event |-> event, own |-> TRUE]>> ELSE << >>

FeedStage(acc, i, inputs) ==
  FoldLeft(LAMBDA a, in : IF in.own THEN Did(a, i, Update(a.stages[i], in.event, a.device, a.elapsed))
                                    ELSE [a EXCEPT !.output = Append(@, in.event)],
           [acc EXCEPT !.output = << >>], inputs)

\* The output of the previous stage becomes the input of the i-th. What goes
\* through the stages is the event they are all updated with.
FeedOutput(acc, i) ==
  FeedStage(acc, i, Told(i, acc.event) \o Map(acc.output, LAMBDA ev : InputOf(i, ev)))

Through(stages, event, output, device, elapsed) ==
  [stages |-> stages, event |-> event, output |-> output, device |-> device, elapsed |-> elapsed]

UpdateStages(stages, event, device, elapsed) ==
  FoldLeft(FeedOutput, Through(stages, event, <<event>>, device, elapsed), [i \in DOMAIN stages |-> i])

\* The client counts the contexts of all stages through.
OwnContexts(stages, i, indices) ==
  LET upTo[j \in 0..Len(stages)] ==
        IF j = 0 THEN 0 ELSE upTo[j - 1] + Len(Contexts[stages[j].stage])
      own == Select(indices, LAMBDA index : index > upTo[i - 1] /\ index <= upTo[i])
  IN  Map(own, LAMBDA index : index - upTo[i - 1])

ActivateStage(acc, i, indices) ==
  Did(acc, i, SetActiveClientContexts(acc.stages[i], OwnContexts(acc.stages, i, indices)))

StagesSetActiveContexts(stages, indices, elapsed) ==
  FoldLeft(LAMBDA acc, i : ActivateStage(FeedOutput(acc, i), i, indices),
           Through(stages, NoEvent, << >>, NoDevice, elapsed), [i \in DOMAIN stages |-> i])

StagesEvaluateDeviceFilters(stages, devices) ==
  Map(stages, LAMBDA st : EvaluateDeviceFilters(st, devices))

\* Only the first stage sees the keys of the devices.
StagesValidateState(stages, down, elapsed) ==
  IF stages = << >> THEN << >> ELSE [stages EXCEPT ![1] = ValidateState(@, down, elapsed)]

=============================================================================
