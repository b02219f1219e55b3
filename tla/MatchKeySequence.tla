-------------------------- MODULE MatchKeySequence --------------------------
(***************************************************************************)
(* How an input expression of a mapping is matched against the sequence of *)
(* events received so far (src/src/runtime/MatchKeySequence.cpp).          *)
(*                                                                         *)
(* The loop walks the expression (position e) and the sequence (position   *)
(* s) together and carries the events that may come at any time (async),   *)
(* the keys that must not be down, the keys unified with Any and, for a    *)
(* no-might-match mapping, what it skipped of the history. It ends with a  *)
(* result, and the timeout that has to be requested before the expression  *)
(* can match.                                                              *)
(***************************************************************************)
EXTENDS KeyEvents, SequencesExt

UnifiableStates(a, b) ==
  LET unmatched(state) == CASE state = "DownMatched" -> "Down"
                            [] state = "UpMatched" -> "Up"
                            [] OTHER -> state
  IN  unmatched(a) = unmatched(b)

\* Any stands for every key of a keyboard and never for a timeout.
UnifiableKeys(a, b) ==
  /\ a # "none" /\ b # "none"
  /\ \/ a = b
     \/ a = "any" /\ b \in KeyboardKeys
     \/ b = "any" /\ a \in KeyboardKeys

\* Bug: a timeout matches however long it was.
UnifiableTimeoutsAnyhow(se, ee) == se.state # "HistoryTiming"

\* Bug: a timeout that was just long enough does not match.
UnifiableTimeoutsLonger(se, ee) ==
  /\ se.state # "HistoryTiming"
  /\ (se.value > ee.value) #
       (IsNotTimeoutState(se.state) \/ IsNotTimeoutState(ee.state))

\* se is the event of the sequence, ee the one of the expression.
UnifiableTimeouts(se, ee) ==
  /\ se.state # "HistoryTiming"
  /\ (se.value >= ee.value) #
       (IsNotTimeoutState(se.state) \/ IsNotTimeoutState(ee.state))

Unifiable(a, b) ==
  /\ ~(a.key = "any" /\ b.state = "DownMatched")
  /\ ~(b.key = "any" /\ a.state = "DownMatched")
  /\ UnifiableKeys(a.key, b.key)
  /\ IF a.key = "timeout" THEN UnifiableTimeouts(a, b)
                          ELSE UnifiableStates(a.state, b.state)

-----------------------------------------------------------------------------
\* An event of the expression or the sequence, NoEvent behind its end.
EventAt(seq, i) == IF i <= Len(seq) THEN seq[i] ELSE NoEvent

NextE(m)    == [m EXCEPT !.e = @ + 1]
NextS(m)    == [m EXCEPT !.s = @ + 1]
NextBoth(m) == NextE(NextS(m))

NotMatched(m)          == [m EXCEPT !.result = "no_match"]
MightMatch(m, timeout) == [m EXCEPT !.result = "might_match", !.timeout = timeout]

\* The async event of the expression that accounts for se, or 0.
AsyncForInput(m, se) ==
  FirstOf({i \in DOMAIN m.async :
    /\ m.async[i].state = IF se.state = "Up" THEN "UpAsync" ELSE "DownAsync"
    /\ UnifiableKeys(se.key, m.async[i].key)})

\* The async event that already matched and accounts for ee, or 0.
AsyncForExpression(m, ee) == FirstOf({i \in DOMAIN m.async : Unifiable(ee, m.async[i])})

\* Async Up immediately followed by the first async Down: a release in between.
ReleasedAndPressed(m, key) ==
  \E i \in 2..Len(m.async) :
    /\ SameEvent(m.async[i - 1], Event(key, "UpAsync"))
    /\ SameEvent(m.async[i], Event(key, "DownAsync"))
    /\ \A j \in 1..(i - 1) : ~SameEvent(m.async[j], Event(key, "DownAsync"))

\* A key that is pressed later in the expression may be down again.
Allowed(m, ee) == [m EXCEPT !.notKeys = IF ee.state = "Down" THEN @ \ {ee.key} ELSE @]

\* A round of the loop, with the events se of the sequence and ee of the
\* expression.
Compare(expression, sequence, matchedAreOptional, se, ee, m) ==
  IF m.e > Len(expression) /\ m.s > Len(sequence) THEN [m EXCEPT !.result = "match"]
  ELSE IF IsDown(se) /\ se.key \in m.notKeys THEN NotMatched(m)
  ELSE IF ee.state \in {"DownAsync", "UpAsync"} THEN NextE([m EXCEPT !.async = Append(@, ee)])
  ELSE IF ee.state = "Not" /\ ee.key # "timeout" THEN
    NextE([m EXCEPT !.notKeys = @ \cup {ee.key}])
  ELSE IF ee = Release("any") /\ se.key # "none" /\ se.state = "Up" THEN
    IF Contains(m.any, se.key) THEN NextBoth(m) ELSE NotMatched(m)
  ELSE IF Unifiable(se, ee) THEN
    NextBoth([m EXCEPT
      !.any   = IF ee.key = "any" /\ se.state = "Down" THEN Append(@, se.key) ELSE @,
      !.async = Select(@, LAMBDA a : a.key # se.key)])
  ELSE IF ee.key = "timeout" /\ se = NoEvent THEN MightMatch(m, ee)
  ELSE IF ee.state = "NoMightMatch" THEN NextE([m EXCEPT !.noMight = TRUE])
  ELSE IF m.noMight /\ ee = NoEvent THEN NotMatched(m)
  ELSE IF AsyncForInput(m, se) # 0 THEN
    NextS([m EXCEPT !.async[AsyncForInput(m, se)].state = se.state])
  ELSE IF /\ se.state \in {"DownMatched", "UpMatched"}
          /\ \/ matchedAreOptional
             \/ se.key \notin DeviceKeys
             \/ m.e = 1 /\ ee.key = "any" THEN NextS(m)
  ELSE IF AsyncForExpression(m, ee) # 0 THEN
    NextE([m EXCEPT !.async = RemoveAt(@, AsyncForExpression(m, ee))])
  ELSE IF ee.state = "Down" /\ ReleasedAndPressed(m, ee.key) THEN NextE(m)
  ELSE IF /\ se.key = "timeout" /\ ee.key # "timeout"
          /\ \E i \in 1..(m.s - 1) : sequence[i].state = "Down" THEN NextS(m)
  ELSE IF se.state = "HistoryTiming" THEN
    NextS([m EXCEPT !.elapsed = Timeout("Up", SumTimeouts(@.value, se.value))])
  ELSE IF ee.key = "timeout" /\ Unifiable(m.elapsed, ee) THEN
    NextE([m EXCEPT !.elapsed = NoEvent])
  ELSE IF m.noMight /\ m.e = 2 THEN
    IF se = NoEvent THEN NotMatched(m)
    ELSE NextS([m EXCEPT !.ignoreUps = IF se.state = "Down" THEN @ \cup {se.key} ELSE @])
  ELSE IF m.noMight /\ se.state = "Up" /\ se.key \in m.ignoreUps THEN NextS(m)
  ELSE IF m.s > Len(sequence) THEN MightMatch(m, NoEvent)
  ELSE NotMatched(m)

MatchRound(expression, sequence, matchedAreOptional, m) ==
  IF m.result # "none" THEN m
  ELSE Compare(expression, sequence, matchedAreOptional, EventAt(sequence, m.s),
               EventAt(expression, m.e), Allowed(m, EventAt(expression, m.e)))

\* Before the first round.
StartMatching ==
  [ e |-> 1, s |-> 1, async |-> << >>, notKeys |-> {}, ignoreUps |-> {}, elapsed |-> NoEvent,
    noMight |-> FALSE, result |-> "none", any |-> << >>, timeout |-> NoEvent ]

\* The whole of MatchKeySequence::operator(). Each round but the last moves on
\* in the expression or in the sequence.
MatchSequence(expression, sequence, matchedAreOptional) ==
  LET last == Len(expression) + Len(sequence) + 1
      after[round \in 0..last] ==
        IF round = 0 THEN StartMatching
        ELSE MatchRound(expression, sequence, matchedAreOptional, after[round - 1])
  IN  after[last]

=============================================================================
