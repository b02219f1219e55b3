------------------------- MODULE ServerLoop_proofs -------------------------
(***************************************************************************)
(* Theorems about the server for every configuration the parser may make   *)
(* (ContextsAreParsed), every client that keeps to it                      *)
(* (ClientSendsWhatFits), any keys and any devices.                        *)
(***************************************************************************)
EXTENDS ServerProperties, KeyEvents_proofs, TLAPS

-----------------------------------------------------------------------------
(***************************************************************************)
(* The type of a stage. The sequence only has what may be matched: keys    *)
(* and timeouts, no actions. The timeout remembers where the output that   *)
(* matched is defined, and what is output on release is an expression.     *)
(***************************************************************************)
SeqKeys == DeviceKeys \cup VirtualKeys \cup {"timeout"}
SeqEvents == EventsOf(SeqKeys)
OutEvents == EventsOf(OutputKeys)

Outputs == [key : OutputKeys, trigger : AllKeys, suppressed : BOOLEAN, released : BOOLEAN,
            twice : BOOLEAN, ctx : Int]
Continuations == [trigger : AllKeys, rest : OutputExpressions, ctx : Int]

\* Where an output is defined: an output of a context or one of its commands.
References(n) ==
  {ref \in (DOMAIN Contexts[n]) \X Int :
     IF ref[2] >= 0 THEN ref[2] + 1 \in DOMAIN Contexts[n][ref[1]].outputs
                    ELSE ref[2] \in DOMAIN Contexts[n][ref[1]].commands}

Timeouts(n) == [event : EventsOf(AllKeys), trigger : AllKeys, matched : References(n) \cup {<< >>},
                notExceeded : BOOLEAN, virtualKeysChanged : BOOLEAN]

(***************************************************************************)
(* A stage knows a virtual key to be down from its sequence: the last      *)
(* event of the key is no release. What waits for the release of a virtual *)
(* key waits for one that is down. V is what a stage knows, down and held  *)
(* are the same between two inputs (Both).                                 *)
(***************************************************************************)
VirtualStates == {"Up", "Down", "DownMatched"}
HeldAt(seq, i, key) ==
  /\ seq[i].key = key /\ seq[i].state # "Up"
  /\ \A j \in DOMAIN seq : j > i => seq[j].key # key
Holds(seq, key) == \E i \in DOMAIN seq : HeldAt(seq, i, key)
Knows(seq, down) ==
  /\ \A i \in DOMAIN seq : seq[i].key \in VirtualKeys => seq[i].state \in VirtualStates
  /\ \A key \in VirtualKeys : key \in down <=> Holds(seq, key)

ContinuationsOf(held) == {o \in Continuations : o.trigger \in VirtualKeys => o.trigger \in held}
Both(down) == [down |-> down, held |-> down]

StageOf(n, V) ==
  { st \in [ stage : {n}, toggle : BOOLEAN, seq : Seq(SeqEvents), might : BOOLEAN, out : Seq(Outputs),
             onRelease : Seq(ContinuationsOf(V.held)), timeout : Timeouts(n), history : Seq(SeqEvents),
             lastPressed : Int, lastRepeat : Int, clientActive : Seq(DOMAIN Contexts[n]),
             active : Seq(DOMAIN Contexts[n]), buf : Seq(OutEvents), reapplied : BOOLEAN,
             anyKeys : Seq(KeyboardKeys), exitPos : 0..3, devices : {<< >>, DeviceNames} ] :
    Knows(st.seq, V.down) }

LEMMA EventIs ==
  ASSUME NEW keys, NEW key \in keys, NEW state \in KeyStates
  PROVE  Event(key, state) \in EventsOf(keys)
BY DEF Event, EventsOf, MaxTimeout

LEMMA PressIs ==
  ASSUME NEW keys, NEW key \in keys
  PROVE  Press(key) \in EventsOf(keys) /\ Release(key) \in EventsOf(keys)
BY EventIs DEF Press, Release, KeyStates

LEMMA StageFields ==
  ASSUME NEW n, NEW V, NEW st \in StageOf(n, V)
  PROVE  /\ st.stage = n /\ st.toggle \in BOOLEAN /\ st.seq \in Seq(SeqEvents) /\ st.might \in BOOLEAN
         /\ st.out \in Seq(Outputs) /\ st.onRelease \in Seq(ContinuationsOf(V.held)) /\ st.timeout \in Timeouts(n)
         /\ st.history \in Seq(SeqEvents) /\ st.lastPressed \in Int /\ st.lastRepeat \in Int
         /\ st.clientActive \in Seq(DOMAIN Contexts[n]) /\ st.active \in Seq(DOMAIN Contexts[n])
         /\ st.buf \in Seq(OutEvents) /\ st.reapplied \in BOOLEAN /\ st.anyKeys \in Seq(KeyboardKeys)
         /\ st.exitPos \in 0..3 /\ st.devices \in {<< >>, DeviceNames}
         /\ Knows(st.seq, V.down)
BY DEF StageOf

(* What output leaves as it is: the sequence and whether it might match. *)
Keeps(n, V, st) == {s \in StageOf(n, V) : s.seq = st.seq /\ s.might = st.might}

LEMMA KeepsIs ==
  ASSUME NEW n, NEW V, NEW st \in StageOf(n, V), NEW s \in Keeps(n, V, st)
  PROVE  s \in StageOf(n, V) /\ s.seq = st.seq /\ s.might = st.might /\ Keeps(n, V, s) = Keeps(n, V, st)
BY DEF Keeps

LEMMA KeepsSelf ==
  ASSUME NEW n, NEW V, NEW st \in StageOf(n, V)
  PROVE  st \in Keeps(n, V, st)
BY DEF Keeps

(* A stage stays one when one of its fields changes, the others are as before. *)

LEMMA SetSeq ==
  ASSUME NEW n, NEW V, NEW st \in StageOf(n, V), NEW x \in Seq(SeqEvents), Knows(x, V.down)
  PROVE  /\ [st EXCEPT !.seq = x] \in StageOf(n, V)
         /\ [st EXCEPT !.seq = x].seq = x /\ [st EXCEPT !.seq = x].out = st.out
         /\ [st EXCEPT !.seq = x].buf = st.buf /\ [st EXCEPT !.seq = x].timeout = st.timeout
         /\ [st EXCEPT !.seq = x].onRelease = st.onRelease /\ [st EXCEPT !.seq = x].active = st.active
         /\ [st EXCEPT !.seq = x].history = st.history /\ [st EXCEPT !.seq = x].reapplied = st.reapplied
         /\ [st EXCEPT !.seq = x].might = st.might
BY DEF StageOf, Keeps

LEMMA SetMight ==
  ASSUME NEW n, NEW V, NEW st \in StageOf(n, V), NEW x \in BOOLEAN
  PROVE  /\ [st EXCEPT !.might = x] \in StageOf(n, V)
         /\ [st EXCEPT !.might = x].might = x /\ [st EXCEPT !.might = x].out = st.out
         /\ [st EXCEPT !.might = x].buf = st.buf /\ [st EXCEPT !.might = x].timeout = st.timeout
         /\ [st EXCEPT !.might = x].onRelease = st.onRelease /\ [st EXCEPT !.might = x].active = st.active
         /\ [st EXCEPT !.might = x].history = st.history /\ [st EXCEPT !.might = x].reapplied = st.reapplied
         /\ [st EXCEPT !.might = x].seq = st.seq
BY DEF StageOf, Keeps

LEMMA SetOut ==
  ASSUME NEW n, NEW V, NEW st \in StageOf(n, V), NEW x \in Seq(Outputs)
  PROVE  /\ [st EXCEPT !.out = x] \in StageOf(n, V)
         /\ [st EXCEPT !.out = x] \in Keeps(n, V, st)
         /\ [st EXCEPT !.out = x].out = x /\ [st EXCEPT !.out = x].buf = st.buf
         /\ [st EXCEPT !.out = x].timeout = st.timeout /\ [st EXCEPT !.out = x].onRelease = st.onRelease
         /\ [st EXCEPT !.out = x].active = st.active /\ [st EXCEPT !.out = x].history = st.history
         /\ [st EXCEPT !.out = x].reapplied = st.reapplied
BY DEF StageOf, Keeps

LEMMA SetOnRelease ==
  ASSUME NEW n, NEW V, NEW st \in StageOf(n, V), NEW x \in Seq(ContinuationsOf(V.held))
  PROVE  /\ [st EXCEPT !.onRelease = x] \in StageOf(n, V)
         /\ [st EXCEPT !.onRelease = x] \in Keeps(n, V, st)
         /\ [st EXCEPT !.onRelease = x].onRelease = x /\ [st EXCEPT !.onRelease = x].out = st.out
         /\ [st EXCEPT !.onRelease = x].buf = st.buf /\ [st EXCEPT !.onRelease = x].timeout = st.timeout
         /\ [st EXCEPT !.onRelease = x].active = st.active /\ [st EXCEPT !.onRelease = x].history = st.history
         /\ [st EXCEPT !.onRelease = x].reapplied = st.reapplied
BY DEF StageOf, Keeps

LEMMA SetTimeout ==
  ASSUME NEW n, NEW V, NEW st \in StageOf(n, V), NEW x \in Timeouts(n)
  PROVE  /\ [st EXCEPT !.timeout = x] \in StageOf(n, V)
         /\ [st EXCEPT !.timeout = x] \in Keeps(n, V, st)
         /\ [st EXCEPT !.timeout = x].timeout = x /\ [st EXCEPT !.timeout = x].out = st.out
         /\ [st EXCEPT !.timeout = x].buf = st.buf /\ [st EXCEPT !.timeout = x].onRelease = st.onRelease
         /\ [st EXCEPT !.timeout = x].active = st.active /\ [st EXCEPT !.timeout = x].history = st.history
         /\ [st EXCEPT !.timeout = x].reapplied = st.reapplied
BY DEF StageOf, Keeps

LEMMA SetHistory ==
  ASSUME NEW n, NEW V, NEW st \in StageOf(n, V), NEW x \in Seq(SeqEvents)
  PROVE  /\ [st EXCEPT !.history = x] \in StageOf(n, V)
         /\ [st EXCEPT !.history = x] \in Keeps(n, V, st)
         /\ [st EXCEPT !.history = x].history = x /\ [st EXCEPT !.history = x].out = st.out
         /\ [st EXCEPT !.history = x].buf = st.buf /\ [st EXCEPT !.history = x].timeout = st.timeout
         /\ [st EXCEPT !.history = x].onRelease = st.onRelease /\ [st EXCEPT !.history = x].active = st.active
         /\ [st EXCEPT !.history = x].reapplied = st.reapplied
BY DEF StageOf, Keeps

LEMMA SetLastPressed ==
  ASSUME NEW n, NEW V, NEW st \in StageOf(n, V), NEW x \in Int
  PROVE  /\ [st EXCEPT !.lastPressed = x] \in StageOf(n, V)
         /\ [st EXCEPT !.lastPressed = x] \in Keeps(n, V, st)
         /\ [st EXCEPT !.lastPressed = x].out = st.out /\ [st EXCEPT !.lastPressed = x].buf = st.buf
         /\ [st EXCEPT !.lastPressed = x].timeout = st.timeout /\ [st EXCEPT !.lastPressed = x].onRelease = st.onRelease
         /\ [st EXCEPT !.lastPressed = x].active = st.active /\ [st EXCEPT !.lastPressed = x].history = st.history
         /\ [st EXCEPT !.lastPressed = x].reapplied = st.reapplied
BY DEF StageOf, Keeps

LEMMA SetLastRepeat ==
  ASSUME NEW n, NEW V, NEW st \in StageOf(n, V), NEW x \in Int
  PROVE  /\ [st EXCEPT !.lastRepeat = x] \in StageOf(n, V)
         /\ [st EXCEPT !.lastRepeat = x] \in Keeps(n, V, st)
         /\ [st EXCEPT !.lastRepeat = x].out = st.out /\ [st EXCEPT !.lastRepeat = x].buf = st.buf
         /\ [st EXCEPT !.lastRepeat = x].timeout = st.timeout /\ [st EXCEPT !.lastRepeat = x].onRelease = st.onRelease
         /\ [st EXCEPT !.lastRepeat = x].active = st.active /\ [st EXCEPT !.lastRepeat = x].history = st.history
         /\ [st EXCEPT !.lastRepeat = x].reapplied = st.reapplied
BY DEF StageOf, Keeps

LEMMA SetClientActive ==
  ASSUME NEW n, NEW V, NEW st \in StageOf(n, V), NEW x \in Seq(DOMAIN Contexts[n])
  PROVE  /\ [st EXCEPT !.clientActive = x] \in StageOf(n, V)
         /\ [st EXCEPT !.clientActive = x] \in Keeps(n, V, st)
         /\ [st EXCEPT !.clientActive = x].out = st.out /\ [st EXCEPT !.clientActive = x].buf = st.buf
         /\ [st EXCEPT !.clientActive = x].timeout = st.timeout /\ [st EXCEPT !.clientActive = x].onRelease = st.onRelease
         /\ [st EXCEPT !.clientActive = x].active = st.active /\ [st EXCEPT !.clientActive = x].history = st.history
         /\ [st EXCEPT !.clientActive = x].reapplied = st.reapplied
BY DEF StageOf, Keeps

LEMMA SetActive ==
  ASSUME NEW n, NEW V, NEW st \in StageOf(n, V), NEW x \in Seq(DOMAIN Contexts[n])
  PROVE  /\ [st EXCEPT !.active = x] \in StageOf(n, V)
         /\ [st EXCEPT !.active = x] \in Keeps(n, V, st)
         /\ [st EXCEPT !.active = x].active = x /\ [st EXCEPT !.active = x].out = st.out
         /\ [st EXCEPT !.active = x].buf = st.buf /\ [st EXCEPT !.active = x].timeout = st.timeout
         /\ [st EXCEPT !.active = x].onRelease = st.onRelease /\ [st EXCEPT !.active = x].history = st.history
         /\ [st EXCEPT !.active = x].reapplied = st.reapplied
BY DEF StageOf, Keeps

LEMMA SetBuf ==
  ASSUME NEW n, NEW V, NEW st \in StageOf(n, V), NEW x \in Seq(OutEvents)
  PROVE  /\ [st EXCEPT !.buf = x] \in StageOf(n, V)
         /\ [st EXCEPT !.buf = x] \in Keeps(n, V, st)
         /\ [st EXCEPT !.buf = x].buf = x /\ [st EXCEPT !.buf = x].out = st.out
         /\ [st EXCEPT !.buf = x].timeout = st.timeout /\ [st EXCEPT !.buf = x].onRelease = st.onRelease
         /\ [st EXCEPT !.buf = x].active = st.active /\ [st EXCEPT !.buf = x].history = st.history
         /\ [st EXCEPT !.buf = x].reapplied = st.reapplied
BY DEF StageOf, Keeps

LEMMA SetReapplied ==
  ASSUME NEW n, NEW V, NEW st \in StageOf(n, V), NEW x \in BOOLEAN
  PROVE  /\ [st EXCEPT !.reapplied = x] \in StageOf(n, V)
         /\ [st EXCEPT !.reapplied = x] \in Keeps(n, V, st)
         /\ [st EXCEPT !.reapplied = x].reapplied = x /\ [st EXCEPT !.reapplied = x].out = st.out
         /\ [st EXCEPT !.reapplied = x].buf = st.buf /\ [st EXCEPT !.reapplied = x].timeout = st.timeout
         /\ [st EXCEPT !.reapplied = x].onRelease = st.onRelease /\ [st EXCEPT !.reapplied = x].active = st.active
         /\ [st EXCEPT !.reapplied = x].history = st.history
BY DEF StageOf, Keeps

LEMMA SetAnyKeys ==
  ASSUME NEW n, NEW V, NEW st \in StageOf(n, V), NEW x \in Seq(KeyboardKeys)
  PROVE  /\ [st EXCEPT !.anyKeys = x] \in StageOf(n, V)
         /\ [st EXCEPT !.anyKeys = x] \in Keeps(n, V, st)
         /\ [st EXCEPT !.anyKeys = x].out = st.out /\ [st EXCEPT !.anyKeys = x].buf = st.buf
         /\ [st EXCEPT !.anyKeys = x].timeout = st.timeout /\ [st EXCEPT !.anyKeys = x].onRelease = st.onRelease
         /\ [st EXCEPT !.anyKeys = x].active = st.active /\ [st EXCEPT !.anyKeys = x].history = st.history
         /\ [st EXCEPT !.anyKeys = x].reapplied = st.reapplied
BY DEF StageOf, Keeps

LEMMA SetExitPos ==
  ASSUME NEW n, NEW V, NEW st \in StageOf(n, V), NEW x \in 0..3
  PROVE  /\ [st EXCEPT !.exitPos = x] \in StageOf(n, V)
         /\ [st EXCEPT !.exitPos = x] \in Keeps(n, V, st)
         /\ [st EXCEPT !.exitPos = x].out = st.out /\ [st EXCEPT !.exitPos = x].buf = st.buf
         /\ [st EXCEPT !.exitPos = x].timeout = st.timeout /\ [st EXCEPT !.exitPos = x].onRelease = st.onRelease
         /\ [st EXCEPT !.exitPos = x].active = st.active /\ [st EXCEPT !.exitPos = x].history = st.history
         /\ [st EXCEPT !.exitPos = x].reapplied = st.reapplied
BY DEF StageOf, Keeps

LEMMA SetDevices ==
  ASSUME NEW n, NEW V, NEW st \in StageOf(n, V), NEW x \in {<< >>, DeviceNames}
  PROVE  /\ [st EXCEPT !.devices = x] \in StageOf(n, V)
         /\ [st EXCEPT !.devices = x] \in Keeps(n, V, st)
         /\ [st EXCEPT !.devices = x].out = st.out /\ [st EXCEPT !.devices = x].buf = st.buf
         /\ [st EXCEPT !.devices = x].timeout = st.timeout /\ [st EXCEPT !.devices = x].onRelease = st.onRelease
         /\ [st EXCEPT !.devices = x].active = st.active /\ [st EXCEPT !.devices = x].history = st.history
         /\ [st EXCEPT !.devices = x].reapplied = st.reapplied
BY DEF StageOf, Keeps

LEMMA SetToggle ==
  ASSUME NEW n, NEW V, NEW st \in StageOf(n, V), NEW x \in BOOLEAN
  PROVE  /\ [st EXCEPT !.toggle = x] \in StageOf(n, V)
         /\ [st EXCEPT !.toggle = x] \in Keeps(n, V, st)
         /\ [st EXCEPT !.toggle = x].out = st.out /\ [st EXCEPT !.toggle = x].buf = st.buf
         /\ [st EXCEPT !.toggle = x].timeout = st.timeout /\ [st EXCEPT !.toggle = x].onRelease = st.onRelease
         /\ [st EXCEPT !.toggle = x].active = st.active /\ [st EXCEPT !.toggle = x].history = st.history
         /\ [st EXCEPT !.toggle = x].reapplied = st.reapplied
BY DEF StageOf, Keeps

-----------------------------------------------------------------------------
\* The elements at some positions of a sequence.
LEMMA ElementsAtIs ==
  ASSUME NEW X, NEW seq \in Seq(X), NEW positions, NEW Y,
         \A i \in DOMAIN seq : i \in positions => seq[i] \in Y
  PROVE  ElementsAt(seq, positions) \in Seq(Y) /\ Len(ElementsAt(seq, positions)) <= Len(seq)
<1> DEFINE n == Len(seq)
           G == [i \in 1..n |-> [x \in Seq(Y) |-> IF i \in positions THEN Append(x, seq[i]) ELSE x]]
           Is(f) == f = [k \in 0..n |-> IF k = 0 THEN << >>
                           ELSE IF k \in positions THEN Append(f[k - 1], seq[k]) ELSE f[k - 1]]
<1>1. n \in Nat /\ DOMAIN seq = 1..n
  OBVIOUS
<1>2. \A i \in 1..n : \A x \in Seq(Y) :
        /\ G[i][x] = (IF i \in positions THEN Append(x, seq[i]) ELSE x)
        /\ G[i][x] \in Seq(Y)
  <2>1. ASSUME NEW i \in 1..n, NEW x \in Seq(Y)
        PROVE  /\ G[i][x] = (IF i \in positions THEN Append(x, seq[i]) ELSE x)
               /\ (IF i \in positions THEN Append(x, seq[i]) ELSE x) \in Seq(Y)
    BY <1>1
  <2> QED BY <2>1
<1>3. ElementsAt(seq, positions) = (CHOOSE f : Is(f))[n]
  BY DEF ElementsAt
<1> HIDE DEF G
<1>4. \E f : Is(f)
  <2>0. << >> \in Seq(Y) /\ \A i \in 1..n : \A x \in Seq(Y) : G[i][x] \in Seq(Y)
    BY <1>2
  <2>1. PICK f : RoundsIn(f, n, Seq(Y), << >>, G)
    BY <1>1, <2>0, RoundsExist
  <2>2. \A k \in 0..n : k # 0 => k \in 1..n /\ k - 1 \in 0..n
    BY <1>1
  <2>3. Is(f)
    BY <1>2, <2>1, <2>2 DEF RoundsIn
  <2> QED BY <2>3
<1>5. ASSUME NEW f, Is(f) PROVE f[n] \in Seq(Y) /\ Len(f[n]) <= n
  <2> DEFINE T == [k \in 0..n |-> {x \in Seq(Y) : Len(x) <= k}]
  <2>0. 0 \in 0..n /\ \A k \in 1..n : k \in 0..n /\ k # 0
    BY <1>1
  <2>1. /\ f[0] = << >>
        /\ \A k \in 1..n : f[k] = IF k \in positions THEN Append(f[k - 1], seq[k]) ELSE f[k - 1]
    BY <1>5, <2>0
  <2>2. \A k \in 0..n : T[k] = {x \in Seq(Y) : Len(x) <= k}
    OBVIOUS
  <2>3. ASSUME NEW k \in 1..n, f[k - 1] \in T[k - 1] PROVE f[k] \in T[k]
    <3>1. k - 1 \in 0..n /\ k \in 0..n
      BY <1>1
    <3>2. f[k - 1] \in Seq(Y) /\ Len(f[k - 1]) <= k - 1
      BY <2>2, <2>3, <3>1
    <3>3. k \in positions => Append(f[k - 1], seq[k]) \in Seq(Y) /\ Len(Append(f[k - 1], seq[k])) <= k
      BY <1>1, <3>2
    <3>4. f[k] \in Seq(Y) /\ Len(f[k]) <= k
      <4>1. CASE k \in positions
        BY <2>1, <3>3, <4>1
      <4>2. CASE k \notin positions
        <5>1. f[k] = f[k - 1]
          BY <2>1, <4>2
        <5> QED BY <1>1, <3>2, <5>1
      <4> QED BY <4>1, <4>2
    <3> QED BY <2>2, <3>1, <3>4
  <2>4. f[0] \in T[0] /\ 0 \in 0..n /\ n \in 0..n
    BY <1>1, <2>1
  <2> HIDE DEF T
  <2>5. \A k \in 0..n : f[k] \in T[k]
    BY <1>1, <2>3, <2>4, ChainStays
  <2> QED BY <2>2, <2>4, <2>5
<1> HIDE DEF Is
<1> QED BY <1>3, <1>4, <1>5

LEMMA ElementsAtIn ==
  ASSUME NEW X, NEW seq \in Seq(X), NEW positions
  PROVE  ElementsAt(seq, positions) \in Seq(X) /\ Len(ElementsAt(seq, positions)) <= Len(seq)
BY ElementsAtIs


LEMMA ElementIs ==
  ASSUME NEW X, NEW seq \in Seq(X), NEW i \in DOMAIN seq
  PROVE  seq[i] \in X
OBVIOUS

-----------------------------------------------------------------------------
(***************************************************************************)
(* What a stage knows when its sequence changes: s picks elements of seq,  *)
(* in order and as they were or matched.                                   *)
(***************************************************************************)
Picks(g, s, seq) ==
  /\ \A j \in DOMAIN s : g[j] \in DOMAIN seq /\ s[j].key = seq[g[j]].key
  /\ \A j, l \in DOMAIN s : j < l => g[j] < g[l]

\* s has the event that holds a key, and none that was released later.
PicksHeld(g, s, seq, key) ==
  /\ \A j \in DOMAIN s : s[j].key = key => (s[j].state = "Up" <=> seq[g[j]].state = "Up")
  /\ \A i \in DOMAIN seq : HeldAt(seq, i, key) => \E j \in DOMAIN s : g[j] = i
  /\ \A j \in DOMAIN s : HeldAt(s, j, key) =>
       \A i \in DOMAIN seq : i > g[j] /\ seq[i].key = key => seq[i].state # "Up"

LEMMA PickHolds ==
  ASSUME NEW X, NEW seq \in Seq(X), NEW Y, NEW s \in Seq(Y), NEW g, NEW key,
         Picks(g, s, seq), PicksHeld(g, s, seq, key)
  PROVE  Holds(s, key) <=> Holds(seq, key)
<1>0. DOMAIN seq = 1..Len(seq) /\ Len(seq) \in Nat /\ DOMAIN s = 1..Len(s) /\ Len(s) \in Nat
  OBVIOUS
<1>1. ASSUME NEW i \in DOMAIN seq, HeldAt(seq, i, key) PROVE Holds(s, key)
  <2>1. PICK j \in DOMAIN s : g[j] = i
    BY <1>1 DEF PicksHeld
  <2>2. s[j].key = key /\ s[j].state # "Up"
    BY <1>1, <2>1 DEF Picks, PicksHeld, HeldAt
  <2>3. ASSUME NEW l \in DOMAIN s, l > j PROVE s[l].key # key
    <3>1. j < l
      BY <1>0, <2>3
    <3>2. g[l] \in DOMAIN seq /\ g[j] < g[l] /\ s[l].key = seq[g[l]].key
      BY <3>1 DEF Picks
    <3>3. g[l] > i
      BY <1>0, <2>1, <3>2
    <3> QED BY <1>1, <3>2, <3>3 DEF HeldAt
  <2> QED BY <2>2, <2>3 DEF Holds, HeldAt
<1>2. ASSUME NEW j \in DOMAIN s, HeldAt(s, j, key) PROVE Holds(seq, key)
  <2> DEFINE P == {i \in DOMAIN seq : seq[i].key = key}
             i == LastOf(P)
  <2>1. g[j] \in P /\ P \in SUBSET (1..Len(seq)) /\ s[j].state # "Up"
    BY <1>0, <1>2 DEF Picks, HeldAt
  <2>2. i \in P /\ \A l \in P : l <= i
    BY <1>0, <2>1, LastOfIs
  <2>3. \A l \in DOMAIN seq : seq[l].key = key => l \in P
    OBVIOUS
  <2>4. i \in DOMAIN seq /\ seq[i].key = key
    BY <2>2
  <2> HIDE DEF P, i
  <2>5. seq[i].state # "Up"
    <3>1. CASE i = g[j]
      BY <1>2, <2>1, <3>1 DEF PicksHeld, HeldAt
    <3>2. CASE i # g[j]
      <4>1. g[j] \in 1..Len(seq) /\ g[j] <= i /\ i \in 1..Len(seq)
        BY <1>0, <2>1, <2>2, <2>4
      <4>2. i > g[j]
        BY <1>0, <3>2, <4>1
      <4> QED BY <1>2, <2>4, <4>2 DEF PicksHeld
    <3> QED BY <3>1, <3>2
  <2>6. ASSUME NEW l \in DOMAIN seq, l > i PROVE seq[l].key # key
    <3>1. l \in 1..Len(seq) /\ i \in 1..Len(seq)
      BY <1>0, <2>4
    <3>2. ~ (l <= i)
      BY <1>0, <2>6, <3>1
    <3> QED BY <2>2, <2>3, <3>2
  <2> QED BY <2>4, <2>5, <2>6 DEF Holds, HeldAt
<1> QED BY <1>1, <1>2 DEF Holds

LEMMA PickKnows ==
  ASSUME NEW X, NEW seq \in Seq(X), NEW Y, NEW s \in Seq(Y), NEW g, NEW W, Knows(seq, W),
         Picks(g, s, seq), \A key \in VirtualKeys : PicksHeld(g, s, seq, key),
         \A j \in DOMAIN s : s[j].key \in VirtualKeys => s[j].state \in VirtualStates
  PROVE  Knows(s, W)
<1>1. \A key \in VirtualKeys : Holds(s, key) <=> Holds(seq, key)
  BY PickHolds
<1> QED BY <1>1 DEF Knows

LEMMA RemoveAtPicks ==
  ASSUME NEW X, NEW seq \in Seq(X), NEW i \in 1..Len(seq)
  PROVE  /\ RemoveAt(seq, i) \in Seq(X) /\ Len(RemoveAt(seq, i)) = Len(seq) - 1
         /\ \A j \in 1..(Len(seq) - 1) : RemoveAt(seq, i)[j] = seq[IF j < i THEN j ELSE j + 1]
<1> DEFINE a == SubSeq(seq, 1, i - 1)
           b == SubSeq(seq, i + 1, Len(seq))
<1>0. Len(seq) \in Nat
  OBVIOUS
<1>1. a \in Seq(X) /\ Len(a) = i - 1 /\ \A j \in 1..(i - 1) : a[j] = seq[j]
  OBVIOUS
<1>2. b \in Seq(X) /\ Len(b) = Len(seq) - i /\ \A j \in 1..(Len(seq) - i) : b[j] = seq[i + j]
  OBVIOUS
<1>3. RemoveAt(seq, i) = a \o b
  BY DEF RemoveAt
<1> HIDE DEF a, b
<1>4. /\ a \o b \in Seq(X) /\ Len(a \o b) = Len(a) + Len(b)
      /\ \A k \in 1..Len(a) : (a \o b)[k] = a[k]
      /\ \A k \in 1..Len(b) : (a \o b)[Len(a) + k] = b[k]
  <2>1. a \in Seq(X) /\ b \in Seq(X)
    BY <1>1, <1>2
  <2> QED BY <2>1, Concatenation
<1>5. ASSUME NEW j \in 1..(Len(seq) - 1)
      PROVE  (a \o b)[j] = seq[IF j < i THEN j ELSE j + 1]
  <2>1. CASE j < i
    <3>1. j \in 1..(i - 1)
      BY <1>0, <2>1
    <3> QED BY <1>1, <1>4, <2>1, <3>1
  <2>2. CASE ~ (j < i)
    <3> DEFINE k == j - (i - 1)
    <3>1. k \in 1..(Len(seq) - i) /\ (i - 1) + k = j /\ i + k = j + 1
      BY <1>0, <2>2
    <3> HIDE DEF k
    <3>2. (a \o b)[(i - 1) + k] = b[k] /\ b[k] = seq[i + k]
      BY <1>1, <1>2, <1>4, <3>1
    <3> QED BY <2>2, <3>1, <3>2
  <2> QED BY <2>1, <2>2
<1> QED BY <1>0, <1>1, <1>2, <1>3, <1>4, <1>5

\* Removing an event does not change what is known of another key.
LEMMA RemoveOther ==
  ASSUME NEW X, NEW seq \in Seq(X), NEW i \in 1..Len(seq), NEW key,
         \/ seq[i].key # key
         \/ seq[i].state # "Up" /\ \E l \in DOMAIN seq : l > i /\ seq[l].key = key
         \/ seq[i].state = "Up" /\ \A l \in DOMAIN seq : l < i => seq[l].key # key
  PROVE  Holds(RemoveAt(seq, i), key) <=> Holds(seq, key)
<1> DEFINE s == RemoveAt(seq, i)
           m == Len(seq) - 1
           g == [j \in 1..m |-> IF j < i THEN j ELSE j + 1]
<1>1. s \in Seq(X) /\ Len(s) = m /\ \A j \in 1..m : s[j] = seq[g[j]]
  BY RemoveAtPicks
<1>2. Len(seq) \in Nat /\ m \in Nat /\ DOMAIN seq = 1..Len(seq) /\ DOMAIN s = 1..m
  BY <1>1
<1>3. \A j \in 1..m : g[j] \in 1..Len(seq) /\ g[j] # i
  BY <1>2
<1>4. \A j, l \in 1..m : j < l => g[j] < g[l]
  BY <1>2
<1>5. ASSUME NEW l \in 1..Len(seq), l # i PROVE \E j \in 1..m : g[j] = l
  <2>1. CASE l < i
    <3>1. l \in 1..m
      BY <1>2, <2>1
    <3>2. g[l] = l
      BY <2>1, <3>1
    <3> QED BY <3>1, <3>2
  <2>2. CASE l > i
    <3>1. l - 1 \in 1..m /\ ~(l - 1 < i) /\ (l - 1) + 1 = l
      BY <1>2, <2>2
    <3>2. g[l - 1] = l
      BY <3>1
    <3> QED BY <3>1, <3>2
  <2> QED BY <1>2, <1>5, <2>1, <2>2
<1> HIDE DEF s, m, g
<1>6. Picks(g, s, seq)
  BY <1>1, <1>2, <1>3, <1>4 DEF Picks
<1>7. PicksHeld(g, s, seq, key)
  <2>1. ASSUME NEW l \in DOMAIN seq, HeldAt(seq, l, key) PROVE \E j \in DOMAIN s : g[j] = l
    <3>1. l # i
      BY <2>1 DEF HeldAt
    <3> QED BY <1>2, <1>5, <3>1
  <2>2. ASSUME NEW j \in DOMAIN s, HeldAt(s, j, key), NEW l \in DOMAIN seq, l > g[j], seq[l].key = key
        PROVE  seq[l].state # "Up"
    <3>1. CASE l = i
      <4>1. s[j].key = key /\ s[j] = seq[g[j]] /\ g[j] \in 1..Len(seq)
        BY <1>1, <1>2, <1>3, <2>2 DEF HeldAt
      <4>2. g[j] < i /\ g[j] \in DOMAIN seq /\ seq[g[j]].key = key
        BY <1>2, <2>2, <3>1, <4>1
      <4> QED BY <2>2, <3>1, <4>2
    <3>2. CASE l # i
      <4>1. PICK k \in 1..m : g[k] = l
        BY <1>2, <1>5, <3>2
      <4>2. j \in 1..m /\ g[j] \in 1..Len(seq) /\ g[k] \in 1..Len(seq)
        BY <1>2, <1>3
      <4>3. ~(k < j) /\ k # j
        BY <1>2, <1>4, <2>2, <4>1, <4>2
      <4>4. k > j
        BY <1>2, <4>2, <4>3
      <4>5. s[k].key = key
        BY <1>1, <2>2, <4>1
      <4> QED BY <1>2, <2>2, <4>4, <4>5 DEF HeldAt
    <3> QED BY <3>1, <3>2
  <2> QED BY <1>1, <1>2, <2>1, <2>2 DEF PicksHeld
<1>8. Holds(s, key) <=> Holds(seq, key)
  BY <1>1, <1>6, <1>7, PickHolds
<1> QED BY <1>8 DEF s

LEMMA RemoveKnows ==
  ASSUME NEW X, NEW seq \in Seq(X), NEW i \in 0..Len(seq), NEW W, Knows(seq, W),
         i # 0 /\ seq[i].key \in VirtualKeys =>
           \/ seq[i].state # "Up" /\ \E l \in DOMAIN seq : l > i /\ seq[l].key = seq[i].key
           \/ seq[i].state = "Up" /\ \A l \in DOMAIN seq : l < i => seq[l].key # seq[i].key
  PROVE  RemoveAt(seq, i) \in Seq(X) /\ Knows(RemoveAt(seq, i), W)
<1>1. CASE i = 0
  <2>1. RemoveAt(seq, 0) = seq
    BY DEF RemoveAt
  <2> QED BY <1>1, <2>1
<1>2. CASE i # 0
  <2>0. i \in 1..Len(seq)
    BY <1>2
  <2>1. \A key \in VirtualKeys : Holds(RemoveAt(seq, i), key) <=> Holds(seq, key)
    BY <1>2, <2>0, RemoveOther
  <2>2. /\ RemoveAt(seq, i) \in Seq(X) /\ Len(RemoveAt(seq, i)) = Len(seq) - 1
        /\ \A j \in 1..(Len(seq) - 1) : RemoveAt(seq, i)[j] = seq[IF j < i THEN j ELSE j + 1]
    BY <2>0, RemoveAtPicks
  <2>3. \A j \in DOMAIN RemoveAt(seq, i) : \E l \in DOMAIN seq : RemoveAt(seq, i)[j] = seq[l]
    <3>1. DOMAIN RemoveAt(seq, i) = 1..(Len(seq) - 1) /\ DOMAIN seq = 1..Len(seq) /\ Len(seq) \in Nat
      BY <2>2
    <3>2. \A j \in 1..(Len(seq) - 1) : (IF j < i THEN j ELSE j + 1) \in 1..Len(seq)
      BY <3>1
    <3> QED BY <2>2, <3>1, <3>2
  <2>4. \A j \in DOMAIN RemoveAt(seq, i) :
          RemoveAt(seq, i)[j].key \in VirtualKeys => RemoveAt(seq, i)[j].state \in VirtualStates
    BY <2>3 DEF Knows
  <2> QED BY <2>1, <2>2, <2>4 DEF Knows
<1> QED BY <1>1, <1>2

\* Events change their state, but none of a virtual key is released or pressed.
LEMMA RestateKnows ==
  ASSUME NEW X, NEW seq \in Seq(X), NEW Y, NEW s \in Seq(Y), NEW W, Knows(seq, W),
         DOMAIN s = DOMAIN seq,
         \A j \in DOMAIN s :
           /\ s[j].key = seq[j].key
           /\ s[j].key \in VirtualKeys =>
                s[j].state \in VirtualStates /\ (s[j].state = "Up" <=> seq[j].state = "Up")
  PROVE  Knows(s, W)
<1>1. \A key \in VirtualKeys : \A i \in DOMAIN seq : HeldAt(s, i, key) <=> HeldAt(seq, i, key)
  BY DEF HeldAt
<1>2. \A key \in VirtualKeys : Holds(s, key) <=> Holds(seq, key)
  BY <1>1 DEF Holds
<1> QED BY <1>2 DEF Knows

\* The start of a sequence without virtual keys is dropped.
LEMMA FromKnows ==
  ASSUME NEW X, NEW seq \in Seq(X), NEW i \in 1..(Len(seq) + 1), NEW W, Knows(seq, W),
         \A j \in 1..(i - 1) : seq[j].key \notin VirtualKeys
  PROVE  From(seq, i) \in Seq(X) /\ Knows(From(seq, i), W)
<1> DEFINE s == From(seq, i)
           m == Len(seq) + 1 - i
           g == [j \in 1..m |-> j + i - 1]
<1>1. s \in Seq(X) /\ Len(s) = m /\ \A j \in 1..m : s[j] = seq[g[j]]
  BY DEF From
<1>2. Len(seq) \in Nat /\ m \in Nat /\ DOMAIN seq = 1..Len(seq) /\ DOMAIN s = 1..m
  BY <1>1
<1>3. \A j \in 1..m : g[j] \in 1..Len(seq)
  BY <1>2
<1>4. \A j, l \in 1..m : j < l => g[j] < g[l]
  BY <1>2
<1>5. ASSUME NEW l \in 1..Len(seq), l \notin 1..(i - 1) PROVE \E j \in 1..m : g[j] = l
  <2>1. l + 1 - i \in 1..m /\ (l + 1 - i) + i - 1 = l
    BY <1>2, <1>5
  <2>2. g[l + 1 - i] = l
    BY <2>1
  <2> QED BY <2>1, <2>2
<1> HIDE DEF s, m, g
<1>6. Picks(g, s, seq)
  BY <1>1, <1>2, <1>3, <1>4 DEF Picks
<1>7. ASSUME NEW key \in VirtualKeys PROVE PicksHeld(g, s, seq, key)
  <2>1. ASSUME NEW l \in DOMAIN seq, HeldAt(seq, l, key) PROVE \E j \in DOMAIN s : g[j] = l
    <3>1. l \notin 1..(i - 1)
      BY <1>7, <2>1 DEF HeldAt
    <3> QED BY <1>2, <1>5, <3>1
  <2>2. ASSUME NEW j \in DOMAIN s, HeldAt(s, j, key), NEW l \in DOMAIN seq, l > g[j], seq[l].key = key
        PROVE  seq[l].state # "Up"
    <3>1. PICK k \in 1..m : g[k] = l
      BY <1>2, <1>5, <1>7, <2>2
    <3>2. j \in 1..m /\ g[j] \in 1..Len(seq) /\ g[k] \in 1..Len(seq)
      BY <1>2, <1>3
    <3>3. ~(k < j) /\ k # j
      BY <1>2, <1>4, <2>2, <3>1, <3>2
    <3>4. k > j
      BY <1>2, <3>2, <3>3
    <3>5. s[k].key = key
      BY <1>1, <2>2, <3>1
    <3> QED BY <1>2, <2>2, <3>4, <3>5 DEF HeldAt
  <2> QED BY <1>1, <1>2, <2>1, <2>2 DEF PicksHeld
<1>8. \A j \in DOMAIN s : s[j].key \in VirtualKeys => s[j].state \in VirtualStates
  BY <1>1, <1>2, <1>3 DEF Knows
<1>9. Knows(s, W)
  BY <1>1, <1>6, <1>7, <1>8, PickKnows
<1> QED BY <1>1, <1>9 DEF s

\* The virtual keys that are down after an event.
After(down, event) ==
  IF event.key \notin VirtualKeys THEN down
  ELSE IF event.state = "Up" THEN down \ {event.key} ELSE down \cup {event.key}

LEMMA AppendKnows ==
  ASSUME NEW X, NEW seq \in Seq(X), NEW W \in SUBSET VirtualKeys, Knows(seq, W), NEW event,
         event.key \in VirtualKeys => event.state \in VirtualStates
  PROVE  Knows(Append(seq, event), After(W, event)) /\ After(W, event) \in SUBSET VirtualKeys
<1> DEFINE s == Append(seq, event)
           n == Len(seq)
<1>1. /\ n \in Nat /\ DOMAIN seq = 1..n /\ DOMAIN s = 1..(n + 1)
      /\ s[n + 1] = event /\ \A j \in 1..n : s[j] = seq[j]
  OBVIOUS
<1> HIDE DEF s, n
<1>2. \A j \in DOMAIN s : j \in 1..n \/ j = n + 1
  BY <1>1
<1>3. ASSUME NEW key \in VirtualKeys, event.key # key PROVE Holds(s, key) <=> Holds(seq, key)
  <2>1. \A i \in 1..n : HeldAt(s, i, key) <=> HeldAt(seq, i, key)
    <3>1. \A i \in 1..n : i \in DOMAIN s /\ n + 1 > i
      BY <1>1
    <3> QED BY <1>1, <1>2, <1>3, <3>1 DEF HeldAt
  <2>2. ~HeldAt(s, n + 1, key)
    BY <1>1, <1>3 DEF HeldAt
  <2>3. \A i \in 1..n : i \in DOMAIN s
    BY <1>1
  <2> QED BY <1>1, <1>2, <2>1, <2>2, <2>3 DEF Holds
<1>4. Holds(s, event.key) <=> event.state # "Up"
  <2>1. \A i \in DOMAIN s : ~(i > n + 1)
    BY <1>1
  <2>2. HeldAt(s, n + 1, event.key) <=> event.state # "Up"
    BY <1>1, <2>1 DEF HeldAt
  <2>3. n + 1 \in DOMAIN s /\ \A i \in 1..n : n + 1 > i
    BY <1>1
  <2>4. \A i \in 1..n : ~HeldAt(s, i, event.key)
    BY <1>1, <2>3 DEF HeldAt
  <2> QED BY <1>2, <2>2, <2>3, <2>4 DEF Holds
<1>5. \A j \in DOMAIN s : s[j].key \in VirtualKeys => s[j].state \in VirtualStates
  BY <1>1, <1>2 DEF Knows
<1>6. \A key \in VirtualKeys : key \in After(W, event) <=> Holds(s, key)
  BY <1>3, <1>4 DEF Knows, After
<1>7. After(W, event) \in SUBSET VirtualKeys
  BY DEF After
<1> QED BY <1>5, <1>6, <1>7 DEF Knows, s

LEMMA NothingKnown == Knows(<< >>, {})
BY DEF Knows, Holds

\* The positions elements are taken from.
TakenFrom(g, s, seq, positions, n) ==
  /\ Len(g) = Len(s)
  /\ \A j \in 1..Len(s) : g[j] \in 1..n /\ g[j] \in positions /\ s[j] = seq[g[j]]
  /\ \A j, l \in 1..Len(s) : j < l => g[j] < g[l]
  /\ \A i \in 1..n : i \in positions => \E j \in 1..Len(s) : g[j] = i

LEMMA ElementsAtTaken ==
  ASSUME NEW X, NEW seq \in Seq(X), NEW positions
  PROVE  /\ ElementsAt(seq, positions) \in Seq(X)
         /\ \E g \in Seq(Nat) : TakenFrom(g, ElementsAt(seq, positions), seq, positions, Len(seq))
<1> DEFINE n == Len(seq)
           G == [i \in 1..n |-> [x \in Seq(X) |-> IF i \in positions THEN Append(x, seq[i]) ELSE x]]
           Is(f) == f = [k \in 0..n |-> IF k = 0 THEN << >>
                           ELSE IF k \in positions THEN Append(f[k - 1], seq[k]) ELSE f[k - 1]]
<1>1. n \in Nat /\ DOMAIN seq = 1..n
  OBVIOUS
<1>2. \A i \in 1..n : \A x \in Seq(X) :
        /\ G[i][x] = (IF i \in positions THEN Append(x, seq[i]) ELSE x)
        /\ G[i][x] \in Seq(X)
  <2>1. ASSUME NEW i \in 1..n, NEW x \in Seq(X)
        PROVE  /\ G[i][x] = (IF i \in positions THEN Append(x, seq[i]) ELSE x)
               /\ (IF i \in positions THEN Append(x, seq[i]) ELSE x) \in Seq(X)
    BY <1>1
  <2> QED BY <2>1
<1>3. ElementsAt(seq, positions) = (CHOOSE f : Is(f))[n]
  BY DEF ElementsAt
<1> HIDE DEF G
<1>4. \E f : Is(f)
  <2>0. << >> \in Seq(X) /\ \A i \in 1..n : \A x \in Seq(X) : G[i][x] \in Seq(X)
    BY <1>2
  <2>1. PICK f : RoundsIn(f, n, Seq(X), << >>, G)
    BY <1>1, <2>0, RoundsExist
  <2>2. \A k \in 0..n : k # 0 => k \in 1..n /\ k - 1 \in 0..n
    BY <1>1
  <2>3. Is(f)
    BY <1>2, <2>1, <2>2 DEF RoundsIn
  <2> QED BY <2>3
<1>5. ASSUME NEW f, Is(f)
      PROVE  f[n] \in Seq(X) /\ \E g \in Seq(Nat) : TakenFrom(g, f[n], seq, positions, n)
  <2> DEFINE T == [k \in 0..n |-> {x \in Seq(X) : \E g \in Seq(Nat) : TakenFrom(g, x, seq, positions, k)}]
  <2>0. 0 \in 0..n /\ n \in 0..n /\ \A k \in 1..n : k \in 0..n /\ k # 0 /\ k - 1 \in 0..n
    BY <1>1
  <2>1. /\ f[0] = << >>
        /\ \A k \in 1..n : f[k] = IF k \in positions THEN Append(f[k - 1], seq[k]) ELSE f[k - 1]
    BY <1>5, <2>0
  <2>2. \A k \in 0..n : T[k] = {x \in Seq(X) : \E g \in Seq(Nat) : TakenFrom(g, x, seq, positions, k)}
    OBVIOUS
  <2> HIDE DEF T
  <2>3. ASSUME NEW k \in 1..n, f[k - 1] \in T[k - 1] PROVE f[k] \in T[k]
    <3>1. f[k - 1] \in Seq(X)
      BY <2>0, <2>2, <2>3
    <3>2. PICK g \in Seq(Nat) : TakenFrom(g, f[k - 1], seq, positions, k - 1)
      BY <2>0, <2>2, <2>3
    <3> DEFINE x == f[k - 1]
    <3>3. /\ x \in Seq(X) /\ Len(x) \in Nat /\ Len(g) = Len(x) /\ k \in Nat /\ k >= 1
          /\ \A j \in 1..Len(x) : g[j] \in 1..(k - 1) /\ g[j] \in positions /\ x[j] = seq[g[j]]
          /\ \A j, l \in 1..Len(x) : j < l => g[j] < g[l]
          /\ \A i \in 1..(k - 1) : i \in positions => \E j \in 1..Len(x) : g[j] = i
      BY <1>1, <3>1, <3>2 DEF TakenFrom
    <3> HIDE DEF x
    <3>4. CASE k \in positions
      <4> DEFINE y == Append(x, seq[k])
                 h == Append(g, k)
      <4>1. /\ y \in Seq(X) /\ Len(y) = Len(x) + 1 /\ y[Len(x) + 1] = seq[k]
            /\ \A j \in 1..Len(x) : y[j] = x[j]
        BY <1>1, <3>3
      <4>2. /\ h \in Seq(Nat) /\ Len(h) = Len(x) + 1 /\ h[Len(x) + 1] = k
            /\ \A j \in 1..Len(x) : h[j] = g[j]
        BY <3>3
      <4> HIDE DEF y, h
      <4>3. \A j \in 1..(Len(x) + 1) : j \in 1..Len(x) \/ j = Len(x) + 1
        BY <3>3
      <4>4. \A j \in 1..Len(y) : h[j] \in 1..k /\ h[j] \in positions /\ y[j] = seq[h[j]]
        <5>1. \A i \in 1..(k - 1) : i \in 1..k
          BY <3>3
        <5>2. k \in 1..k
          BY <3>3
        <5> QED BY <3>3, <3>4, <4>1, <4>2, <4>3, <5>1, <5>2
      <4>5. ASSUME NEW j \in 1..Len(y), NEW l \in 1..Len(y), j < l PROVE h[j] < h[l]
        <5>1. j \in 1..Len(x)
          BY <3>3, <4>1, <4>5
        <5>2. CASE l \in 1..Len(x)
          BY <3>3, <4>2, <4>5, <5>1, <5>2
        <5>3. CASE l = Len(x) + 1
          BY <3>3, <4>2, <5>1, <5>3
        <5> QED BY <4>1, <4>3, <5>2, <5>3
      <4>6. ASSUME NEW i \in 1..k, i \in positions PROVE \E j \in 1..Len(y) : h[j] = i
        <5>1. CASE i = k
          <6>1. Len(x) + 1 \in 1..Len(y)
            BY <3>3, <4>1
          <6> QED BY <4>2, <5>1, <6>1
        <5>2. CASE i # k
          <6>1. i \in 1..(k - 1)
            BY <3>3, <5>2
          <6>2. PICK j \in 1..Len(x) : g[j] = i
            BY <3>3, <4>6, <6>1
          <6>3. j \in 1..Len(y)
            BY <3>3, <4>1
          <6> QED BY <4>2, <6>2, <6>3
        <5> QED BY <5>1, <5>2
      <4>7. TakenFrom(h, y, seq, positions, k)
        BY <4>1, <4>2, <4>4, <4>5, <4>6 DEF TakenFrom
      <4>8. f[k] = y
        BY <2>1, <3>4 DEF y, x
      <4> QED BY <2>0, <2>2, <4>1, <4>2, <4>7, <4>8
    <3>5. CASE k \notin positions
      <4>1. f[k] = x
        BY <2>1, <3>5 DEF x
      <4>2. /\ \A j \in 1..Len(x) : g[j] \in 1..k
            /\ \A i \in 1..k : i \in positions => i \in 1..(k - 1)
        <5>1. \A i \in 1..(k - 1) : i \in 1..k
          BY <3>3
        <5>2. \A i \in 1..k : i # k => i \in 1..(k - 1)
          BY <3>3
        <5> QED BY <3>3, <3>5, <5>1, <5>2
      <4>3. TakenFrom(g, x, seq, positions, k)
        BY <3>3, <4>2 DEF TakenFrom
      <4> QED BY <2>0, <2>2, <3>3, <4>1, <4>3
    <3> QED BY <3>4, <3>5
  <2>4. f[0] \in T[0]
    <3>1. TakenFrom(<< >>, << >>, seq, positions, 0)
      BY DEF TakenFrom
    <3>2. << >> \in Seq(X) /\ << >> \in Seq(Nat)
      OBVIOUS
    <3> QED BY <2>0, <2>1, <2>2, <3>1, <3>2
  <2>5. \A k \in 0..n : f[k] \in T[k]
    BY <1>1, <2>3, <2>4, ChainStays
  <2> QED BY <2>0, <2>2, <2>5
<1> HIDE DEF Is
<1> QED BY <1>3, <1>4, <1>5

\* What is left out has no virtual keys.
LEMMA TakenKnows ==
  ASSUME NEW X, NEW seq \in Seq(X), NEW positions, NEW W, Knows(seq, W),
         \A i \in DOMAIN seq : i \notin positions => seq[i].key \notin VirtualKeys
  PROVE  ElementsAt(seq, positions) \in Seq(X) /\ Knows(ElementsAt(seq, positions), W)
<1> DEFINE s == ElementsAt(seq, positions)
<1>1. PICK g \in Seq(Nat) : TakenFrom(g, s, seq, positions, Len(seq))
  BY ElementsAtTaken
<1>2. s \in Seq(X)
  BY ElementsAtTaken
<1> HIDE DEF s
<1>3. DOMAIN s = 1..Len(s) /\ Len(s) \in Nat /\ DOMAIN seq = 1..Len(seq) /\ Len(seq) \in Nat
  BY <1>2
<1>4. /\ \A j \in DOMAIN s : g[j] \in DOMAIN seq /\ s[j] = seq[g[j]]
      /\ \A j, l \in DOMAIN s : j < l => g[j] < g[l]
      /\ \A i \in DOMAIN seq : seq[i].key \in VirtualKeys => \E j \in DOMAIN s : g[j] = i
  BY <1>1, <1>3 DEF TakenFrom
<1>5. Picks(g, s, seq)
  BY <1>4 DEF Picks
<1>6. ASSUME NEW key \in VirtualKeys PROVE PicksHeld(g, s, seq, key)
  <2>1. \A l \in DOMAIN seq : HeldAt(seq, l, key) => \E j \in DOMAIN s : g[j] = l
    BY <1>4 DEF HeldAt
  <2>2. ASSUME NEW j \in DOMAIN s, HeldAt(s, j, key), NEW l \in DOMAIN seq, l > g[j], seq[l].key = key
        PROVE  seq[l].state # "Up"
    <3>1. PICK k \in DOMAIN s : g[k] = l
      BY <1>4, <1>6, <2>2
    <3>2. j \in 1..Len(s) /\ k \in 1..Len(s) /\ g[j] \in 1..Len(seq) /\ g[k] \in 1..Len(seq)
      BY <1>3, <1>4
    <3>3. ~(k < j) /\ k # j
      BY <1>4, <2>2, <3>1, <3>2
    <3>4. k > j
      BY <1>3, <3>2, <3>3
    <3>5. s[k].key = key
      BY <1>4, <2>2, <3>1
    <3> QED BY <2>2, <3>4, <3>5 DEF HeldAt
  <2> QED BY <1>4, <2>1, <2>2 DEF PicksHeld
<1>7. \A j \in DOMAIN s : s[j].key \in VirtualKeys => s[j].state \in VirtualStates
  BY <1>4 DEF Knows
<1>8. Knows(s, W)
  BY <1>2, <1>5, <1>6, <1>7, PickKnows
<1> QED BY <1>2, <1>8 DEF s

\* A stage that has another sequence, and no more that waits.
LEMMA SetSeqAnew ==
  ASSUME NEW n, NEW V, NEW st \in StageOf(n, V), NEW V2, NEW x \in Seq(SeqEvents),
         Knows(x, V2.down), V.held \subseteq V2.held
  PROVE  [st EXCEPT !.seq = x] \in StageOf(n, V2)
<1>1. ContinuationsOf(V.held) \subseteq ContinuationsOf(V2.held)
  BY DEF ContinuationsOf
<1>2. st.onRelease \in Seq(ContinuationsOf(V.held))
  BY StageFields
<1>3. st.onRelease \in Seq(ContinuationsOf(V2.held))
  BY <1>1, <1>2, SeqMonotone
<1> QED BY <1>3 DEF StageOf

\* A key is physically pressed when the sequence holds it.
LEMMA PressedIsHeld ==
  ASSUME NEW st, NEW X, st.seq \in Seq(X), NEW key
  PROVE  IsPhysicallyPressed(st, key) <=> Holds(st.seq, key)
<1> DEFINE seq == st.seq
           P == {i \in DOMAIN seq : seq[i].key = key}
           i == LastOf(P)
<1>1. /\ Len(seq) \in Nat /\ DOMAIN seq = 1..Len(seq) /\ P \in SUBSET (1..Len(seq))
      /\ \A j \in 1..Len(seq) : j \in P <=> seq[j].key = key
  OBVIOUS
<1>2. IsPhysicallyPressed(st, key) <=> i # 0 /\ seq[i].state # "Up"
  BY DEF IsPhysicallyPressed, RFindKey
<1> HIDE DEF P, seq
<1>3. (P = {} => i = 0) /\ (P # {} => i \in P /\ \A j \in P : j <= i)
  BY <1>1, LastOfIs
<1> HIDE DEF i
<1>4. ASSUME i # 0, seq[i].state # "Up" PROVE Holds(seq, key)
  <2>1. i \in 1..Len(seq) /\ seq[i].key = key /\ \A j \in P : j <= i
    BY <1>1, <1>3, <1>4
  <2>2. \A j \in 1..Len(seq) : j > i => ~(j <= i)
    BY <2>1
  <2> QED BY <1>1, <1>4, <2>1, <2>2 DEF Holds, HeldAt
<1>5. ASSUME NEW j \in DOMAIN seq, HeldAt(seq, j, key) PROVE i # 0 /\ seq[i].state # "Up"
  <2>1. j \in P /\ j \in 1..Len(seq) /\ i \in P /\ i \in 1..Len(seq) /\ j <= i /\ seq[i].key = key
    BY <1>1, <1>3, <1>5 DEF HeldAt
  <2>2. ~(i > j)
    BY <1>1, <1>5, <2>1 DEF HeldAt
  <2>3. i = j
    BY <2>1, <2>2
  <2> QED BY <1>5, <2>1, <2>3 DEF HeldAt
<1> QED BY <1>2, <1>4, <1>5 DEF Holds, seq

-----------------------------------------------------------------------------
LEMMA EmitIs ==
  ASSUME NEW n, NEW V, NEW st \in StageOf(n, V), NEW event \in OutEvents
  PROVE  /\ Emit(st, event) \in Keeps(n, V, st) /\ Emit(st, event).out = st.out
         /\ Emit(st, event).buf = Append(st.buf, event) /\ Emit(st, event).timeout = st.timeout
<1> DEFINE b == Append(st.buf, event)
<1>1. b \in Seq(OutEvents)
  BY StageFields
<1> HIDE DEF b
<1>2. /\ [st EXCEPT !.buf = b] \in Keeps(n, V, st) /\ [st EXCEPT !.buf = b].out = st.out
      /\ [st EXCEPT !.buf = b].buf = b /\ [st EXCEPT !.buf = b].timeout = st.timeout
  BY <1>1, SetBuf
<1> QED BY <1>2 DEF Emit, b

LEMMA OutputIndexIs ==
  ASSUME NEW n, NEW V, NEW st \in StageOf(n, V), NEW key
  PROVE  OutputIndex(st, key) \in 0..Len(st.out)
<1>1. st.out \in Seq(Outputs)
  BY StageFields
<1>2. {i \in DOMAIN st.out : st.out[i].key = key} \in SUBSET (1..Len(st.out)) /\ Len(st.out) \in Nat
  BY <1>1
<1> QED BY <1>2, FirstOfIs DEF OutputIndex

LEMMA RFindKeyIs ==
  ASSUME NEW X, NEW seq \in Seq(X), NEW key
  PROVE  /\ RFindKey(seq, key) \in 0..Len(seq)
         /\ RFindKey(seq, key) # 0 => seq[RFindKey(seq, key)].key = key
<1> DEFINE P == {i \in DOMAIN seq : seq[i].key = key}
<1>1. P \in SUBSET (1..Len(seq)) /\ Len(seq) \in Nat /\ \A i \in P : seq[i].key = key
  OBVIOUS
<1>2. RFindKey(seq, key) = LastOf(P)
  BY DEF RFindKey
<1> HIDE DEF P
<1> QED BY <1>1, <1>2, LastOfIs

LEMMA WithoutLastIs ==
  ASSUME NEW X, NEW seq \in Seq(X), NEW key
  PROVE  WithoutLast(seq, key) \in Seq(X)
BY RFindKeyIs, RemoveAtIs DEF WithoutLast

\* How an output may change.
Twice(st, i) == [st EXCEPT !.out[i].twice = TRUE]
Once(st, i) == [st EXCEPT !.out[i].twice = FALSE]
Lifted(st, i) == [st EXCEPT !.out[i].released = TRUE]
Lowered(st, i) == [st EXCEPT !.out[i].released = FALSE]
Suppressed(st, i) == [st EXCEPT !.out[i].suppressed = TRUE]

LEMMA OutputChanges ==
  ASSUME NEW n, NEW V, NEW st \in StageOf(n, V), NEW i \in DOMAIN st.out
  PROVE  /\ Twice(st, i) \in Keeps(n, V, st) /\ DOMAIN Twice(st, i).out = DOMAIN st.out
         /\ Once(st, i) \in Keeps(n, V, st) /\ DOMAIN Once(st, i).out = DOMAIN st.out
         /\ Lifted(st, i) \in Keeps(n, V, st) /\ DOMAIN Lifted(st, i).out = DOMAIN st.out
         /\ Lowered(st, i) \in Keeps(n, V, st) /\ DOMAIN Lowered(st, i).out = DOMAIN st.out
         /\ Suppressed(st, i) \in Keeps(n, V, st) /\ DOMAIN Suppressed(st, i).out = DOMAIN st.out
         /\ Once(st, i).buf = st.buf
<1> DEFINE Out(o) == [st.out EXCEPT ![i] = o]
<1>1. st.out \in Seq(Outputs) /\ st.out[i] \in Outputs
  BY StageFields
<1>2. ASSUME NEW o \in Outputs
      PROVE  /\ [st EXCEPT !.out = Out(o)] \in Keeps(n, V, st)
             /\ DOMAIN [st EXCEPT !.out = Out(o)].out = DOMAIN st.out
             /\ [st EXCEPT !.out = Out(o)].buf = st.buf
  <2>1. Out(o) \in Seq(Outputs) /\ DOMAIN Out(o) = DOMAIN st.out
    BY <1>1
  <2> HIDE DEF Out
  <2>2. /\ [st EXCEPT !.out = Out(o)] \in Keeps(n, V, st) /\ [st EXCEPT !.out = Out(o)].out = Out(o)
        /\ [st EXCEPT !.out = Out(o)].buf = st.buf
    BY <2>1, SetOut
  <2> QED BY <2>1, <2>2
<1>3. Twice(st, i) \in Keeps(n, V, st) /\ DOMAIN Twice(st, i).out = DOMAIN st.out /\ Twice(st, i).buf = st.buf
  <2> DEFINE o == [st.out[i] EXCEPT !.twice = TRUE]
  <2>1. o \in Outputs
    BY <1>1 DEF Outputs
  <2>2. Twice(st, i) = [st EXCEPT !.out = Out(o)]
    BY DEF Twice
  <2> HIDE DEF Out, o
  <2> QED BY <1>2, <2>1, <2>2
<1>4. Once(st, i) \in Keeps(n, V, st) /\ DOMAIN Once(st, i).out = DOMAIN st.out /\ Once(st, i).buf = st.buf
  <2> DEFINE o == [st.out[i] EXCEPT !.twice = FALSE]
  <2>1. o \in Outputs
    BY <1>1 DEF Outputs
  <2>2. Once(st, i) = [st EXCEPT !.out = Out(o)]
    BY DEF Once
  <2> HIDE DEF Out, o
  <2> QED BY <1>2, <2>1, <2>2
<1>5. Lifted(st, i) \in Keeps(n, V, st) /\ DOMAIN Lifted(st, i).out = DOMAIN st.out /\ Lifted(st, i).buf = st.buf
  <2> DEFINE o == [st.out[i] EXCEPT !.released = TRUE]
  <2>1. o \in Outputs
    BY <1>1 DEF Outputs
  <2>2. Lifted(st, i) = [st EXCEPT !.out = Out(o)]
    BY DEF Lifted
  <2> HIDE DEF Out, o
  <2> QED BY <1>2, <2>1, <2>2
<1>6. Lowered(st, i) \in Keeps(n, V, st) /\ DOMAIN Lowered(st, i).out = DOMAIN st.out /\ Lowered(st, i).buf = st.buf
  <2> DEFINE o == [st.out[i] EXCEPT !.released = FALSE]
  <2>1. o \in Outputs
    BY <1>1 DEF Outputs
  <2>2. Lowered(st, i) = [st EXCEPT !.out = Out(o)]
    BY DEF Lowered
  <2> HIDE DEF Out, o
  <2> QED BY <1>2, <2>1, <2>2
<1>7. Suppressed(st, i) \in Keeps(n, V, st) /\ DOMAIN Suppressed(st, i).out = DOMAIN st.out /\ Suppressed(st, i).buf = st.buf
  <2> DEFINE o == [st.out[i] EXCEPT !.suppressed = TRUE]
  <2>1. o \in Outputs
    BY <1>1 DEF Outputs
  <2>2. Suppressed(st, i) = [st EXCEPT !.out = Out(o)]
    BY DEF Suppressed
  <2> HIDE DEF Out, o
  <2> QED BY <1>2, <2>1, <2>2
<1> QED BY <1>3, <1>4, <1>5, <1>6, <1>7

LEMMA UpdateOutputUpIs ==
  ASSUME NEW n, NEW V, NEW st \in StageOf(n, V), NEW i \in 0..Len(st.out), NEW key \in OutputKeys, NEW trigger
  PROVE  UpdateOutputUp(st, i, key, trigger) \in Keeps(n, V, st)
<1> DEFINE e == Emit(st, Release(key))
           buf == WithoutLast(st.buf, key)
           out == RemoveAt(st.out, i)
<1>1. e \in Keeps(n, V, st) /\ e.out = st.out
  BY PressIs, EmitIs DEF OutEvents
<1>2. e \in StageOf(n, V) /\ Keeps(n, V, e) = Keeps(n, V, st) /\ st \in Keeps(n, V, st)
  BY <1>1, KeepsIs, KeepsSelf
<1>3. buf \in Seq(OutEvents) /\ out \in Seq(Outputs) /\ (i # 0 => i \in DOMAIN st.out)
  BY WithoutLastIs, RemoveAtIs, StageFields
<1>4. UpdateOutputUp(st, i, key, trigger) \in
        {st} \cup (IF i = 0 THEN {} ELSE
          {Once(e, i), [e EXCEPT !.out = out], Lifted(e, i),
           [Once(st, i) EXCEPT !.buf = buf]})
  BY <1>1, <1>3, OutputChanges DEF UpdateOutputUp, Once, Lifted
<1> HIDE DEF e, buf, out
<1>5. ASSUME i # 0
      PROVE  /\ Once(e, i) \in Keeps(n, V, st)
             /\ Lifted(e, i) \in Keeps(n, V, st)
             /\ [e EXCEPT !.out = out] \in Keeps(n, V, st)
             /\ Once(st, i) \in Keeps(n, V, st)
  BY <1>1, <1>2, <1>3, <1>5, OutputChanges, SetOut
<1>6. ASSUME NEW s \in Keeps(n, V, st) PROVE [s EXCEPT !.buf = buf] \in Keeps(n, V, st)
  BY <1>3, SetBuf, KeepsIs
<1> QED BY <1>2, <1>4, <1>5, <1>6

LEMMA UpdateOutputNotIs ==
  ASSUME NEW n, NEW V, NEW st \in StageOf(n, V), NEW i \in 0..Len(st.out), NEW key \in OutputKeys
  PROVE  UpdateOutputNot(st, i, key) \in Keeps(n, V, st)
<1> DEFINE e == Emit(st, Release(key))
           s == IF st.out[i].released THEN st ELSE e
           r == Lifted(s, i)
<1>1. e \in Keeps(n, V, st) /\ e.out = st.out
  BY PressIs, EmitIs DEF OutEvents
<1>2. st \in Keeps(n, V, st) /\ (i # 0 => i \in DOMAIN st.out)
  BY KeepsSelf, StageFields
<1>3. UpdateOutputNot(st, i, key) \in {st} \cup (IF i = 0 THEN {} ELSE {Suppressed(r, i)})
  BY DEF UpdateOutputNot, Lifted, Suppressed
<1> HIDE DEF e
<1>4. s \in Keeps(n, V, st) /\ s.out = st.out
  BY <1>1, <1>2
<1> HIDE DEF s
<1>5. s \in StageOf(n, V) /\ Keeps(n, V, s) = Keeps(n, V, st)
  BY <1>4, KeepsIs
<1>6. ASSUME i # 0 PROVE r \in Keeps(n, V, s) /\ DOMAIN r.out = DOMAIN s.out
  BY <1>2, <1>4, <1>5, <1>6, OutputChanges
<1> HIDE DEF r
<1>7. i # 0 => Suppressed(r, i) \in Keeps(n, V, s)
  <2> SUFFICES ASSUME i # 0 PROVE Suppressed(r, i) \in Keeps(n, V, s)
    OBVIOUS
  <2>1. r \in StageOf(n, V) /\ Keeps(n, V, r) = Keeps(n, V, s) /\ i \in DOMAIN r.out
    BY <1>2, <1>4, <1>5, <1>6, KeepsIs
  <2> QED BY <2>1, OutputChanges
<1> QED BY <1>2, <1>3, <1>5, <1>7

LEMMA ReapplyStays ==
  ASSUME NEW st, NEW key, NEW S, NEW E,
         [st |-> st, done |-> FALSE] \in S, [i \in DOMAIN st.out |-> i] \in Seq(E),
         \A x \in S : \A e \in E : ReapplyAt(x, key, e) \in S
  PROVE  Reapply(st, key) \in S
<1> DEFINE seq == [i \in DOMAIN st.out |-> i]
           n == Len(seq)
           base == [st |-> st, done |-> FALSE]
           Op(x, e) == ReapplyAt(x, key, e)
           G == [i \in 1..n |-> [x \in S |-> Op(x, seq[i])]]
           Is(f) == f = [s \in SUBSET (1..n) |->
                           IF s = {} THEN base ELSE Op(f[s \ {Max(s)}], seq[Max(s)])]
<1>0. seq \in Seq(E)
  OBVIOUS
<1> HIDE DEF seq
<1>1. n \in Nat /\ DOMAIN seq = 1..n /\ \A i \in 1..n : seq[i] \in E
  BY <1>0
<1>2. \A i \in 1..n : \A x \in S : G[i][x] = Op(x, seq[i]) /\ G[i][x] \in S
  <2>1. \A x \in S : \A e \in E : Op(x, e) \in S
    OBVIOUS
  <2> HIDE DEF Op
  <2> QED BY <1>1, <2>1
<1>3. Reapply(st, key) = (CHOOSE f : Is(f))[1..n]
  BY <1>1 DEF Reapply, seq, FoldLeft, MapThenFoldSet
<1>4. base \in S
  OBVIOUS
<1> HIDE DEF G, Op, base
<1>5. \E f : Is(f)
  <2>1. PICK f : FoldsIn(f, n, S, base, G)
    BY <1>1, <1>2, <1>4, FoldIn
  <2>2. Is(f)
    BY <1>2, <2>1 DEF FoldsIn
  <2> QED BY <2>2
<1>6. ASSUME NEW f, Is(f) PROVE f[1..n] \in S
  <2>1. f[{}] = base
    BY <1>6
  <2>2. ASSUME NEW k \in 1..n PROVE f[1..k] = Op(f[1..(k - 1)], seq[k])
    <3>1. /\ 1..k \in SUBSET (1..n) /\ 1..k # {} /\ Max(1..k) = k
          /\ (1..k) \ {Max(1..k)} = 1..(k - 1)
      BY <1>1, FoldStep
    <3>2. f[1..k] = Op(f[(1..k) \ {Max(1..k)}], seq[Max(1..k)])
      BY <1>6, <3>1
    <3> QED BY <3>1, <3>2
  <2>3. ASSUME NEW k \in 1..n, f[1..(k - 1)] \in S PROVE f[1..k] \in S
    <3>1. Op(f[1..(k - 1)], seq[k]) \in S
      BY <1>2, <2>3
    <3> QED BY <2>2, <3>1
  <2> QED BY <1>1, <1>4, <2>1, <2>3, FoldStays
<1> HIDE DEF Is
<1> QED BY <1>3, <1>5, <1>6

\* What reapplying results in: the same outputs, some of them pressed again.
Reapplied(n, V, st) == {r \in [st : Keeps(n, V, st), done : BOOLEAN] : DOMAIN r.st.out = DOMAIN st.out}

LEMMA ReapplyAtIs ==
  ASSUME NEW n, NEW V, NEW st \in StageOf(n, V), NEW r \in Reapplied(n, V, st), NEW key, NEW i \in DOMAIN st.out
  PROVE  ReapplyAt(r, key, i) \in Reapplied(n, V, st)
<1> DEFINE s == r.st
           o == s.out[i]
           e == Emit(s, Press(o.key))
           a == Lowered(e, i)
           buf == Front(s.buf)
           b == [s EXCEPT !.buf = buf]
<1>1. s \in Keeps(n, V, st) /\ DOMAIN s.out = DOMAIN st.out /\ r.done \in BOOLEAN /\ r = [st |-> s, done |-> r.done]
  BY DEF Reapplied
<1> HIDE DEF s
<1>2. s \in StageOf(n, V) /\ Keeps(n, V, s) = Keeps(n, V, st) /\ i \in DOMAIN s.out
  BY <1>1, KeepsIs
<1>3. o \in Outputs /\ o.key \in OutputKeys
  <2>1. s.out \in Seq(Outputs)
    BY <1>2, StageFields
  <2>2. s.out[i] \in Outputs
    BY <1>2, <2>1
  <2> QED BY <2>2 DEF Outputs
<1>4. ReapplyAt(r, key, i) =
        IF r.done \/ ~o.released THEN r
        ELSE IF ~o.suppressed THEN [st |-> [a EXCEPT !.reapplied = TRUE], done |-> o.key = key]
        ELSE IF o.key = key /\ key \in CommonModifiers /\ s.buf # << >> /\ SameEvent(Last(s.buf), Release(key))
        THEN [st |-> Lowered(b, i), done |-> TRUE]
        ELSE r
  BY DEF ReapplyAt, Lowered, s
<1>5. e \in Keeps(n, V, s) /\ e.out = s.out
  BY <1>2, <1>3, PressIs, EmitIs DEF OutEvents
<1> HIDE DEF e
<1>6. a \in Keeps(n, V, s) /\ DOMAIN a.out = DOMAIN s.out
  <2>1. e \in StageOf(n, V) /\ Keeps(n, V, e) = Keeps(n, V, s)
    BY <1>2, <1>5, KeepsIs
  <2> QED BY <1>2, <1>5, <2>1, OutputChanges
<1> HIDE DEF a
<1>7. [a EXCEPT !.reapplied = TRUE] \in Keeps(n, V, s) /\ [a EXCEPT !.reapplied = TRUE].out = a.out
  <2>1. a \in StageOf(n, V) /\ Keeps(n, V, a) = Keeps(n, V, s)
    BY <1>2, <1>6, KeepsIs
  <2> QED BY <2>1, SetReapplied
<1>8. s.buf # << >> => /\ Lowered(b, i) \in Keeps(n, V, s)
                       /\ DOMAIN Lowered(b, i).out = DOMAIN s.out
  <2> SUFFICES ASSUME s.buf # << >> PROVE /\ Lowered(b, i) \in Keeps(n, V, s)
                                          /\ DOMAIN Lowered(b, i).out = DOMAIN s.out
    OBVIOUS
  <2>0. s.buf \in Seq(OutEvents)
    BY <1>2, StageFields
  <2>1. buf \in Seq(OutEvents)
    BY <2>0 DEF Front
  <2> HIDE DEF buf
  <2>2. b \in Keeps(n, V, s) /\ b.out = s.out
    BY <1>2, <2>1, SetBuf
  <2> HIDE DEF b
  <2>3. b \in StageOf(n, V) /\ Keeps(n, V, b) = Keeps(n, V, s)
    BY <1>2, <2>2, KeepsIs
  <2> QED BY <1>2, <2>2, <2>3, OutputChanges
<1> DEFINE x == [a EXCEPT !.reapplied = TRUE]
           y == Lowered(b, i)
<1>9. x \in Keeps(n, V, st) /\ DOMAIN x.out = DOMAIN st.out /\
       (s.buf # << >> => y \in Keeps(n, V, st) /\ DOMAIN y.out = DOMAIN st.out)
  BY <1>1, <1>2, <1>6, <1>7, <1>8
<1> HIDE DEF x, y
<1>10. ReapplyAt(r, key, i) \in {r, [st |-> x, done |-> TRUE], [st |-> x, done |-> FALSE]}
                                \cup (IF s.buf = << >> THEN {} ELSE {[st |-> y, done |-> TRUE]})
  <2>1. CASE o.key = key
    BY <1>4, <2>1 DEF x, y
  <2>2. CASE o.key # key
    BY <1>4, <2>2 DEF x, y
  <2> QED BY <2>1, <2>2
<1>11. ASSUME NEW z \in Keeps(n, V, st), DOMAIN z.out = DOMAIN st.out
       PROVE  [st |-> z, done |-> TRUE] \in Reapplied(n, V, st) /\ [st |-> z, done |-> FALSE] \in Reapplied(n, V, st)
  BY <1>11 DEF Reapplied
<1> QED BY <1>9, <1>10, <1>11

LEMMA ReapplyIs ==
  ASSUME NEW n, NEW V, NEW st \in StageOf(n, V), NEW key
  PROVE  Reapply(st, key) \in Reapplied(n, V, st)
<1>1. [st |-> st, done |-> FALSE] \in Reapplied(n, V, st)
  BY KeepsSelf DEF Reapplied
<1>2. [i \in DOMAIN st.out |-> i] \in Seq(DOMAIN st.out)
  <2>1. st.out \in Seq(Outputs)
    BY StageFields
  <2>2. Len(st.out) \in Nat /\ DOMAIN st.out = 1..Len(st.out)
    BY <2>1
  <2> QED BY <2>2
<1> QED BY <1>1, <1>2, ReapplyAtIs, ReapplyStays

LEMMA PressOutputIs ==
  ASSUME NEW n, NEW V, NEW st \in StageOf(n, V), NEW r \in Reapplied(n, V, st), NEW i \in 0..Len(st.out),
         NEW event \in OutEvents, NEW trigger \in AllKeys, NEW c \in Int
  PROVE  PressOutput(r, i, event, trigger, c) \in Keeps(n, V, st)
<1> DEFINE s == r.st
           new == [key |-> event.key, trigger |-> trigger, suppressed |-> FALSE,
                   released |-> FALSE, twice |-> FALSE, ctx |-> c]
           out == Append(s.out, new)
           added == [s EXCEPT !.out = out]
           e == Emit(s, Release(event.key))
           Again(z) == Lowered(z, i)
<1>1. s \in Keeps(n, V, st) /\ DOMAIN s.out = DOMAIN st.out
  BY DEF Reapplied
<1>2. PressOutput(r, i, event, trigger, c) \in
        {s, Emit(s, event), Emit(added, event)} \cup (IF i = 0 THEN {} ELSE
          {Emit(Once(Again(e), i), event),
           Emit(Twice(Again(s), i), event)})
  BY DEF PressOutput, Lowered, Once, Twice
<1> HIDE DEF s
<1>3. s \in StageOf(n, V) /\ Keeps(n, V, s) = Keeps(n, V, st) /\ (i # 0 => i \in DOMAIN s.out)
  <2>1. st.out \in Seq(Outputs)
    BY StageFields
  <2> QED BY <1>1, <2>1, KeepsIs
<1>4. ASSUME NEW z \in Keeps(n, V, s) PROVE Emit(z, event) \in Keeps(n, V, s)
  <2>1. z \in StageOf(n, V) /\ Keeps(n, V, z) = Keeps(n, V, s)
    BY <1>3, KeepsIs
  <2> QED BY <2>1, EmitIs
<1>5. event.key \in OutputKeys
  BY DEF OutEvents, EventsOf
<1>6. added \in Keeps(n, V, s)
  <2>1. new \in Outputs
    BY <1>5 DEF Outputs
  <2> HIDE DEF new
  <2>2. s.out \in Seq(Outputs)
    BY <1>3, StageFields
  <2>3. out \in Seq(Outputs)
    BY <2>1, <2>2
  <2> HIDE DEF out
  <2> QED BY <1>3, <2>3, SetOut
<1>7. e \in Keeps(n, V, s) /\ e.out = s.out
  BY <1>3, <1>5, PressIs, EmitIs DEF OutEvents
<1> HIDE DEF e, added
<1>8. ASSUME i # 0, NEW z \in Keeps(n, V, s), DOMAIN z.out = DOMAIN s.out
      PROVE  /\ Twice(Again(z), i) \in Keeps(n, V, s)
             /\ Once(Again(z), i) \in Keeps(n, V, s)
  <2>1. z \in StageOf(n, V) /\ Keeps(n, V, z) = Keeps(n, V, s)
    BY <1>3, KeepsIs
  <2>2. Again(z) \in Keeps(n, V, s) /\ DOMAIN Again(z).out = DOMAIN s.out
    BY <1>3, <1>8, <2>1, OutputChanges
  <2> DEFINE y == Again(z)
  <2> HIDE DEF y
  <2>3. y \in Keeps(n, V, s) /\ DOMAIN y.out = DOMAIN s.out
    BY <2>2 DEF y
  <2>4. y \in StageOf(n, V) /\ Keeps(n, V, y) = Keeps(n, V, s)
    BY <1>3, <2>3, KeepsIs
  <2>5. Twice(y, i) \in Keeps(n, V, s) /\ Once(y, i) \in Keeps(n, V, s)
    BY <1>3, <1>8, <2>3, <2>4, OutputChanges
  <2> QED BY <2>5 DEF y
<1>9. s \in Keeps(n, V, s)
  BY <1>3, KeepsSelf
<1>10. i # 0 => /\ Once(Again(e), i) \in Keeps(n, V, s)
                /\ Twice(Again(s), i) \in Keeps(n, V, s)
  BY <1>7, <1>8, <1>9
<1> DEFINE x1 == Once(Again(e), i)
           x2 == Twice(Again(s), i)
<1>11. (i # 0 => x1 \in Keeps(n, V, s) /\ x2 \in Keeps(n, V, s)) /\ PressOutput(r, i, event, trigger, c) \in
        {s, Emit(s, event), Emit(added, event)} \cup (IF i = 0 THEN {} ELSE {Emit(x1, event), Emit(x2, event)})
  BY <1>2, <1>10
<1> HIDE DEF x1, x2
<1> QED BY <1>3, <1>4, <1>6, <1>9, <1>11

LEMMA UpdateOutputIs ==
  ASSUME NEW n, NEW V, NEW st \in StageOf(n, V), NEW event \in OutEvents, NEW trigger \in AllKeys, NEW c \in Int
  PROVE  UpdateOutput(st, event, trigger, c) \in Keeps(n, V, st)
<1> DEFINE i == OutputIndex(st, event.key)
<1>1. i \in 0..Len(st.out)
  BY OutputIndexIs
<1>2. event.key \in OutputKeys
  BY DEF OutEvents, EventsOf
<1> HIDE DEF i
<1>3. UpdateOutputDown(st, i, event, trigger, c) \in Keeps(n, V, st)
  BY <1>1, ReapplyIs, PressOutputIs DEF UpdateOutputDown
<1>4. UpdateOutputAt(st, i, event, trigger, c) \in Keeps(n, V, st)
  BY <1>1, <1>2, <1>3, UpdateOutputUpIs, UpdateOutputNotIs, KeepsSelf DEF UpdateOutputAt
<1> QED BY <1>4 DEF UpdateOutput, i

-----------------------------------------------------------------------------
\* The updates an event of an output expression stands for, one by one.
OutputEvents == EventsOf(OutputKeys \cup {"any"})

LEMMA EventFields ==
  ASSUME NEW keys, NEW event \in EventsOf(keys)
  PROVE  event.key \in keys /\ event.state \in KeyStates /\ event.value \in 0..MaxTimeout
BY DEF EventsOf

LEMMA KeysAreOutputKeys ==
  /\ KeyboardKeys \subseteq OutputKeys /\ SeqKeys \subseteq OutputKeys /\ OutputKeys \subseteq AllKeys
  /\ SeqKeys \subseteq AllKeys /\ VirtualKeys \subseteq OutputKeys /\ DeviceKeys \subseteq SeqKeys
BY DEF OutputKeys, SeqKeys, AllKeys, DeviceKeys

LEMMA EventsWiden ==
  ASSUME NEW A, NEW B, A \subseteq B
  PROVE  EventsOf(A) \subseteq EventsOf(B)
BY DEF EventsOf

LEMMA ToggleEventsIs ==
  ASSUME NEW st, NEW event \in OutputEvents, event.key \in VirtualKeys
  PROVE  ToggleEvents(st, event) \in Seq(OutEvents)
<1>1. event.key \in OutputKeys
  BY KeysAreOutputKeys
<1>2. event \in OutEvents
  BY <1>1 DEF OutputEvents, OutEvents, EventsOf
<1>3. Press(event.key) \in OutEvents /\ Release(event.key) \in OutEvents
  BY <1>1, PressIs DEF OutEvents
<1> DEFINE p == Press(event.key)
           r == Release(event.key)
<1>4. ToggleEvents(st, event) \in {<<p, r>>, << >>, <<event>>}
  BY DEF ToggleEvents
<1> HIDE DEF p, r
<1>5. p \in OutEvents /\ r \in OutEvents
  BY <1>3 DEF p, r
<1>6. <<p, r>> \in Seq(OutEvents) /\ << >> \in Seq(OutEvents) /\ <<event>> \in Seq(OutEvents)
  BY <1>2, <1>5
<1> QED BY <1>4, <1>6, Zenon

LEMMA OutputUpdatesIs ==
  ASSUME NEW n, NEW V, NEW st \in StageOf(n, V), NEW event \in OutputEvents
  PROVE  OutputUpdates(st, event) \in Seq(OutEvents)
<1> DEFINE k == Map(st.out, LAMBDA o : o.key)
           keys == IF event.state = "Not" THEN k ELSE st.anyKeys
           all == Map(keys, LAMBDA key : Event(key, event.state))
<1>1. k \in Seq(OutputKeys)
  <2>1. st.out \in Seq(Outputs)
    BY StageFields
  <2>2. Len(st.out) \in Nat /\ DOMAIN st.out = 1..Len(st.out) /\ \A i \in DOMAIN st.out : st.out[i] \in Outputs
    BY <2>1
  <2>3. [i \in DOMAIN st.out |-> st.out[i].key] \in [1..Len(st.out) -> OutputKeys]
    BY <2>2 DEF Outputs
  <2> QED BY <2>2, <2>3, MapIs DEF Map
<1> HIDE DEF k
<1>2. keys \in Seq(OutputKeys)
  <2>1. st.anyKeys \in Seq(KeyboardKeys)
    BY StageFields
  <2>2. st.anyKeys \in Seq(OutputKeys)
    BY <2>1, KeysAreOutputKeys, SeqMonotone
  <2> QED BY <1>1, <2>2
<1> HIDE DEF keys
<1>3. all \in Seq(OutEvents)
  <2>1. Len(keys) \in Nat /\ DOMAIN keys = 1..Len(keys) /\ \A i \in DOMAIN keys : keys[i] \in OutputKeys
    BY <1>2
  <2>2. event.state \in KeyStates
    BY EventFields DEF OutputEvents
  <2>3. \A i \in DOMAIN keys : Event(keys[i], event.state) \in OutEvents
    BY <2>1, <2>2, EventIs DEF OutEvents
  <2>4. [i \in DOMAIN keys |-> Event(keys[i], event.state)] \in [1..Len(keys) -> OutEvents]
    BY <2>1, <2>3
  <2> QED BY <2>1, <2>4, MapIs DEF Map
<1>4. OutputUpdates(st, event) =
        IF event.key = "any" THEN all ELSE IF event.key \in VirtualKeys THEN ToggleEvents(st, event) ELSE <<event>>
  BY DEF OutputUpdates, keys, k
<1> HIDE DEF all
<1>5. event.key # "any" => event \in OutEvents
  BY DEF OutputEvents, OutEvents, EventsOf
<1> QED BY <1>3, <1>4, <1>5, ToggleEventsIs

LEMMA TimeoutFields ==
  ASSUME NEW n, NEW t \in Timeouts(n)
  PROVE  /\ t.event \in EventsOf(AllKeys) /\ t.trigger \in AllKeys /\ t.matched \in References(n) \cup {<< >>}
         /\ [t EXCEPT !.virtualKeysChanged = TRUE] \in Timeouts(n)
         /\ [t EXCEPT !.notExceeded = FALSE] \in Timeouts(n)
         /\ [t EXCEPT !.notExceeded = TRUE] \in Timeouts(n)
         /\ t.notExceeded \in BOOLEAN
BY DEF Timeouts

LEMMA NoTimeoutIs ==
  ASSUME NEW n
  PROVE  NoTimeout \in Timeouts(n)
<1>1. NoEvent \in EventsOf(AllKeys) /\ "none" \in AllKeys
  BY PressIs DEF NoEvent, AllKeys
<1> QED BY <1>1 DEF NoTimeout, Timeouts

LEMMA NoteVirtualKeyIs ==
  ASSUME NEW n, NEW V, NEW st \in StageOf(n, V), NEW event
  PROVE  NoteVirtualKey(st, event) \in Keeps(n, V, st)
<1> DEFINE t == [st.timeout EXCEPT !.virtualKeysChanged = TRUE]
<1>1. t \in Timeouts(n)
  BY StageFields, TimeoutFields
<1>2. NoteVirtualKey(st, event) \in {st, [st EXCEPT !.timeout = t]}
  BY DEF NoteVirtualKey
<1> HIDE DEF t
<1> QED BY <1>1, <1>2, SetTimeout, KeepsSelf

LEMMA ApplyOutputEventStays ==
  ASSUME NEW st, NEW event, NEW trigger, NEW c, NEW S, NEW E,
         NoteVirtualKey(st, event) \in S, OutputUpdates(st, event) \in Seq(E),
         \A x \in S : \A e \in E : UpdateOutput(x, e, trigger.key, c) \in S
  PROVE  ApplyOutputEvent(st, event, trigger, c) \in S
<1> DEFINE seq == OutputUpdates(st, event)
           n == Len(seq)
           base == NoteVirtualKey(st, event)
           Op(x, e) == UpdateOutput(x, e, trigger.key, c)
           G == [i \in 1..n |-> [x \in S |-> Op(x, seq[i])]]
           Is(f) == f = [s \in SUBSET (1..n) |->
                           IF s = {} THEN base ELSE Op(f[s \ {Max(s)}], seq[Max(s)])]
<1>0. seq \in Seq(E)
  OBVIOUS
<1> HIDE DEF seq
<1>1. n \in Nat /\ DOMAIN seq = 1..n /\ \A i \in 1..n : seq[i] \in E
  BY <1>0
<1>2. \A i \in 1..n : \A x \in S : G[i][x] = Op(x, seq[i]) /\ G[i][x] \in S
  <2>1. \A x \in S : \A e \in E : Op(x, e) \in S
    OBVIOUS
  <2> HIDE DEF Op
  <2> QED BY <1>1, <2>1
<1>3. ApplyOutputEvent(st, event, trigger, c) = (CHOOSE f : Is(f))[1..n]
  BY <1>1 DEF ApplyOutputEvent, seq, FoldLeft, MapThenFoldSet
<1>4. base \in S
  OBVIOUS
<1> HIDE DEF G, Op, base
<1>5. \E f : Is(f)
  <2>1. PICK f : FoldsIn(f, n, S, base, G)
    BY <1>1, <1>2, <1>4, FoldIn
  <2>2. Is(f)
    BY <1>2, <2>1 DEF FoldsIn
  <2> QED BY <2>2
<1>6. ASSUME NEW f, Is(f) PROVE f[1..n] \in S
  <2>1. f[{}] = base
    BY <1>6
  <2>2. ASSUME NEW k \in 1..n PROVE f[1..k] = Op(f[1..(k - 1)], seq[k])
    <3>1. /\ 1..k \in SUBSET (1..n) /\ 1..k # {} /\ Max(1..k) = k
          /\ (1..k) \ {Max(1..k)} = 1..(k - 1)
      BY <1>1, FoldStep
    <3>2. f[1..k] = Op(f[(1..k) \ {Max(1..k)}], seq[Max(1..k)])
      BY <1>6, <3>1
    <3> QED BY <3>1, <3>2
  <2>3. ASSUME NEW k \in 1..n, f[1..(k - 1)] \in S PROVE f[1..k] \in S
    <3>1. Op(f[1..(k - 1)], seq[k]) \in S
      BY <1>2, <2>3
    <3> QED BY <2>2, <3>1
  <2> QED BY <1>1, <1>4, <2>1, <2>3, FoldStays
<1> HIDE DEF Is
<1> QED BY <1>3, <1>5, <1>6

LEMMA ApplyOutputEventIs ==
  ASSUME NEW n, NEW V, NEW st \in StageOf(n, V), NEW event \in OutputEvents, NEW trigger \in EventsOf(AllKeys), NEW c \in Int
  PROVE  ApplyOutputEvent(st, event, trigger, c) \in Keeps(n, V, st)
<1>1. ASSUME NEW s \in Keeps(n, V, st), NEW ev \in OutEvents
      PROVE  UpdateOutput(s, ev, trigger.key, c) \in Keeps(n, V, st)
  <2>1. s \in StageOf(n, V) /\ Keeps(n, V, s) = Keeps(n, V, st)
    BY KeepsIs
  <2> QED BY <2>1, UpdateOutputIs, EventFields
<1>2. NoteVirtualKey(st, event) \in Keeps(n, V, st) /\ OutputUpdates(st, event) \in Seq(OutEvents)
  BY NoteVirtualKeyIs, OutputUpdatesIs
<1> QED BY <1>1, <1>2, ApplyOutputEventStays

\* The start of an output expression that is output, and its outcome.
Started(sequence, split) ==
  Select(IF split = 0 THEN sequence ELSE SubSeq(sequence, 1, split - 1), LAMBDA ev : ~IsOutputOnRelease(ev))
StartedOutput(st, sequence, split, trigger, c) ==
  FoldLeft(LAMBDA s, ev : ApplyOutputEvent(s, ev, trigger, c), st, Started(sequence, split))

LEMMA StartedOutputStays ==
  ASSUME NEW st, NEW sequence, NEW split, NEW trigger, NEW c, NEW S, NEW E,
         st \in S, Started(sequence, split) \in Seq(E),
         \A x \in S : \A e \in E : ApplyOutputEvent(x, e, trigger, c) \in S
  PROVE  StartedOutput(st, sequence, split, trigger, c) \in S
<1> DEFINE seq == Started(sequence, split)
           n == Len(seq)
           Op(x, e) == ApplyOutputEvent(x, e, trigger, c)
           G == [i \in 1..n |-> [x \in S |-> Op(x, seq[i])]]
           Is(f) == f = [s \in SUBSET (1..n) |->
                           IF s = {} THEN st ELSE Op(f[s \ {Max(s)}], seq[Max(s)])]
<1>0. seq \in Seq(E)
  OBVIOUS
<1> HIDE DEF seq
<1>1. n \in Nat /\ DOMAIN seq = 1..n /\ \A i \in 1..n : seq[i] \in E
  BY <1>0
<1>2. \A i \in 1..n : \A x \in S : G[i][x] = Op(x, seq[i]) /\ G[i][x] \in S
  <2>1. \A x \in S : \A e \in E : Op(x, e) \in S
    OBVIOUS
  <2> HIDE DEF Op
  <2> QED BY <1>1, <2>1
<1>3. StartedOutput(st, sequence, split, trigger, c) = (CHOOSE f : Is(f))[1..n]
  BY <1>1 DEF StartedOutput, seq, FoldLeft, MapThenFoldSet
<1>4. st \in S
  OBVIOUS
<1> HIDE DEF G, Op
<1>5. \E f : Is(f)
  <2>1. PICK f : FoldsIn(f, n, S, st, G)
    BY <1>1, <1>2, <1>4, FoldIn
  <2>2. Is(f)
    BY <1>2, <2>1 DEF FoldsIn
  <2> QED BY <2>2
<1>6. ASSUME NEW f, Is(f) PROVE f[1..n] \in S
  <2>1. f[{}] = st
    BY <1>6
  <2>2. ASSUME NEW k \in 1..n PROVE f[1..k] = Op(f[1..(k - 1)], seq[k])
    <3>1. /\ 1..k \in SUBSET (1..n) /\ 1..k # {} /\ Max(1..k) = k
          /\ (1..k) \ {Max(1..k)} = 1..(k - 1)
      BY <1>1, FoldStep
    <3>2. f[1..k] = Op(f[(1..k) \ {Max(1..k)}], seq[Max(1..k)])
      BY <1>6, <3>1
    <3> QED BY <3>1, <3>2
  <2>3. ASSUME NEW k \in 1..n, f[1..(k - 1)] \in S PROVE f[1..k] \in S
    <3>1. Op(f[1..(k - 1)], seq[k]) \in S
      BY <1>2, <2>3
    <3> QED BY <2>2, <3>1
  <2> QED BY <1>1, <1>4, <2>1, <2>3, FoldStays
<1> HIDE DEF Is
<1> QED BY <1>3, <1>5, <1>6

LEMMA StartedIs ==
  ASSUME NEW sequence \in OutputExpressions, NEW split \in 0..Len(sequence)
  PROVE  Started(sequence, split) \in Seq(OutputEvents)
<1> DEFINE X == OutputEvents \cup {Event("none", "OutputOnRelease")}
           start == IF split = 0 THEN sequence ELSE SubSeq(sequence, 1, split - 1)
           positions == {i \in DOMAIN start : ~IsOutputOnRelease(start[i])}
<1>1. sequence \in Seq(X)
  BY DEF OutputExpressions, OutputEvents
<1>2. start \in Seq(X)
  BY <1>1
<1>3. Event("none", "OutputOnRelease").state = "OutputOnRelease"
  BY DEF Event
<1>4. Started(sequence, split) = ElementsAt(start, positions)
  BY DEF Started, Select
<1> HIDE DEF start
<1>5. \A i \in DOMAIN start : i \in positions => start[i] \in OutputEvents
  BY <1>2, <1>3 DEF IsOutputOnRelease
<1> HIDE DEF positions
<1> QED BY <1>2, <1>4, <1>5, ElementsAtIs

LEMMA FromIs ==
  ASSUME NEW X, NEW seq \in Seq(X), NEW i \in 1..(Len(seq) + 1)
  PROVE  From(seq, i) \in Seq(X) /\ Len(From(seq, i)) = Len(seq) - i + 1
BY DEF From

\* A virtual key that is pressed is one that may be waited for.
MayHold(V, trigger) == trigger.state = "Down" /\ trigger.key \in VirtualKeys => trigger.key \in V.held

LEMMA ApplyUntilIs ==
  ASSUME NEW n, NEW V, NEW st \in StageOf(n, V), NEW sequence \in OutputExpressions, NEW split \in 0..Len(sequence),
         NEW trigger \in EventsOf(AllKeys), NEW c \in Int,
         split # 0 => (trigger.key \in VirtualKeys => trigger.key \in V.held)
  PROVE  ApplyUntil(st, sequence, split, trigger, c) \in Keeps(n, V, st)
<1> DEFINE s == StartedOutput(st, sequence, split, trigger, c)
           new == [trigger |-> trigger.key, rest |-> From(sequence, split + 1), ctx |-> c]
           o == IF split = 0 THEN s.onRelease ELSE Append(s.onRelease, new)
<1>1. ApplyUntil(st, sequence, split, trigger, c) = [s EXCEPT !.onRelease = o]
  BY DEF ApplyUntil, StartedOutput, Started
<1>2. s \in Keeps(n, V, st)
  <2>1. ASSUME NEW z \in Keeps(n, V, st), NEW ev \in OutputEvents
        PROVE  ApplyOutputEvent(z, ev, trigger, c) \in Keeps(n, V, st)
    <3>1. z \in StageOf(n, V) /\ Keeps(n, V, z) = Keeps(n, V, st)
      BY KeepsIs
    <3> QED BY <3>1, ApplyOutputEventIs
  <2>2. st \in Keeps(n, V, st) /\ Started(sequence, split) \in Seq(OutputEvents)
    BY KeepsSelf, StartedIs
  <2> QED BY <2>1, <2>2, StartedOutputStays
<1> HIDE DEF s
<1>3. s \in StageOf(n, V) /\ Keeps(n, V, s) = Keeps(n, V, st)
  BY <1>2, KeepsIs
<1>4. split # 0 => new \in ContinuationsOf(V.held)
  <2>1. trigger.key \in AllKeys
    BY EventFields
  <2>2. split # 0 => From(sequence, split + 1) \in OutputExpressions
    BY FromIs DEF OutputExpressions
  <2> QED BY <2>1, <2>2 DEF Continuations, ContinuationsOf
<1> HIDE DEF new
<1>5. s.onRelease \in Seq(ContinuationsOf(V.held))
  BY <1>3, StageFields
<1>6. o \in Seq(ContinuationsOf(V.held))
  <2> DEFINE C == ContinuationsOf(V.held)
  <2>1. (split # 0 => new \in C) /\ s.onRelease \in Seq(C)
    BY <1>4, <1>5
  <2> HIDE DEF C
  <2>2. split # 0 => Append(s.onRelease, new) \in Seq(C)
    BY <2>1
  <2>3. o \in Seq(C)
    BY <2>1, <2>2
  <2> QED BY <2>3 DEF C
<1> HIDE DEF o
<1>7. [s EXCEPT !.onRelease = o] \in Keeps(n, V, s)
  BY <1>3, <1>6, SetOnRelease
<1> QED BY <1>1, <1>3, <1>7

LEMMA ApplyOutputIs ==
  ASSUME NEW n, NEW V, NEW st \in StageOf(n, V), NEW sequence \in OutputExpressions, NEW trigger \in EventsOf(AllKeys), NEW c \in Int,
         (\E i \in DOMAIN sequence : IsOutputOnRelease(sequence[i])) => MayHold(V, trigger)
  PROVE  ApplyOutput(st, sequence, trigger, c) \in Keeps(n, V, st)
<1> DEFINE at == {i \in DOMAIN sequence : trigger.state = "Down" /\ IsOutputOnRelease(sequence[i])}
<1>1. at \in SUBSET (1..Len(sequence)) /\ Len(sequence) \in Nat
  BY DEF OutputExpressions
<1>2. FirstOf(at) \in 0..Len(sequence)
  BY <1>1, FirstOfIs
<1>3. FirstOf(at) # 0 => (trigger.key \in VirtualKeys => trigger.key \in V.held)
  <2>1. at = {} => FirstOf(at) = 0
    BY <1>1, FirstOfIs
  <2> QED BY <2>1 DEF MayHold
<1> QED BY <1>2, <1>3, ApplyUntilIs DEF ApplyOutput

LEMMA SelectIs ==
  ASSUME NEW X, NEW seq \in Seq(X), NEW positions
  PROVE  /\ ElementsAt(seq, positions) \in Seq(X) /\ Len(ElementsAt(seq, positions)) <= Len(seq)
         /\ Reverse(ElementsAt(seq, positions)) \in Seq(X)
<1> DEFINE s == ElementsAt(seq, positions)
<1>1. s \in Seq(X) /\ Len(s) <= Len(seq)
  BY ElementsAtIn
<1> HIDE DEF s
<1>2. Reverse(s) \in Seq(X)
  BY <1>1 DEF Reverse
<1> QED BY <1>1, <1>2 DEF s

\* What is mapped to a key that is released is released, too.
LEMMA ReleaseTriggeredIs ==
  ASSUME NEW n, NEW V, NEW st \in StageOf(n, V), NEW key, NEW c
  PROVE  ReleaseTriggered(st, key, c) \in Keeps(n, V, st)
<1> DEFINE out == Select(st.out, LAMBDA o : ~IsTriggeredBy(o, key, c))
           up == Reverse(Select(st.out, LAMBDA o : IsTriggeredBy(o, key, c) /\ ~o.released))
           buf == st.buf \o Map(up, LAMBDA o : Release(o.key))
           timeout == IF st.timeout # NoTimeout /\ st.timeout.trigger = key THEN NoTimeout ELSE st.timeout
           s1 == [st EXCEPT !.out = out]
           s2 == [s1 EXCEPT !.buf = buf]
<1>1. st.out \in Seq(Outputs) /\ st.buf \in Seq(OutEvents) /\ st.timeout \in Timeouts(n)
  BY StageFields
<1>2. out \in Seq(Outputs) /\ up \in Seq(Outputs)
  BY <1>1, SelectIs DEF Select
<1>3. ReleaseTriggered(st, key, c) = [s2 EXCEPT !.timeout = timeout]
  BY DEF ReleaseTriggered
<1> HIDE DEF out, up
<1>4. Map(up, LAMBDA o : Release(o.key)) \in Seq(OutEvents)
  <2>1. Len(up) \in Nat /\ DOMAIN up = 1..Len(up) /\ \A i \in DOMAIN up : up[i] \in Outputs
    BY <1>2
  <2>2. \A i \in DOMAIN up : up[i].key \in OutputKeys
    BY <2>1 DEF Outputs
  <2>3. \A i \in DOMAIN up : Release(up[i].key) \in OutEvents
    BY <2>2, PressIs DEF OutEvents
  <2>4. [i \in DOMAIN up |-> Release(up[i].key)] \in [1..Len(up) -> OutEvents]
    BY <2>1, <2>3
  <2> QED BY <2>1, <2>4, MapIs DEF Map
<1>5. buf \in Seq(OutEvents) /\ timeout \in Timeouts(n)
  BY <1>1, <1>4, NoTimeoutIs
<1> HIDE DEF buf, timeout, s1, s2
<1>6. s1 \in Keeps(n, V, st) /\ s1 \in StageOf(n, V) /\ Keeps(n, V, s1) = Keeps(n, V, st)
  BY <1>2, SetOut, KeepsIs DEF s1
<1>7. s2 \in Keeps(n, V, st) /\ s2 \in StageOf(n, V) /\ Keeps(n, V, s2) = Keeps(n, V, st)
  BY <1>5, <1>6, SetBuf, KeepsIs DEF s2
<1> QED BY <1>3, <1>5, <1>7, SetTimeout

LEMMA ReleaseOutputIs ==
  ASSUME NEW n, NEW V, NEW st \in StageOf(n, V), NEW event, NEW c
  PROVE  ReleaseOutput(st, event, c) \in Keeps(n, V, st)
BY ReleaseTriggeredIs, KeepsSelf DEF ReleaseOutput

\* Sequences to output: what waited for a release, or a context that became active.
ToOutput == Continuations \cup [rest : OutputExpressions, ctx : Int]

LEMMA ApplyOutputsStays ==
  ASSUME NEW st, NEW outputs, NEW event, NEW S, NEW E,
         st \in S, outputs \in Seq(E),
         \A x \in S : \A e \in E : ApplyOutput(x, e.rest, event, e.ctx) \in S
  PROVE  ApplyOutputs(st, outputs, event) \in S
<1> DEFINE n == Len(outputs)
           Op(x, e) == ApplyOutput(x, e.rest, event, e.ctx)
           G == [i \in 1..n |-> [x \in S |-> Op(x, outputs[i])]]
           Is(f) == f = [s \in SUBSET (1..n) |->
                           IF s = {} THEN st ELSE Op(f[s \ {Max(s)}], outputs[Max(s)])]
<1>1. n \in Nat /\ DOMAIN outputs = 1..n /\ \A i \in 1..n : outputs[i] \in E
  OBVIOUS
<1>2. \A i \in 1..n : \A x \in S : G[i][x] = Op(x, outputs[i]) /\ G[i][x] \in S
  <2>1. \A x \in S : \A e \in E : Op(x, e) \in S
    OBVIOUS
  <2> HIDE DEF Op
  <2> QED BY <1>1, <2>1
<1>3. ApplyOutputs(st, outputs, event) = (CHOOSE f : Is(f))[1..n]
  BY <1>1 DEF ApplyOutputs, FoldLeft, MapThenFoldSet
<1>4. st \in S
  OBVIOUS
<1> HIDE DEF G, Op
<1>5. \E f : Is(f)
  <2>1. PICK f : FoldsIn(f, n, S, st, G)
    BY <1>1, <1>2, <1>4, FoldIn
  <2>2. Is(f)
    BY <1>2, <2>1 DEF FoldsIn
  <2> QED BY <2>2
<1>6. ASSUME NEW f, Is(f) PROVE f[1..n] \in S
  <2>1. f[{}] = st
    BY <1>6
  <2>2. ASSUME NEW k \in 1..n PROVE f[1..k] = Op(f[1..(k - 1)], outputs[k])
    <3>1. /\ 1..k \in SUBSET (1..n) /\ 1..k # {} /\ Max(1..k) = k
          /\ (1..k) \ {Max(1..k)} = 1..(k - 1)
      BY <1>1, FoldStep
    <3>2. f[1..k] = Op(f[(1..k) \ {Max(1..k)}], outputs[Max(1..k)])
      BY <1>6, <3>1
    <3> QED BY <3>1, <3>2
  <2>3. ASSUME NEW k \in 1..n, f[1..(k - 1)] \in S PROVE f[1..k] \in S
    <3>1. Op(f[1..(k - 1)], outputs[k]) \in S
      BY <1>2, <2>3
    <3> QED BY <2>2, <3>1
  <2> QED BY <1>1, <1>4, <2>1, <2>3, FoldStays
<1> HIDE DEF Is
<1> QED BY <1>3, <1>5, <1>6

LEMMA ApplyOutputsIs ==
  ASSUME NEW n, NEW V, NEW st \in StageOf(n, V), NEW event \in EventsOf(AllKeys),
         NEW outputs \in Seq({o \in ToOutput : MayHold(V, event)})
  PROVE  ApplyOutputs(st, outputs, event) \in Keeps(n, V, st)
<1>1. ASSUME NEW s \in Keeps(n, V, st), NEW o \in {p \in ToOutput : MayHold(V, event)}
      PROVE  ApplyOutput(s, o.rest, event, o.ctx) \in Keeps(n, V, st)
  <2>1. s \in StageOf(n, V) /\ Keeps(n, V, s) = Keeps(n, V, st)
    BY KeepsIs
  <2>2. o.rest \in OutputExpressions /\ o.ctx \in Int
    BY DEF ToOutput, Continuations
  <2> QED BY <2>1, <2>2, ApplyOutputIs
<1> QED BY <1>1, KeepsSelf, ApplyOutputsStays

LEMMA WaitingIs ==
  ASSUME NEW n, NEW V, NEW st \in StageOf(n, V), NEW event, NEW c
  PROVE  /\ Waiting(st, event, c) \in Seq({o \in Continuations : event.state = "Up"})
         /\ NotWaiting(st, event, c) \in Keeps(n, V, st)
<1> DEFINE rest == Select(st.onRelease, LAMBDA o : event.state # "Up" \/ ~IsTriggeredBy(o, event.key, c))
<1>1. st.onRelease \in Seq(ContinuationsOf(V.held))
  BY StageFields
<1>2. Waiting(st, event, c) \in Seq({o \in Continuations : event.state = "Up"})
  <2> DEFINE P == {i \in DOMAIN st.onRelease : event.state = "Up" /\ IsTriggeredBy(st.onRelease[i], event.key, c)}
  <2>1. Waiting(st, event, c) = ElementsAt(st.onRelease, P)
    BY DEF Waiting, Select
  <2>2. \A i \in DOMAIN st.onRelease : i \in P => st.onRelease[i] \in {o \in Continuations : event.state = "Up"}
    BY <1>1 DEF ContinuationsOf
  <2> HIDE DEF P
  <2> QED BY <1>1, <2>1, <2>2, ElementsAtIs
<1>3. rest \in Seq(ContinuationsOf(V.held))
  BY <1>1, SelectIs DEF Select
<1>4. NotWaiting(st, event, c) = [st EXCEPT !.onRelease = rest]
  BY DEF NotWaiting
<1> HIDE DEF rest
<1>5. NotWaiting(st, event, c) \in Keeps(n, V, st)
  <2>1. [st EXCEPT !.onRelease = rest] \in Keeps(n, V, st)
    BY <1>3, SetOnRelease
  <2> QED BY <1>4, <2>1
<1> QED BY <1>2, <1>5

\* While an event is handled: what waits for the release of the key has ended.
During(down, event) == [down |-> down, held |-> down \cap After(down, event)]

LEMMA NotWaitingIs ==
  ASSUME NEW n, NEW W \in SUBSET VirtualKeys, NEW st \in StageOf(n, Both(W)), NEW event, NEW c
  PROVE  /\ NotWaiting(st, event, c) \in StageOf(n, During(W, event))
         /\ NotWaiting(st, event, c).seq = st.seq /\ NotWaiting(st, event, c).might = st.might
<1> DEFINE P == {i \in DOMAIN st.onRelease :
                   event.state # "Up" \/ ~IsTriggeredBy(st.onRelease[i], event.key, c)}
           rest == ElementsAt(st.onRelease, P)
           held == W \cap After(W, event)
<1>1. st.onRelease \in Seq(ContinuationsOf(W)) /\ Knows(st.seq, W)
  BY StageFields DEF Both
<1>2. \A i \in DOMAIN st.onRelease : i \in P => st.onRelease[i] \in ContinuationsOf(held)
  <2>1. "ContextActive" \notin VirtualKeys
    BY KeyKindsAreDisjoint
  <2> QED BY <1>1, <2>1 DEF ContinuationsOf, IsTriggeredBy, After
<1>3. NotWaiting(st, event, c) = [st EXCEPT !.onRelease = rest]
  BY DEF NotWaiting, Select
<1> HIDE DEF P, held
<1>4. rest \in Seq(ContinuationsOf(held))
  BY <1>1, <1>2, ElementsAtIs
<1> HIDE DEF rest
<1>5. During(W, event).held = held /\ During(W, event).down = W
  BY DEF During, held
<1>6. [st EXCEPT !.onRelease = rest] \in StageOf(n, During(W, event))
  BY <1>1, <1>4, <1>5 DEF StageOf
<1>7. [st EXCEPT !.onRelease = rest].seq = st.seq /\ [st EXCEPT !.onRelease = rest].might = st.might
  BY DEF StageOf
<1> QED BY <1>3, <1>6, <1>7

LEMMA ContinueOutputOnReleaseIs ==
  ASSUME NEW n, NEW W \in SUBSET VirtualKeys, NEW st \in StageOf(n, Both(W)), NEW event \in EventsOf(AllKeys), NEW c
  PROVE  /\ ContinueOutputOnRelease(st, event, c) \in StageOf(n, During(W, event))
         /\ ContinueOutputOnRelease(st, event, c).seq = st.seq
         /\ ContinueOutputOnRelease(st, event, c).might = st.might
<1> DEFINE s == NotWaiting(st, event, c)
           V == During(W, event)
           w == Waiting(st, event, c)
           r == ApplyOutputs(s, w, event)
<1>1. s \in StageOf(n, V) /\ s.seq = st.seq /\ s.might = st.might
  BY NotWaitingIs
<1>2. w \in Seq({o \in ToOutput : MayHold(V, event)})
  <2>1. w \in Seq({o \in Continuations : event.state = "Up"})
    BY WaitingIs
  <2>2. {o \in Continuations : event.state = "Up"} \subseteq {o \in ToOutput : MayHold(V, event)}
    BY DEF ToOutput, MayHold
  <2> HIDE DEF w, V
  <2> QED BY <2>1, <2>2, SeqMonotone
<1>3. ContinueOutputOnRelease(st, event, c) = r
  BY DEF ContinueOutputOnRelease
<1> HIDE DEF s, V, w
<1>4. r \in Keeps(n, V, s)
  BY <1>1, <1>2, ApplyOutputsIs
<1> HIDE DEF r
<1>5. r \in StageOf(n, V) /\ r.seq = s.seq /\ r.might = s.might
  BY <1>1, <1>4, KeepsIs
<1> QED BY <1>1, <1>3, <1>5 DEF V

-----------------------------------------------------------------------------
\* The contexts of a stage, as the parser makes them.
LEMMA ContextIs ==
  ASSUME NEW n \in DOMAIN Contexts, NEW c \in DOMAIN Contexts[n]
  PROVE  /\ Len(Contexts[n]) \in Nat /\ DOMAIN Contexts[n] = 1..Len(Contexts[n])
         /\ Contexts[n][c].inputs \in Seq([input : InputExpressions, output : Int])
         /\ Contexts[n][c].outputs \in Seq(OutputExpressions)
         /\ \A command \in DOMAIN Contexts[n][c].commands :
              command < 0 /\ Contexts[n][c].commands[command] \in OutputExpressions
         /\ \A i \in DOMAIN Contexts[n][c].inputs : Contexts[n][c].inputs[i].output < Len(Contexts[n][c].outputs)
         /\ Contexts[n][c].fallthrough => c < Len(Contexts[n])
<1>1. Contexts[n] \in Seq(ToSet(Contexts[n]))
  BY ContextsAreParsed
<1>2. Len(Contexts[n]) \in Nat /\ DOMAIN Contexts[n] = 1..Len(Contexts[n])
  BY <1>1
<1> QED BY <1>2, ContextsAreParsed

LEMMA FallthroughIs ==
  ASSUME NEW n \in DOMAIN Contexts, NEW V, NEW st \in StageOf(n, V), NEW c \in DOMAIN Contexts[n]
  PROVE  Fallthrough(st, c) \in DOMAIN Contexts[n]
<1> DEFINE m == Len(Contexts[n])
           ends == {d \in DOMAIN Contexts[n] : d >= c /\ ~Contexts[n][d].fallthrough}
<1>1. m \in Nat /\ DOMAIN Contexts[n] = 1..m
  BY ContextIs
<1>2. Fallthrough(st, c) = FirstOf(ends)
  <2>1. st.stage = n
    BY StageFields
  <2> QED BY <2>1 DEF Fallthrough, Context
<1>3. m \in ends
  <2>1. m \in DOMAIN Contexts[n] /\ m >= c
    BY <1>1
  <2>2. ~Contexts[n][m].fallthrough
    BY <2>1, <1>1, ContextIs
  <2> QED BY <2>1, <2>2
<1>4. ends \in SUBSET (1..m)
  BY <1>1
<1> HIDE DEF ends, m
<1>5. FirstOf(ends) \in ends
  BY <1>1, <1>3, <1>4, FirstOfIs
<1> QED BY <1>1, <1>2, <1>4, <1>5

LEMMA FindOutputIs ==
  ASSUME NEW n \in DOMAIN Contexts, NEW V, NEW st \in StageOf(n, V), NEW c \in DOMAIN Contexts[n],
         NEW output \in Int, output < Len(Contexts[n][c].outputs)
  PROVE  FindOutput(st, c, output) \in References(n) \cup {<< >>}
<1> DEFINE D == DOMAIN Contexts[n]
           Overrides(a) == output \in DOMAIN Contexts[n][Fallthrough(st, a)].commands
           overriding == ElementsAt(st.active, {i \in DOMAIN st.active : Overrides(st.active[i])})
           last == Fallthrough(st, Last(overriding))
<1>1. st.active \in Seq(D) /\ st.stage = n
  BY StageFields
<1>2. overriding \in Seq({a \in D : Overrides(a)})
  <2>1. \A i \in DOMAIN st.active : st.active[i] \in D
    BY <1>1
  <2> DEFINE Y == {a \in D : Overrides(a)}
             positions == {i \in DOMAIN st.active : Overrides(st.active[i])}
  <2>2. \A i \in DOMAIN st.active : i \in positions => st.active[i] \in Y
    BY <2>1
  <2> HIDE DEF Y, positions
  <2>3. ElementsAt(st.active, positions) \in Seq(Y)
    BY <1>1, <2>2, ElementsAtIs
  <2> QED BY <2>3 DEF Y, positions
<1>3. FindOutput(st, c, output) = IF output >= 0 THEN <<c, output>>
                                  ELSE IF overriding = << >> THEN << >> ELSE <<last, output>>
  BY <1>1 DEF FindOutput, Select, Context
<1>4. ASSUME output < 0, overriding # << >> PROVE last \in D /\ output \in DOMAIN Contexts[n][last].commands
  <2> HIDE DEF overriding
  <2>1. Last(overriding) \in {a \in D : Overrides(a)}
    BY <1>2, <1>4 DEF Last
  <2>2. Last(overriding) \in D /\ Overrides(Last(overriding))
    BY <2>1
  <2> QED BY <2>2, FallthroughIs
<1>5. output >= 0 => output + 1 \in DOMAIN Contexts[n][c].outputs
  <2>1. Contexts[n][c].outputs \in Seq(OutputExpressions)
    BY ContextIs
  <2> QED BY <2>1
<1> HIDE DEF overriding, last, Overrides
<1> QED BY <1>3, <1>4, <1>5 DEF References

LEMMA OutputSequenceIs ==
  ASSUME NEW n \in DOMAIN Contexts, NEW V, NEW st \in StageOf(n, V), NEW found \in References(n)
  PROVE  OutputSequence(st, found) \in OutputExpressions
<1>1. /\ found[1] \in DOMAIN Contexts[n]
      /\ IF found[2] >= 0 THEN found[2] + 1 \in DOMAIN Contexts[n][found[1]].outputs
                          ELSE found[2] \in DOMAIN Contexts[n][found[1]].commands
  BY DEF References
<1>2. st.stage = n
  BY StageFields
<1>3. Contexts[n][found[1]].outputs \in Seq(OutputExpressions)
  BY <1>1, ContextIs
<1> QED BY <1>1, <1>2, <1>3, ContextIs DEF OutputSequence, Context

LEMMA OnContextActiveEventIs ==
  ASSUME NEW n \in DOMAIN Contexts, NEW V, NEW st \in StageOf(n, V), NEW c \in DOMAIN Contexts[n],
         NEW event \in EventsOf(AllKeys), event.key = "ContextActive"
  PROVE  OnContextActiveEvent(st, event, c) \in Keeps(n, V, st)
<1> DEFINE i == ContextActiveInput(st, c)
           found == FindOutput(st, c, Contexts[n][c].inputs[i].output)
           outputs == Waiting(st, event, c) \o ActivationOutput(st, event, c, found)
           s == NotWaiting(st, event, c)
           r == ApplyOutputs(s, outputs, event)
<1>1. st.stage = n
  BY StageFields
<1>2. i \in 0..Len(Contexts[n][c].inputs)
  <2> DEFINE inputs == Contexts[n][c].inputs
             positions == {j \in DOMAIN inputs : inputs[j].input[1].key = "ContextActive"}
  <2>1. inputs \in Seq([input : InputExpressions, output : Int])
    BY ContextIs
  <2>2. Len(inputs) \in Nat /\ positions \in SUBSET (1..Len(inputs))
    BY <2>1
  <2>3. i = FirstOf(positions)
    BY <1>1 DEF ContextActiveInput, Context
  <2> QED BY <2>2, <2>3, FirstOfIs
<1>3. OnContextActiveEvent(st, event, c) = IF i = 0 THEN st ELSE ReleaseOutput(r, event, c)
  BY <1>1 DEF OnContextActiveEvent, Context
<1> HIDE DEF i
<1>4. i # 0 => found \in References(n) \cup {<< >>}
  <2> SUFFICES ASSUME i # 0 PROVE found \in References(n) \cup {<< >>}
    OBVIOUS
  <2> DEFINE inputs == Contexts[n][c].inputs
  <2>1. inputs \in Seq([input : InputExpressions, output : Int])
    BY ContextIs
  <2>2. i \in DOMAIN inputs /\ inputs[i].output \in Int
    <3>1. Len(inputs) \in Nat /\ DOMAIN inputs = 1..Len(inputs) /\ i # 0 /\ i \in 0..Len(inputs)
      BY <1>2, <2>1
    <3> HIDE DEF inputs
    <3>2. i \in DOMAIN inputs
      BY <3>1
    <3>3. inputs[i] \in [input : InputExpressions, output : Int]
      BY <2>1, <3>2, ElementIs
    <3> QED BY <3>2, <3>3
  <2>3. inputs[i].output < Len(Contexts[n][c].outputs)
    BY <2>2, ContextIs
  <2> QED BY <2>2, <2>3, FindOutputIs
<1> HIDE DEF found
<1>0. MayHold(V, event)
  <2>1. "ContextActive" \notin VirtualKeys
    BY KeyKindsAreDisjoint
  <2> QED BY <2>1 DEF MayHold
<1>5. i # 0 => outputs \in Seq({t \in ToOutput : MayHold(V, event)})
  <2> SUFFICES ASSUME i # 0 PROVE outputs \in Seq(ToOutput)
    BY <1>0
  <2>1. found # << >> => OutputSequence(st, found) \in OutputExpressions
    BY <1>4, OutputSequenceIs
  <2>2. c \in Int
    BY ContextIs
  <2> DEFINE o == [rest |-> OutputSequence(st, found), ctx |-> c]
  <2>3. found # << >> => o \in ToOutput
    BY <2>1, <2>2 DEF ToOutput
  <2>4. ActivationOutput(st, event, c, found) = IF event.state = "Up" \/ found = << >> THEN << >> ELSE <<o>>
    BY DEF ActivationOutput
  <2> HIDE DEF o
  <2>5. ActivationOutput(st, event, c, found) \in Seq(ToOutput)
    BY <2>3, <2>4
  <2>6. Waiting(st, event, c) \in Seq(ToOutput)
    <3>1. {t \in Continuations : event.state = "Up"} \subseteq ToOutput
      BY DEF ToOutput
    <3>2. Waiting(st, event, c) \in Seq({t \in Continuations : event.state = "Up"})
      BY WaitingIs
    <3> DEFINE T == {t \in Continuations : event.state = "Up"}
               w == Waiting(st, event, c)
    <3> HIDE DEF T, w
    <3>3. w \in Seq(ToOutput)
      BY <3>1, <3>2, SeqMonotone DEF T, w
    <3> QED BY <3>3 DEF w
  <2> QED BY <2>5, <2>6
<1> HIDE DEF outputs, s
<1>6. s \in Keeps(n, V, st)
  BY WaitingIs DEF s
<1>7. s \in StageOf(n, V) /\ Keeps(n, V, s) = Keeps(n, V, st)
  BY <1>6, KeepsIs
<1>8. i # 0 => r \in Keeps(n, V, st)
  BY <1>5, <1>7, ApplyOutputsIs
<1> HIDE DEF r
<1>9. i # 0 => r \in StageOf(n, V) /\ Keeps(n, V, r) = Keeps(n, V, st)
  BY <1>8, KeepsIs
<1> QED BY <1>3, <1>9, ReleaseOutputIs, KeepsSelf

-----------------------------------------------------------------------------
\* What changes from one set of active contexts to the next.
Changes(C) == [state : {"Up", "Down"}, ctx : C]

LEMMA ContextChangedRounds ==
  ASSUME NEW prev, NEW curr, NEW S, Len(prev) + Len(curr) \in Nat,
         [prev |-> prev, curr |-> curr, changes |-> << >>] \in S,
         \A x \in S : CompareContexts(x) \in S
  PROVE  ContextChanged(prev, curr) \in {y.changes : y \in S}
<1> DEFINE n == Len(prev) + Len(curr)
           base == [prev |-> prev, curr |-> curr, changes |-> << >>]
           Op(x) == CompareContexts(x)
           G == [k \in 1..n |-> [x \in S |-> Op(x)]]
           Is(f) == f = [k \in 0..n |-> IF k = 0 THEN base ELSE Op(f[k - 1])]
           y == (CHOOSE f : Is(f))[n]
<1>1. n \in Nat /\ base \in S /\ \A x \in S : Op(x) \in S
  OBVIOUS
<1>2. ContextChanged(prev, curr) = y.changes
  BY DEF ContextChanged
<1> HIDE DEF Op, n, base
<1>3. \A i \in 1..n : \A x \in S : G[i][x] = Op(x) /\ G[i][x] \in S
  BY <1>1
<1> HIDE DEF G
<1>4. \E f : Is(f)
  <2>1. PICK f : RoundsIn(f, n, S, base, G)
    BY <1>1, <1>3, RoundsExist
  <2>2. \A k \in 0..n : k # 0 => k \in 1..n /\ k - 1 \in 0..n
    BY <1>1
  <2>3. Is(f)
    BY <1>3, <2>1, <2>2 DEF RoundsIn
  <2> QED BY <2>3
<1>5. ASSUME NEW f, Is(f) PROVE f[n] \in S
  <2>1. 0 \in 0..n /\ n \in 0..n /\ \A k \in 1..n : k \in 0..n /\ k # 0
    BY <1>1
  <2>2. f[0] = base /\ \A k \in 1..n : f[k] = Op(f[k - 1])
    BY <1>5, <2>1
  <2>3. f[0] \in S /\ \A k \in 1..n : f[k - 1] \in S => f[k] \in S
    BY <1>1, <2>2
  <2> QED BY <1>1, <2>1, <2>3, ChainStaysIn
<1> HIDE DEF Is
<1>6. y \in S
  BY <1>4, <1>5
<1> HIDE DEF y
<1> QED BY <1>2, <1>6

LEMMA ContextChangedIs ==
  ASSUME NEW C, NEW prev \in Seq(C), NEW curr \in Seq(C)
  PROVE  ContextChanged(prev, curr) \in Seq(Changes(C))
<1> DEFINE S == [prev : Seq(C), curr : Seq(C), changes : Seq(Changes(C))]
<1>1. [prev |-> prev, curr |-> curr, changes |-> << >>] \in S /\ Len(prev) + Len(curr) \in Nat
  OBVIOUS
<1>2. ASSUME NEW x \in S PROVE CompareContexts(x) \in S
  <2>1. x.prev \in Seq(C) /\ x.curr \in Seq(C) /\ x.changes \in Seq(Changes(C))
    OBVIOUS
  <2> DEFINE up == Append(x.changes, [state |-> "Up", ctx |-> x.prev[1]])
             down == Append(x.changes, [state |-> "Down", ctx |-> x.curr[1]])
             p == Tail(x.prev)
             q == Tail(x.curr)
  <2>2. x.prev # << >> => p \in Seq(C) /\ up \in Seq(Changes(C))
    BY <2>1 DEF Changes
  <2>3. x.curr # << >> => q \in Seq(C) /\ down \in Seq(Changes(C))
    BY <2>1 DEF Changes
  <2>4. CompareContexts(x) \in {x}
          \cup (IF x.prev = << >> THEN {} ELSE {[x EXCEPT !.prev = p, !.changes = up]})
          \cup (IF x.curr = << >> THEN {} ELSE {[x EXCEPT !.curr = q, !.changes = down]})
          \cup (IF x.prev = << >> \/ x.curr = << >> THEN {} ELSE {[x EXCEPT !.prev = p, !.curr = q]})
    BY DEF CompareContexts
  <2> HIDE DEF up, down, p, q
  <2> QED BY <2>1, <2>2, <2>3, <2>4
<1> HIDE DEF S
<1>3. ContextChanged(prev, curr) \in {y.changes : y \in S}
  BY <1>1, <1>2, ContextChangedRounds
<1> QED BY <1>3 DEF S

LEMMA ActivateStays ==
  ASSUME NEW st, NEW active, NEW S, NEW E,
         [st EXCEPT !.active = active] \in S, Sorted(ContextChanged(st.active, active)) \in Seq(E),
         \A x \in S : \A e \in E : OnContextActiveEvent(x, Event("ContextActive", e.state), e.ctx) \in S
  PROVE  Activate(st, active) \in S
<1> DEFINE seq == Sorted(ContextChanged(st.active, active))
           n == Len(seq)
           base == [st EXCEPT !.active = active]
           Op(x, e) == OnContextActiveEvent(x, Event("ContextActive", e.state), e.ctx)
           G == [i \in 1..n |-> [x \in S |-> Op(x, seq[i])]]
           Is(f) == f = [s \in SUBSET (1..n) |->
                           IF s = {} THEN base ELSE Op(f[s \ {Max(s)}], seq[Max(s)])]
<1>0. seq \in Seq(E)
  OBVIOUS
<1> HIDE DEF seq
<1>1. n \in Nat /\ DOMAIN seq = 1..n /\ \A i \in 1..n : seq[i] \in E
  BY <1>0
<1>2. \A i \in 1..n : \A x \in S : G[i][x] = Op(x, seq[i]) /\ G[i][x] \in S
  <2>1. \A x \in S : \A e \in E : Op(x, e) \in S
    OBVIOUS
  <2> HIDE DEF Op
  <2> QED BY <1>1, <2>1
<1>3. Activate(st, active) = (CHOOSE f : Is(f))[1..n]
  BY <1>1 DEF Activate, seq, FoldLeft, MapThenFoldSet
<1>4. base \in S
  OBVIOUS
<1> HIDE DEF G, Op, base
<1>5. \E f : Is(f)
  <2>1. PICK f : FoldsIn(f, n, S, base, G)
    BY <1>1, <1>2, <1>4, FoldIn
  <2>2. Is(f)
    BY <1>2, <2>1 DEF FoldsIn
  <2> QED BY <2>2
<1>6. ASSUME NEW f, Is(f) PROVE f[1..n] \in S
  <2>1. f[{}] = base
    BY <1>6
  <2>2. ASSUME NEW k \in 1..n PROVE f[1..k] = Op(f[1..(k - 1)], seq[k])
    <3>1. /\ 1..k \in SUBSET (1..n) /\ 1..k # {} /\ Max(1..k) = k
          /\ (1..k) \ {Max(1..k)} = 1..(k - 1)
      BY <1>1, FoldStep
    <3>2. f[1..k] = Op(f[(1..k) \ {Max(1..k)}], seq[Max(1..k)])
      BY <1>6, <3>1
    <3> QED BY <3>1, <3>2
  <2>3. ASSUME NEW k \in 1..n, f[1..(k - 1)] \in S PROVE f[1..k] \in S
    <3>1. Op(f[1..(k - 1)], seq[k]) \in S
      BY <1>2, <2>3
    <3> QED BY <2>2, <3>1
  <2> QED BY <1>1, <1>4, <2>1, <2>3, FoldStays
<1> HIDE DEF Is
<1> QED BY <1>3, <1>5, <1>6

LEMMA ActivateIs ==
  ASSUME NEW n \in DOMAIN Contexts, NEW V, NEW st \in StageOf(n, V), NEW active \in Seq(DOMAIN Contexts[n])
  PROVE  Activate(st, active) \in Keeps(n, V, st)
<1> DEFINE C == DOMAIN Contexts[n]
           changes == ContextChanged(st.active, active)
<1>1. changes \in Seq(Changes(C))
  BY StageFields, ContextChangedIs
<1> HIDE DEF changes
<1>2. Sorted(changes) \in Seq(Changes(C))
  <2> DEFINE up == Select(changes, LAMBDA ch : ch.state = "Up")
             down == Select(changes, LAMBDA ch : ch.state = "Down")
  <2>1. up \in Seq(Changes(C)) /\ down \in Seq(Changes(C))
    BY <1>1, SelectIs DEF Select
  <2>2. Sorted(changes) = up \o down
    BY DEF Sorted
  <2> HIDE DEF up, down
  <2> QED BY <2>1, <2>2
<1>3. [st EXCEPT !.active = active] \in Keeps(n, V, st)
  BY SetActive
<1>4. ASSUME NEW s \in Keeps(n, V, st), NEW ch \in Changes(C)
      PROVE  OnContextActiveEvent(s, Event("ContextActive", ch.state), ch.ctx) \in Keeps(n, V, st)
  <2>1. s \in StageOf(n, V) /\ Keeps(n, V, s) = Keeps(n, V, st)
    BY KeepsIs
  <2>2. ch.ctx \in C /\ ch.state \in KeyStates /\ "ContextActive" \in AllKeys
    BY DEF Changes, KeyStates, AllKeys
  <2>3. Event("ContextActive", ch.state) \in EventsOf(AllKeys)
    BY <2>2, EventIs
  <2>4. Event("ContextActive", ch.state).key = "ContextActive"
    BY DEF Event
  <2> QED BY <2>1, <2>2, <2>3, <2>4, OnContextActiveEventIs
<1> QED BY <1>2, <1>3, <1>4, ActivateStays DEF changes


LEMMA PassingContextsIs ==
  ASSUME NEW n \in DOMAIN Contexts, NEW V, NEW st \in StageOf(n, V)
  PROVE  PassingContexts(st) \in Seq(DOMAIN Contexts[n])
<1> DEFINE C == DOMAIN Contexts[n]
           passing == Select(st.clientActive, LAMBDA c : PassesFilters(st, c))
           targets == Map(passing, LAMBDA c : Target(st, c))
           indices == Select([i \in DOMAIN targets |-> i], LAMBDA i : i = 1 \/ targets[i] # targets[i - 1])
<1>1. passing \in Seq(C)
  BY StageFields, SelectIs DEF Select
<1>2. PassingContexts(st) = Map(indices, LAMBDA i : targets[i])
  BY DEF PassingContexts, WithoutRepetitions
<1> HIDE DEF passing
<1>3. \A c \in C : Target(st, c) \in C
  BY FallthroughIs DEF Target
<1>4. targets \in Seq(C)
  <2>1. Len(passing) \in Nat /\ DOMAIN passing = 1..Len(passing) /\ \A i \in DOMAIN passing : passing[i] \in C
    BY <1>1
  <2>2. [i \in DOMAIN passing |-> Target(st, passing[i])] \in [1..Len(passing) -> C]
    BY <1>3, <2>1
  <2> QED BY <2>1, <2>2, MapIs DEF Map
<1> HIDE DEF targets
<1>5. indices \in Seq(DOMAIN targets)
  <2> DEFINE all == [i \in DOMAIN targets |-> i]
  <2>1. Len(targets) \in Nat /\ DOMAIN targets = 1..Len(targets)
    BY <1>4
  <2>2. all \in Seq(DOMAIN targets)
    BY <2>1
  <2> HIDE DEF all
  <2> QED BY <2>2, SelectIs DEF Select, all
<1> HIDE DEF indices
<1>6. Map(indices, LAMBDA i : targets[i]) \in Seq(C)
  <2>1. Len(indices) \in Nat /\ DOMAIN indices = 1..Len(indices) /\ \A i \in DOMAIN indices : indices[i] \in DOMAIN targets
    BY <1>5
  <2>2. \A i \in DOMAIN targets : targets[i] \in C
    BY <1>4
  <2>3. [i \in DOMAIN indices |-> targets[indices[i]]] \in [1..Len(indices) -> C]
    BY <2>1, <2>2
  <2> QED BY <2>1, <2>3, MapIs DEF Map
<1> QED BY <1>2, <1>6

LEMMA UpdateActiveContextsIs ==
  ASSUME NEW n \in DOMAIN Contexts, NEW V, NEW st \in StageOf(n, V)
  PROVE  UpdateActiveContexts(st) \in Keeps(n, V, st)
BY PassingContextsIs, ActivateIs DEF UpdateActiveContexts

-----------------------------------------------------------------------------
LEMMA SumTimeoutsIs ==
  ASSUME NEW a \in 0..MaxTimeout, NEW b \in 0..MaxTimeout
  PROVE  SumTimeouts(a, b) \in 0..MaxTimeout
BY DEF SumTimeouts, MaxTimeout

LEMMA WithoutElement ==
  ASSUME NEW X, NEW s \in Seq(X), NEW i \in 1..Len(s)
  PROVE  RemoveAt(s, i) \in Seq(X) /\ Len(RemoveAt(s, i)) = Len(s) - 1
<1> DEFINE a == SubSeq(s, 1, i - 1)
           b == SubSeq(s, i + 1, Len(s))
<1>1. a \in Seq(X) /\ Len(a) = i - 1
  OBVIOUS
<1>2. b \in Seq(X) /\ Len(b) = Len(s) - i
  OBVIOUS
<1>3. RemoveAt(s, i) = a \o b
  BY DEF RemoveAt
<1> HIDE DEF a, b
<1>4. a \o b \in Seq(X) /\ Len(a \o b) = Len(a) + Len(b)
  BY <1>1, <1>2
<1> QED BY <1>1, <1>2, <1>3, <1>4

LEMMA AddHistoryEventIs ==
  ASSUME NEW n, NEW V, NEW st \in StageOf(n, V), NEW event \in SeqEvents, NEW elapsed \in 0..MaxTimeout
  PROVE  AddHistoryEvent(st, event, elapsed) \in Keeps(n, V, st)
<1> DEFINE h == st.history
           m == Len(h)
           last == [h[m] EXCEPT !.value = SumTimeouts(elapsed, @)]
           timing == Timeout("HistoryTiming", elapsed)
           timed == IF m = 0 THEN << >>
                    ELSE IF h[m].state = "HistoryTiming"
                    THEN [h EXCEPT ![m].value = SumTimeouts(elapsed, @)]
                    ELSE Append(h, timing)
           new == Append(timed, event)
<1>1. h \in Seq(SeqEvents) /\ m \in Nat
  BY StageFields
<1>2. timing \in SeqEvents
  <2>1. "timeout" \in SeqKeys /\ "HistoryTiming" \in KeyStates
    BY DEF SeqKeys, KeyStates
  <2> QED BY <2>1 DEF Timeout, SeqEvents, EventsOf
<1>3. m # 0 => last \in SeqEvents
  <2> SUFFICES ASSUME m # 0 PROVE last \in SeqEvents
    OBVIOUS
  <2>1. h[m] \in SeqEvents
    BY <1>1
  <2>2. h[m].value \in 0..MaxTimeout
    BY <2>1 DEF SeqEvents, EventsOf
  <2> DEFINE value == SumTimeouts(elapsed, h[m].value)
             event0 == h[m]
  <2>4. value \in 0..MaxTimeout
    BY <2>2, SumTimeoutsIs
  <2>5. last = [event0 EXCEPT !.value = value]
    OBVIOUS
  <2> HIDE DEF value, event0, last
  <2>6. event0 \in SeqEvents
    BY <2>1 DEF event0
  <2> QED BY <2>4, <2>5, <2>6 DEF SeqEvents, EventsOf
<1>4. timed \in {<< >>, [h EXCEPT ![m] = last], Append(h, timing)} /\ (m = 0 => timed = << >>)
  OBVIOUS
<1> HIDE DEF timed, last, timing
<1>5. timed \in Seq(SeqEvents)
  <2> HIDE DEF h
  <2>1. CASE m = 0
    BY <1>4, <2>1
  <2>2. CASE m # 0
    <3>1. m \in DOMAIN h
      BY <1>1, <2>2
    <3>2. [h EXCEPT ![m] = last] \in Seq(SeqEvents)
      BY <1>1, <1>3, <2>2, <3>1
    <3>3. Append(h, timing) \in Seq(SeqEvents) /\ << >> \in Seq(SeqEvents)
      BY <1>1, <1>2
    <3> QED BY <1>4, <3>2, <3>3
  <2> QED BY <2>1, <2>2
<1>6. new \in Seq(SeqEvents)
  BY <1>5
<1>7. AddHistoryEvent(st, event, elapsed) \in {st, [st EXCEPT !.history = new]}
  BY DEF AddHistoryEvent, timed, timing
<1> HIDE DEF new
<1> QED BY <1>6, <1>7, SetHistory, KeepsSelf

LEMMA CleanUpFirstIs ==
  ASSUME NEW n, NEW V, NEW st \in StageOf(n, V)
  PROVE  CleanUpFirst(st) \in Keeps(n, V, st)
<1> DEFINE h == st.history
           first == h[1]
           ups == {i \in DOMAIN h : SameEvent(h[i], Release(first.key))}
           up == FirstOf(ups)
           without == RemoveAt(h, up)
           rest == IF first.key \in CommonModifiers THEN Tail(h) ELSE Tail(without)
           tail == Tail(h)
<1>1. h \in Seq(SeqEvents) /\ Len(h) \in Nat /\ DOMAIN h = 1..Len(h)
  BY StageFields
<1>0. \A i \in ups : SameEvent(h[i], Release(first.key))
  OBVIOUS
<1>2. CleanUpFirst(st) \in {st, [st EXCEPT !.history = tail], [st EXCEPT !.history = rest]}
  BY DEF CleanUpFirst
<1>3. h = << >> => CleanUpFirst(st) = st
  BY DEF CleanUpFirst
<1>4. up = 0 => CleanUpFirst(st) \in {st, [st EXCEPT !.history = tail]}
  BY DEF CleanUpFirst
<1>4a. up # 0 /\ h # << >> => ups # {}
  BY DEF FirstOf
<1>5. first.state = "Up" => CleanUpFirst(st) \in {st, [st EXCEPT !.history = tail]}
  BY DEF CleanUpFirst
<1>6. up \in 0..Len(h) /\ (up # 0 => up \in ups)
  BY <1>1, FirstOfIs
<1> HIDE DEF ups, up
<1>7. up = 1 => first.state = "Up"
  <2>1. up = 1 => SameEvent(h[1], Release(first.key))
    BY <1>0, <1>6
  <2> QED BY <2>1 DEF SameEvent, Release, Event
<1> HIDE DEF first
<1>8. h # << >> => tail \in Seq(SeqEvents)
  BY <1>1
<1>9. ASSUME up # 0, up # 1 PROVE rest \in Seq(SeqEvents)
  <2>1. up \in 1..Len(h) /\ Len(h) >= 2
    BY <1>1, <1>6, <1>9
  <2>2. without \in Seq(SeqEvents) /\ Len(without) = Len(h) - 1
    BY <1>1, <2>1, WithoutElement
  <2> HIDE DEF without
  <2>3. Tail(without) \in Seq(SeqEvents)
    BY <1>1, <2>1, <2>2
  <2>4. h # << >>
    BY <1>1, <2>1
  <2> QED BY <1>8, <2>3, <2>4
<1> HIDE DEF rest, tail
<1>13. h # << >> => [st EXCEPT !.history = tail] \in Keeps(n, V, st)
  BY <1>8, SetHistory
<1>10. CASE h = << >>
  BY <1>3, <1>10, KeepsSelf
<1>11. CASE h # << >> /\ (up = 0 \/ up = 1)
  <2>1. CleanUpFirst(st) \in {st, [st EXCEPT !.history = tail]}
    BY <1>4, <1>5, <1>7, <1>11
  <2> QED BY <1>11, <1>13, <2>1, KeepsSelf
<1>12. CASE h # << >> /\ up # 0 /\ up # 1
  <2>1. [st EXCEPT !.history = rest] \in Keeps(n, V, st)
    BY <1>9, <1>12, SetHistory
  <2> QED BY <1>2, <1>12, <1>13, <2>1, KeepsSelf
<1> QED BY <1>10, <1>11, <1>12

LEMMA CleanUpHistoryStays ==
  ASSUME NEW st, NEW S, NEW E,
         st \in S, st.history \in Seq(E),
         \A x \in S : \A e \in E : CleanUpFirst(x) \in S
  PROVE  CleanUpHistory(st) \in S
<1> DEFINE n == Len(st.history)
           Op(x, e) == CleanUpFirst(x)
           G == [i \in 1..n |-> [x \in S |-> Op(x, st.history[i])]]
           Is(f) == f = [s \in SUBSET (1..n) |->
                           IF s = {} THEN st ELSE Op(f[s \ {Max(s)}], st.history[Max(s)])]
<1>1. n \in Nat /\ DOMAIN st.history = 1..n /\ \A i \in 1..n : st.history[i] \in E
  OBVIOUS
<1>2. \A i \in 1..n : \A x \in S : G[i][x] = Op(x, st.history[i]) /\ G[i][x] \in S
  <2>1. \A x \in S : \A e \in E : Op(x, e) \in S
    OBVIOUS
  <2> HIDE DEF Op
  <2> QED BY <1>1, <2>1
<1>3. CleanUpHistory(st) = (CHOOSE f : Is(f))[1..n]
  BY <1>1 DEF CleanUpHistory, FoldLeft, MapThenFoldSet
<1>4. st \in S
  OBVIOUS
<1> HIDE DEF G, Op
<1>5. \E f : Is(f)
  <2>1. PICK f : FoldsIn(f, n, S, st, G)
    BY <1>1, <1>2, <1>4, FoldIn
  <2>2. Is(f)
    BY <1>2, <2>1 DEF FoldsIn
  <2> QED BY <2>2
<1>6. ASSUME NEW f, Is(f) PROVE f[1..n] \in S
  <2>1. f[{}] = st
    BY <1>6
  <2>2. ASSUME NEW k \in 1..n PROVE f[1..k] = Op(f[1..(k - 1)], st.history[k])
    <3>1. /\ 1..k \in SUBSET (1..n) /\ 1..k # {} /\ Max(1..k) = k
          /\ (1..k) \ {Max(1..k)} = 1..(k - 1)
      BY <1>1, FoldStep
    <3>2. f[1..k] = Op(f[(1..k) \ {Max(1..k)}], st.history[Max(1..k)])
      BY <1>6, <3>1
    <3> QED BY <3>1, <3>2
  <2>3. ASSUME NEW k \in 1..n, f[1..(k - 1)] \in S PROVE f[1..k] \in S
    <3>1. Op(f[1..(k - 1)], st.history[k]) \in S
      BY <1>2, <2>3
    <3> QED BY <2>2, <3>1
  <2> QED BY <1>1, <1>4, <2>1, <2>3, FoldStays
<1> HIDE DEF Is
<1> QED BY <1>3, <1>5, <1>6

LEMMA CleanUpHistoryIs ==
  ASSUME NEW n, NEW V, NEW st \in StageOf(n, V)
  PROVE  CleanUpHistory(st) \in Keeps(n, V, st)
<1>1. st.history \in Seq(SeqEvents)
  BY StageFields
<1>2. ASSUME NEW s \in Keeps(n, V, st), NEW e \in SeqEvents PROVE CleanUpFirst(s) \in Keeps(n, V, st)
  <2>1. s \in StageOf(n, V) /\ Keeps(n, V, s) = Keeps(n, V, st)
    BY KeepsIs
  <2> QED BY <2>1, CleanUpFirstIs
<1> QED BY <1>1, <1>2, KeepsSelf, CleanUpHistoryStays

-----------------------------------------------------------------------------
(* Matching an input expression against a sequence. *)

ExpressionEvents == EventsOf(AllKeys)

MatchStates ==
  [ e : Nat \ {0}, s : Nat \ {0}, async : Seq(ExpressionEvents), notKeys : SUBSET AllKeys,
    ignoreUps : SUBSET AllKeys, elapsed : ExpressionEvents, noMight : BOOLEAN,
    result : {"none", "match", "might_match", "no_match"}, any : Seq(KeyboardKeys),
    timeout : ExpressionEvents ]

LEMMA MatchFields ==
  ASSUME NEW m \in MatchStates
  PROVE  /\ m.e \in Nat \ {0} /\ m.s \in Nat \ {0} /\ m.async \in Seq(ExpressionEvents)
         /\ m.notKeys \in SUBSET AllKeys /\ m.ignoreUps \in SUBSET AllKeys
         /\ m.elapsed \in ExpressionEvents /\ m.noMight \in BOOLEAN
         /\ m.result \in {"none", "match", "might_match", "no_match"}
         /\ m.any \in Seq(KeyboardKeys) /\ m.timeout \in ExpressionEvents
BY DEF MatchStates

LEMMA MatchMoves ==
  ASSUME NEW m \in MatchStates
  PROVE  NextE(m) \in MatchStates /\ NextS(m) \in MatchStates
<1>1. m.e + 1 \in Nat \ {0} /\ m.s + 1 \in Nat \ {0}
  BY MatchFields
<1> QED BY <1>1 DEF NextE, NextS, MatchStates

LEMMA MatchMovesBoth ==
  ASSUME NEW m \in MatchStates
  PROVE  NextBoth(m) \in MatchStates
BY MatchMoves DEF NextBoth

LEMMA MatchEnds ==
  ASSUME NEW m \in MatchStates, NEW timeout \in ExpressionEvents
  PROVE  /\ NotMatched(m) \in MatchStates /\ MightMatch(m, timeout) \in MatchStates
         /\ [m EXCEPT !.result = "match"] \in MatchStates
BY DEF NotMatched, MightMatch, MatchStates

LEMMA SetAsync ==
  ASSUME NEW m \in MatchStates, NEW x \in Seq(ExpressionEvents)
  PROVE  [m EXCEPT !.async = x] \in MatchStates
BY DEF MatchStates

LEMMA SetKeys ==
  ASSUME NEW m \in MatchStates, NEW x \in SUBSET AllKeys
  PROVE  [m EXCEPT !.notKeys = x] \in MatchStates /\ [m EXCEPT !.ignoreUps = x] \in MatchStates
BY DEF MatchStates

LEMMA SetElapsed ==
  ASSUME NEW m \in MatchStates, NEW x \in ExpressionEvents
  PROVE  [m EXCEPT !.elapsed = x] \in MatchStates /\ [m EXCEPT !.noMight = TRUE] \in MatchStates
BY DEF MatchStates

LEMMA SetAny ==
  ASSUME NEW m \in MatchStates, NEW x \in Seq(KeyboardKeys), NEW y \in Seq(ExpressionEvents)
  PROVE  [m EXCEPT !.any = x, !.async = y] \in MatchStates
BY DEF MatchStates

LEMMA NoEventIs ==
  NoEvent \in ExpressionEvents
<1>1. "none" \in AllKeys
  BY DEF AllKeys
<1> QED BY <1>1, PressIs DEF NoEvent, ExpressionEvents

\* What is compared: an event of the sequence or its end.
SequenceEvents == SeqEvents \cup {NoEvent}

LEMMA SequenceEventsAre ==
  ASSUME NEW se \in SequenceEvents
  PROVE  /\ se \in ExpressionEvents /\ se.key \in AllKeys /\ se.state \in KeyStates
         /\ se.value \in 0..MaxTimeout /\ se.key # "any"
<1>1. SeqKeys \subseteq AllKeys /\ "any" \notin SeqKeys
  BY KeyKindsAreDisjoint DEF SeqKeys, AllKeys, DeviceKeys
<1>2. SeqEvents \subseteq ExpressionEvents
  BY <1>1 DEF SeqEvents, ExpressionEvents, EventsOf
<1>3. se \in SeqEvents => se.key # "any"
  BY <1>1 DEF SeqEvents, EventsOf
<1>4. NoEvent.key = "none"
  BY DEF NoEvent, Release, Event
<1>5. se \in ExpressionEvents
  BY <1>2, NoEventIs DEF SequenceEvents
<1>6. se.key # "any"
  BY <1>3, <1>4 DEF SequenceEvents
<1> QED BY <1>5, <1>6 DEF ExpressionEvents, EventsOf

LEMMA EventAtIs ==
  ASSUME NEW X, NEW seq \in Seq(X), NEW i \in Nat \ {0}
  PROVE  EventAt(seq, i) \in X \cup {NoEvent}
BY DEF EventAt

LEMMA CompareIs ==
  ASSUME NEW expression, NEW sequence, NEW matchedAreOptional,
         NEW se \in SequenceEvents, NEW ee \in ExpressionEvents, NEW m \in MatchStates
  PROVE  Compare(expression, sequence, matchedAreOptional, se, ee, m) \in MatchStates
<1> DEFINE ai == AsyncForInput(m, se)
           ae == AsyncForExpression(m, ee)
           any == IF ee.key = "any" /\ se.state = "Down" THEN Append(m.any, se.key) ELSE m.any
           pruned == Select(m.async, LAMBDA a : a.key # se.key)
           matched == [m EXCEPT !.async[ai].state = se.state]
           sum == Timeout("Up", SumTimeouts(m.elapsed.value, se.value))
           ups == IF se.state = "Down" THEN m.ignoreUps \cup {se.key} ELSE m.ignoreUps
           b1 == [m EXCEPT !.result = "match"]
           b2 == NotMatched(m)
           b3 == NextE([m EXCEPT !.async = Append(@, ee)])
           b4 == NextE([m EXCEPT !.notKeys = @ \cup {ee.key}])
           b5 == IF Contains(m.any, se.key) THEN NextBoth(m) ELSE b2
           b6 == NextBoth([m EXCEPT !.any = any, !.async = pruned])
           b7 == MightMatch(m, ee)
           b8 == NextE([m EXCEPT !.noMight = TRUE])
           b9 == NextS(matched)
           b10 == NextS(m)
           b11 == NextE([m EXCEPT !.async = RemoveAt(@, ae)])
           b12 == NextE(m)
           b13 == NextS([m EXCEPT !.elapsed = sum])
           b14 == NextE([m EXCEPT !.elapsed = NoEvent])
           b15 == NextS([m EXCEPT !.ignoreUps = ups])
           b16 == MightMatch(m, NoEvent)
           c1 == m.e > Len(expression) /\ m.s > Len(sequence)
           c2 == IsDown(se) /\ se.key \in m.notKeys
           c3 == ee.state \in {"DownAsync", "UpAsync"}
           c4 == ee.state = "Not" /\ ee.key # "timeout"
           c5 == ee = Release("any") /\ se.key # "none" /\ se.state = "Up"
           c6 == Unifiable(se, ee)
           c7 == ee.key = "timeout" /\ se = NoEvent
           c8 == ee.state = "NoMightMatch"
           c8a == m.noMight /\ ee = NoEvent
           c10 == /\ se.state \in {"DownMatched", "UpMatched"}
                  /\ \/ matchedAreOptional
                     \/ se.key \notin DeviceKeys
                     \/ m.e = 1 /\ ee.key = "any"
           c12 == ee.state = "Down" /\ ReleasedAndPressed(m, ee.key)
           c12a == /\ se.key = "timeout" /\ ee.key # "timeout"
                   /\ \E i \in 1..(m.s - 1) : sequence[i].state = "Down"
           c13 == se.state = "HistoryTiming"
           c14 == ee.key = "timeout" /\ Unifiable(m.elapsed, ee)
           c15 == m.noMight /\ m.e = 2
           c15a == se = NoEvent
           c15b == m.noMight /\ se.state = "Up" /\ se.key \in m.ignoreUps
           c16 == m.s > Len(sequence)
<1>0. Compare(expression, sequence, matchedAreOptional, se, ee, m) =
        IF c1 THEN b1 ELSE IF c2 THEN b2 ELSE IF c3 THEN b3 ELSE IF c4 THEN b4 ELSE IF c5 THEN b5
        ELSE IF c6 THEN b6 ELSE IF c7 THEN b7 ELSE IF c8 THEN b8 ELSE IF c8a THEN b2
        ELSE IF ai # 0 THEN b9 ELSE IF c10 THEN b10 ELSE IF ae # 0 THEN b11 ELSE IF c12 THEN b12
        ELSE IF c12a THEN b10 ELSE IF c13 THEN b13 ELSE IF c14 THEN b14
        ELSE IF c15 THEN (IF c15a THEN b2 ELSE b15) ELSE IF c15b THEN b10
        ELSE IF c16 THEN b16 ELSE b2
  BY Zenon DEF Compare
<1> HIDE DEF c1, c2, c3, c4, c5, c6, c7, c8, c8a, c10, c12, c12a, c13, c14, c15, c15a, c15b, c16
<1>1. /\ m.async \in Seq(ExpressionEvents) /\ Len(m.async) \in Nat /\ DOMAIN m.async = 1..Len(m.async)
      /\ m.notKeys \in SUBSET AllKeys /\ m.ignoreUps \in SUBSET AllKeys /\ m.any \in Seq(KeyboardKeys)
      /\ m.elapsed \in ExpressionEvents
  BY MatchFields
<1>2. /\ se \in ExpressionEvents /\ se.key \in AllKeys /\ se.state \in KeyStates
      /\ se.value \in 0..MaxTimeout /\ se.key # "any"
  BY SequenceEventsAre
<1>3. ee.key \in AllKeys
  BY DEF ExpressionEvents, EventsOf
<1>4. /\ b1 \in MatchStates /\ b2 \in MatchStates /\ b7 \in MatchStates /\ b10 \in MatchStates
      /\ b12 \in MatchStates /\ b16 \in MatchStates /\ NextBoth(m) \in MatchStates
  BY MatchEnds, MatchMoves, MatchMovesBoth, NoEventIs
<1>5. b5 \in MatchStates
  BY <1>4
<1>6. b3 \in MatchStates /\ b4 \in MatchStates
  <2>1. Append(m.async, ee) \in Seq(ExpressionEvents) /\ m.notKeys \cup {ee.key} \in SUBSET AllKeys
    BY <1>1, <1>3
  <2>2. [m EXCEPT !.async = Append(@, ee)] \in MatchStates
    BY <2>1, SetAsync
  <2>3. [m EXCEPT !.notKeys = @ \cup {ee.key}] \in MatchStates
    BY <2>1, SetKeys
  <2> QED BY <2>2, <2>3, MatchMoves
<1>7. b8 \in MatchStates /\ b14 \in MatchStates
  <2>1. [m EXCEPT !.noMight = TRUE] \in MatchStates /\ [m EXCEPT !.elapsed = NoEvent] \in MatchStates
    BY SetElapsed, NoEventIs
  <2> QED BY <2>1, MatchMoves
<1>8. b15 \in MatchStates
  <2>1. ups \in SUBSET AllKeys
    BY <1>1, <1>2
  <2> HIDE DEF ups
  <2>2. [m EXCEPT !.ignoreUps = ups] \in MatchStates
    BY <2>1, SetKeys
  <2> QED BY <2>2, MatchMoves
<1>9. b13 \in MatchStates
  <2>1. m.elapsed.value \in 0..MaxTimeout
    BY <1>1 DEF ExpressionEvents, EventsOf
  <2>2. SumTimeouts(m.elapsed.value, se.value) \in 0..MaxTimeout
    BY <1>2, <2>1, SumTimeoutsIs
  <2>3. "timeout" \in AllKeys /\ "Up" \in KeyStates
    BY DEF AllKeys, KeyStates
  <2>4. sum \in ExpressionEvents
    BY <2>2, <2>3 DEF Timeout, ExpressionEvents, EventsOf
  <2> HIDE DEF sum
  <2>5. [m EXCEPT !.elapsed = sum] \in MatchStates
    BY <2>4, SetElapsed
  <2> QED BY <2>5, MatchMoves
<1>10. c6 => b6 \in MatchStates
  <2> SUFFICES ASSUME c6 PROVE b6 \in MatchStates
    OBVIOUS
  <2>1. ee.key = "any" => se.key \in KeyboardKeys
    BY <1>2 DEF c6, Unifiable, UnifiableKeys
  <2>2. any \in Seq(KeyboardKeys)
    BY <1>1, <2>1
  <2>3. pruned \in Seq(ExpressionEvents)
    BY <1>1, SelectIs DEF Select
  <2> HIDE DEF any, pruned
  <2>4. [m EXCEPT !.any = any, !.async = pruned] \in MatchStates
    BY <2>2, <2>3, SetAny
  <2> QED BY <2>4, MatchMovesBoth
<1>11. ai # 0 => b9 \in MatchStates
  <2> SUFFICES ASSUME ai # 0 PROVE b9 \in MatchStates
    OBVIOUS
  <2> DEFINE positions == {i \in DOMAIN m.async :
                 /\ m.async[i].state = IF se.state = "Up" THEN "UpAsync" ELSE "DownAsync"
                 /\ UnifiableKeys(se.key, m.async[i].key)}
             async == [m.async EXCEPT ![ai].state = se.state]
  <2>1. positions \in SUBSET (1..Len(m.async)) /\ ai = FirstOf(positions)
    BY <1>1 DEF AsyncForInput
  <2> HIDE DEF positions
  <2>2. ai \in DOMAIN m.async
    BY <1>1, <2>1, FirstOfIs
  <2>3. matched = [m EXCEPT !.async = async]
    BY <1>1
  <2> HIDE DEF ai, matched
  <2> DEFINE a == [m.async[ai] EXCEPT !.state = se.state]
  <2>4. a \in ExpressionEvents
    <3>1. m.async[ai] \in ExpressionEvents
      BY <1>1, <2>2, ElementIs
    <3> QED BY <1>2, <3>1 DEF ExpressionEvents, EventsOf
  <2>5. async = [m.async EXCEPT ![ai] = a]
    OBVIOUS
  <2> HIDE DEF a, async
  <2>6. async \in Seq(ExpressionEvents)
    BY <1>1, <2>2, <2>4, <2>5
  <2>7. matched \in MatchStates
    BY <2>3, <2>6, SetAsync
  <2> QED BY <2>7, MatchMoves
<1>12. ae # 0 => b11 \in MatchStates
  <2> SUFFICES ASSUME ae # 0 PROVE b11 \in MatchStates
    OBVIOUS
  <2> DEFINE positions == {i \in DOMAIN m.async : Unifiable(ee, m.async[i])}
  <2>1. positions \in SUBSET (1..Len(m.async)) /\ ae = FirstOf(positions)
    BY <1>1 DEF AsyncForExpression
  <2> HIDE DEF positions
  <2>2. ae \in 0..Len(m.async)
    BY <1>1, <2>1, FirstOfIs
  <2> HIDE DEF ae
  <2>3. RemoveAt(m.async, ae) \in Seq(ExpressionEvents)
    BY <1>1, <2>2, RemoveAtIs
  <2>4. [m EXCEPT !.async = RemoveAt(@, ae)] \in MatchStates
    BY <2>3, SetAsync
  <2> QED BY <2>4, MatchMoves
<1> HIDE DEF b1, b2, b3, b4, b5, b6, b7, b8, b9, b10, b11, b12, b13, b14, b15, b16, ai, ae
<1> QED BY <1>0, <1>4, <1>5, <1>6, <1>7, <1>8, <1>9, <1>10, <1>11, <1>12

LEMMA MatchRoundIs ==
  ASSUME NEW expression \in Seq(ExpressionEvents), NEW sequence \in Seq(SeqEvents),
         NEW matchedAreOptional, NEW m \in MatchStates
  PROVE  MatchRound(expression, sequence, matchedAreOptional, m) \in MatchStates
<1> DEFINE se == EventAt(sequence, m.s)
           ee == EventAt(expression, m.e)
           keys == IF ee.state = "Down" THEN m.notKeys \ {ee.key} ELSE m.notKeys
<1>1. se \in SequenceEvents /\ ee \in ExpressionEvents
  BY MatchFields, EventAtIs, NoEventIs DEF SequenceEvents
<1>2. MatchRound(expression, sequence, matchedAreOptional, m) =
        IF m.result # "none" THEN m
        ELSE Compare(expression, sequence, matchedAreOptional, se, ee, Allowed(m, ee))
  BY DEF MatchRound
<1>3. keys \in SUBSET AllKeys
  BY MatchFields
<1>4. Allowed(m, ee) = [m EXCEPT !.notKeys = keys]
  BY DEF Allowed
<1> HIDE DEF se, ee, keys
<1>5. Allowed(m, ee) \in MatchStates
  BY <1>3, <1>4, SetKeys
<1> QED BY <1>1, <1>2, <1>5, CompareIs

LEMMA MatchSequenceRounds ==
  ASSUME NEW expression, NEW sequence, NEW matchedAreOptional, NEW S, Len(expression) + Len(sequence) + 1 \in Nat,
         StartMatching \in S,
         \A x \in S : MatchRound(expression, sequence, matchedAreOptional, x) \in S
  PROVE  MatchSequence(expression, sequence, matchedAreOptional) \in {y : y \in S}
<1> DEFINE n == Len(expression) + Len(sequence) + 1
           base == StartMatching
           Op(x) == MatchRound(expression, sequence, matchedAreOptional, x)
           G == [k \in 1..n |-> [x \in S |-> Op(x)]]
           Is(f) == f = [k \in 0..n |-> IF k = 0 THEN base ELSE Op(f[k - 1])]
           y == (CHOOSE f : Is(f))[n]
<1>1. n \in Nat /\ base \in S /\ \A x \in S : Op(x) \in S
  OBVIOUS
<1>2. MatchSequence(expression, sequence, matchedAreOptional) = y
  BY DEF MatchSequence
<1> HIDE DEF Op, n, base
<1>3. \A i \in 1..n : \A x \in S : G[i][x] = Op(x) /\ G[i][x] \in S
  BY <1>1
<1> HIDE DEF G
<1>4. \E f : Is(f)
  <2>1. PICK f : RoundsIn(f, n, S, base, G)
    BY <1>1, <1>3, RoundsExist
  <2>2. \A k \in 0..n : k # 0 => k \in 1..n /\ k - 1 \in 0..n
    BY <1>1
  <2>3. Is(f)
    BY <1>3, <2>1, <2>2 DEF RoundsIn
  <2> QED BY <2>3
<1>5. ASSUME NEW f, Is(f) PROVE f[n] \in S
  <2>1. 0 \in 0..n /\ n \in 0..n /\ \A k \in 1..n : k \in 0..n /\ k # 0
    BY <1>1
  <2>2. f[0] = base /\ \A k \in 1..n : f[k] = Op(f[k - 1])
    BY <1>5, <2>1
  <2>3. f[0] \in S /\ \A k \in 1..n : f[k - 1] \in S => f[k] \in S
    BY <1>1, <2>2
  <2> QED BY <1>1, <2>1, <2>3, ChainStaysIn
<1> HIDE DEF Is
<1>6. y \in S
  BY <1>4, <1>5
<1> HIDE DEF y
<1> QED BY <1>2, <1>6

LEMMA MatchSequenceIs ==
  ASSUME NEW expression \in Seq(ExpressionEvents), NEW sequence \in Seq(SeqEvents),
         NEW matchedAreOptional
  PROVE  MatchSequence(expression, sequence, matchedAreOptional) \in MatchStates
<1>1. Len(expression) + Len(sequence) + 1 \in Nat
  OBVIOUS
<1>2. StartMatching \in MatchStates
  BY NoEventIs DEF StartMatching, MatchStates
<1>3. \A m \in MatchStates : MatchRound(expression, sequence, matchedAreOptional, m) \in MatchStates
  BY MatchRoundIs
<1> QED BY <1>1, <1>2, <1>3, MatchSequenceRounds

-----------------------------------------------------------------------------
(* What the mappings say of the sequence. *)

Said(n) == [ result : {"none", "match", "might_match", "no_match"}, output : References(n) \cup {<< >>},
             trigger : ExpressionEvents, ctx : Int, timeout : ExpressionEvents ]

\* What decides has an output when it matches.
Decided(n) == {match \in Said(n) : match.result = "match" => match.output \in References(n)}

Results(n) == {r \in [accepted : {TRUE, FALSE}, any : Seq(KeyboardKeys), match : Said(n)] :
                 r.accepted => r.match \in Decided(n)}

\* The mappings of a context.
Mappings(n, c) == {in \in [input : InputExpressions, output : Int] : in.output < Len(Contexts[n][c].outputs)}

LEMMA MappingsAre ==
  ASSUME NEW n \in DOMAIN Contexts, NEW c \in DOMAIN Contexts[n]
  PROVE  Contexts[n][c].inputs \in Seq(Mappings(n, c))
<1> DEFINE inputs == Contexts[n][c].inputs
           B == [input : InputExpressions, output : Int]
<1>1. inputs \in Seq(B) /\ \A i \in DOMAIN inputs : inputs[i].output < Len(Contexts[n][c].outputs)
  BY ContextIs
<1> HIDE DEF inputs, B
<1>2. Len(inputs) \in Nat /\ inputs = [i \in 1..Len(inputs) |-> inputs[i]] /\ DOMAIN inputs = 1..Len(inputs)
  BY <1>1
<1>3. \A i \in DOMAIN inputs : inputs[i] \in Mappings(n, c)
  BY <1>1, ElementIs DEF Mappings, B
<1> QED BY <1>2, <1>3 DEF inputs

LEMMA TriggerEventIs ==
  ASSUME NEW input \in InputExpressions
  PROVE  TriggerEvent(input) \in ExpressionEvents
<1> DEFINE nonOptional == Select(input, IsNonOptional)
<1>1. input \in Seq(ExpressionEvents) /\ input # << >>
  BY DEF InputExpressions, ExpressionEvents
<1>2. nonOptional \in Seq(ExpressionEvents)
  BY <1>1, SelectIs DEF Select
<1>3. TriggerEvent(input) = IF nonOptional # << >> THEN Last(nonOptional) ELSE Last(input)
  BY DEF TriggerEvent
<1> HIDE DEF nonOptional
<1> QED BY <1>1, <1>2, <1>3 DEF Last

LEMMA MappingResultIs ==
  ASSUME NEW n, NEW first, NEW c \in Int, NEW input \in InputExpressions, NEW m \in MatchStates,
         NEW output \in References(n) \cup {<< >>}
  PROVE  MappingResult(first, c, input, m, output) \in Results(n)
<1> DEFINE accepts == \/ m.result = "match" /\ output # << >>
                      \/ m.result = "might_match" /\ first /\ ~IsNoMightMatch(input)
           chosen == IF m.result = "match" THEN output ELSE << >>
           match == [ result |-> m.result, ctx |-> c, timeout |-> m.timeout,
                      output |-> chosen, trigger |-> TriggerEvent(input) ]
<1>1. TriggerEvent(input) \in ExpressionEvents
  BY TriggerEventIs
<1>2. chosen \in References(n) \cup {<< >>}
  OBVIOUS
<1>3. accepts /\ m.result = "match" => chosen \in References(n)
  OBVIOUS
<1>4. MappingResult(first, c, input, m, output) = [accepted |-> accepts, any |-> m.any, match |-> match]
  BY DEF MappingResult
<1>0. accepts \in BOOLEAN
  OBVIOUS
<1> HIDE DEF accepts, chosen
<1>5. match \in Said(n) /\ match.result = m.result /\ match.output = chosen
  BY <1>1, <1>2, MatchFields DEF Said
<1>6. accepts => match \in Decided(n)
  BY <1>3, <1>5 DEF Decided
<1>7. m.any \in Seq(KeyboardKeys)
  BY MatchFields
<1> HIDE DEF match
<1>8. CASE accepts
  <2>1. MappingResult(first, c, input, m, output) = [accepted |-> TRUE, any |-> m.any, match |-> match]
    BY <1>0, <1>4, <1>8
  <2> QED BY <1>5, <1>6, <1>7, <1>8, <2>1 DEF Results
<1>9. CASE ~accepts
  <2>1. MappingResult(first, c, input, m, output) = [accepted |-> FALSE, any |-> m.any, match |-> match]
    BY <1>0, <1>4, <1>9
  <2> QED BY <1>5, <1>7, <2>1 DEF Results
<1> QED BY <1>8, <1>9

LEMMA ContextResultsAre ==
  ASSUME NEW n \in DOMAIN Contexts, NEW V, NEW st \in StageOf(n, V), NEW first, NEW matchedAreOptional,
         NEW sequence \in Seq(SeqEvents), NEW device, NEW c \in DOMAIN Contexts[n]
  PROVE  ContextResults(st, first, matchedAreOptional, sequence, device, c) \in Seq(Results(n))
<1> DEFINE tried == Select(Contexts[n][c].inputs, LAMBDA in : ~IsSkipped(st, first, in.input, device))
           Result(in) == MappingResult(first, c, in.input,
             MatchSequence(in.input, IF IsNoMightMatch(in.input) THEN st.history ELSE sequence,
                           matchedAreOptional),
             FindOutput(st, c, in.output))
<1>1. tried \in Seq(Mappings(n, c))
  BY MappingsAre, SelectIs DEF Select
<1>2. ContextResults(st, first, matchedAreOptional, sequence, device, c) = Map(tried, Result)
  BY StageFields DEF ContextResults, Context
<1>3. ASSUME NEW in \in Mappings(n, c) PROVE Result(in) \in Results(n)
  <2> DEFINE seq == IF IsNoMightMatch(in.input) THEN st.history ELSE sequence
  <2>1. /\ in.input \in InputExpressions /\ in.output \in Int
        /\ in.output < Len(Contexts[n][c].outputs)
    BY DEF Mappings
  <2>2. in.input \in Seq(ExpressionEvents)
    BY <2>1 DEF InputExpressions, ExpressionEvents
  <2>3. seq \in Seq(SeqEvents)
    BY StageFields
  <2> HIDE DEF seq
  <2>4. MatchSequence(in.input, seq, matchedAreOptional) \in MatchStates
    BY <2>2, <2>3, MatchSequenceIs
  <2>5. FindOutput(st, c, in.output) \in References(n) \cup {<< >>}
    BY <2>1, FindOutputIs
  <2>6. c \in Int
    BY ContextIs
  <2> QED BY <2>1, <2>4, <2>5, <2>6, MappingResultIs DEF seq
<1> HIDE DEF tried, Result
<1>4. Len(tried) \in Nat /\ DOMAIN tried = 1..Len(tried) /\ \A i \in DOMAIN tried : tried[i] \in Mappings(n, c)
  BY <1>1
<1>5. [i \in DOMAIN tried |-> Result(tried[i])] \in [1..Len(tried) -> Results(n)]
  BY <1>3, <1>4
<1> QED BY <1>2, <1>4, <1>5, MapIs DEF Map

LEMMA MatchResultsStay ==
  ASSUME NEW st, NEW first, NEW matchedAreOptional, NEW sequence, NEW device, NEW S, NEW E,
         << >> \in S, ElementsAt(st.active, {i \in DOMAIN st.active : device \in MatchingDevices(st, Context(st, st.active[i]))}) \in Seq(E),
         \A x \in S : \A e \in E : x \o ContextResults(st, first, matchedAreOptional, sequence, device, Fallthrough(st, e)) \in S
  PROVE  MatchResults(st, first, matchedAreOptional, sequence, device) \in S
<1> DEFINE seq == ElementsAt(st.active, {i \in DOMAIN st.active : device \in MatchingDevices(st, Context(st, st.active[i]))})
           n == Len(seq)
           base == << >>
           Op(x, e) == x \o ContextResults(st, first, matchedAreOptional, sequence, device, Fallthrough(st, e))
           G == [i \in 1..n |-> [x \in S |-> Op(x, seq[i])]]
           Is(f) == f = [s \in SUBSET (1..n) |->
                           IF s = {} THEN base ELSE Op(f[s \ {Max(s)}], seq[Max(s)])]
<1>0. seq \in Seq(E)
  OBVIOUS
<1> HIDE DEF seq
<1>1. n \in Nat /\ DOMAIN seq = 1..n /\ \A i \in 1..n : seq[i] \in E
  BY <1>0
<1>2. \A i \in 1..n : \A x \in S : G[i][x] = Op(x, seq[i]) /\ G[i][x] \in S
  <2>1. \A x \in S : \A e \in E : Op(x, e) \in S
    OBVIOUS
  <2> HIDE DEF Op
  <2> QED BY <1>1, <2>1
<1>3. MatchResults(st, first, matchedAreOptional, sequence, device) = (CHOOSE f : Is(f))[1..n]
  BY <1>1 DEF MatchResults, Select, seq, FoldLeft, MapThenFoldSet
<1>4. base \in S
  OBVIOUS
<1> HIDE DEF G, Op, base
<1>5. \E f : Is(f)
  <2>1. PICK f : FoldsIn(f, n, S, base, G)
    BY <1>1, <1>2, <1>4, FoldIn
  <2>2. Is(f)
    BY <1>2, <2>1 DEF FoldsIn
  <2> QED BY <2>2
<1>6. ASSUME NEW f, Is(f) PROVE f[1..n] \in S
  <2>1. f[{}] = base
    BY <1>6
  <2>2. ASSUME NEW k \in 1..n PROVE f[1..k] = Op(f[1..(k - 1)], seq[k])
    <3>1. /\ 1..k \in SUBSET (1..n) /\ 1..k # {} /\ Max(1..k) = k
          /\ (1..k) \ {Max(1..k)} = 1..(k - 1)
      BY <1>1, FoldStep
    <3>2. f[1..k] = Op(f[(1..k) \ {Max(1..k)}], seq[Max(1..k)])
      BY <1>6, <3>1
    <3> QED BY <3>1, <3>2
  <2>3. ASSUME NEW k \in 1..n, f[1..(k - 1)] \in S PROVE f[1..k] \in S
    <3>1. Op(f[1..(k - 1)], seq[k]) \in S
      BY <1>2, <2>3
    <3> QED BY <2>2, <3>1
  <2> QED BY <1>1, <1>4, <2>1, <2>3, FoldStays
<1> HIDE DEF Is
<1> QED BY <1>3, <1>5, <1>6

LEMMA MatchResultsAre ==
  ASSUME NEW n \in DOMAIN Contexts, NEW V, NEW st \in StageOf(n, V), NEW first, NEW matchedAreOptional,
         NEW sequence \in Seq(SeqEvents), NEW device
  PROVE  MatchResults(st, first, matchedAreOptional, sequence, device) \in Seq(Results(n))
<1> DEFINE D == DOMAIN Contexts[n]
           searched == ElementsAt(st.active, {i \in DOMAIN st.active : device \in MatchingDevices(st, Context(st, st.active[i]))})
<1>1. searched \in Seq(D)
  BY StageFields, SelectIs
<1>2. ASSUME NEW x \in Seq(Results(n)), NEW a \in D
      PROVE  x \o ContextResults(st, first, matchedAreOptional, sequence, device, Fallthrough(st, a))
               \in Seq(Results(n))
  BY FallthroughIs, ContextResultsAre
<1> HIDE DEF D
<1>3. << >> \in Seq(Results(n))
  OBVIOUS
<1> QED BY <1>1, <1>2, <1>3, MatchResultsStay

LEMMA AcceptedIs ==
  ASSUME NEW n, NEW V, NEW st \in StageOf(n, V), NEW results \in Seq(Results(n))
  PROVE  Accepted(st, results) \in [match : Decided(n), st : Keeps(n, V, st)]
<1> DEFINE positions == {j \in DOMAIN results : results[j].accepted}
           i == FirstOf(positions)
           last == IF i # 0 THEN i ELSE Len(results)
           match == IF i = 0 THEN NoMatch ELSE results[i].match
           s == IF last = 0 THEN st ELSE [st EXCEPT !.anyKeys = results[last].any]
<1>1. Len(results) \in Nat /\ DOMAIN results = 1..Len(results) /\ positions \in SUBSET (1..Len(results))
  OBVIOUS
<1>2. Accepted(st, results) = [match |-> match, st |-> s]
  BY DEF Accepted
<1>3. \A j \in positions : results[j].accepted /\ j \in DOMAIN results
  OBVIOUS
<1> HIDE DEF positions
<1>4. i \in 0..Len(results) /\ (i # 0 => i \in positions)
  BY <1>1, FirstOfIs
<1> HIDE DEF i
<1>5. match \in Decided(n)
  <2>1. CASE i = 0
    <3>1. NoMatch \in Decided(n)
      BY NoEventIs DEF NoMatch, Decided, Said
    <3> QED BY <2>1, <3>1
  <2>2. CASE i # 0
    <3>1. i \in DOMAIN results /\ results[i].accepted
      BY <1>3, <1>4, <2>2
    <3>2. results[i] \in Results(n)
      BY <3>1, ElementIs
    <3> QED BY <2>2, <3>1, <3>2 DEF Results
  <2> QED BY <2>1, <2>2
<1>6. last \in 0..Len(results)
  BY <1>1, <1>4
<1> HIDE DEF last, match
<1>7. s \in Keeps(n, V, st)
  <2>1. CASE last = 0
    BY <2>1, KeepsSelf
  <2>2. CASE last # 0
    <3>1. last \in DOMAIN results
      BY <1>1, <1>6, <2>2
    <3>2. results[last] \in Results(n)
      BY <3>1, ElementIs
    <3>3. results[last].any \in Seq(KeyboardKeys)
      BY <3>2 DEF Results
    <3>4. [st EXCEPT !.anyKeys = results[last].any] \in Keeps(n, V, st)
      BY <3>3, SetAnyKeys
    <3> QED BY <2>2, <3>4
  <2> QED BY <2>1, <2>2
<1> HIDE DEF s
<1> QED BY <1>2, <1>5, <1>7

LEMMA MatchInputIs ==
  ASSUME NEW n \in DOMAIN Contexts, NEW V, NEW st \in StageOf(n, V), NEW first, NEW matchedAreOptional,
         NEW sequence \in Seq(SeqEvents), NEW device
  PROVE  MatchInput(st, first, matchedAreOptional, sequence, device) \in [match : Decided(n), st : Keeps(n, V, st)]
BY MatchResultsAre, AcceptedIs DEF MatchInput

-----------------------------------------------------------------------------
(* The start of the sequence that matches, and what becomes of the sequence. *)

FoundIn(n, V, st) == [match : Decided(n), st : Keeps(n, V, st), length : 0..Len(st.seq), startOnly : {TRUE, FALSE}]

LEMMA FoundIs ==
  ASSUME NEW n, NEW V, NEW st \in StageOf(n, V), NEW m \in [match : Decided(n), st : Keeps(n, V, st)],
         NEW length \in 0..Len(st.seq)
  PROVE  Found(m, length, FALSE) \in FoundIn(n, V, st) /\ FoundStart(m, length) \in FoundIn(n, V, st)
<1>1. m.match \in Decided(n) /\ m.st \in Keeps(n, V, st)
  OBVIOUS
<1>2. Found(m, length, FALSE) \in FoundIn(n, V, st) /\ Found(m, length, TRUE) \in FoundIn(n, V, st)
  BY <1>1 DEF Found, FoundIn
<1>3. CASE m.match.result = "match"
  <2>1. FoundStart(m, length) = Found(m, length, TRUE)
    BY <1>3 DEF FoundStart
  <2> QED BY <1>2, <2>1
<1>4. CASE m.match.result # "match"
  <2>1. FoundStart(m, length) = Found(m, length, FALSE)
    BY <1>4 DEF FoundStart
  <2> QED BY <1>2, <2>1
<1> QED BY <1>3, <1>4

LEMMA MatchStartStays ==
  ASSUME NEW st, NEW device, NEW S, NEW E,
         Found([match |-> NoMatch, st |-> st], Len(st.seq), FALSE) \in S, [i \in 1..(Len(st.seq) - 1) |-> Len(st.seq) - i] \in Seq(E),
         \A x \in S : \A e \in E : MatchStartOf(x, e, device) \in S
  PROVE  MatchStart(st, device) \in S
<1> DEFINE seq == [i \in 1..(Len(st.seq) - 1) |-> Len(st.seq) - i]
           n == Len(seq)
           base == Found([match |-> NoMatch, st |-> st], Len(st.seq), FALSE)
           Op(x, e) == MatchStartOf(x, e, device)
           G == [i \in 1..n |-> [x \in S |-> Op(x, seq[i])]]
           Is(f) == f = [s \in SUBSET (1..n) |->
                           IF s = {} THEN base ELSE Op(f[s \ {Max(s)}], seq[Max(s)])]
<1>0. seq \in Seq(E)
  OBVIOUS
<1> HIDE DEF seq
<1>1. n \in Nat /\ DOMAIN seq = 1..n /\ \A i \in 1..n : seq[i] \in E
  BY <1>0
<1>2. \A i \in 1..n : \A x \in S : G[i][x] = Op(x, seq[i]) /\ G[i][x] \in S
  <2>1. \A x \in S : \A e \in E : Op(x, e) \in S
    OBVIOUS
  <2> HIDE DEF Op
  <2> QED BY <1>1, <2>1
<1>3. MatchStart(st, device) = (CHOOSE f : Is(f))[1..n]
  BY <1>1 DEF MatchStart, seq, FoldLeft, MapThenFoldSet
<1>4. base \in S
  OBVIOUS
<1> HIDE DEF G, Op, base
<1>5. \E f : Is(f)
  <2>1. PICK f : FoldsIn(f, n, S, base, G)
    BY <1>1, <1>2, <1>4, FoldIn
  <2>2. Is(f)
    BY <1>2, <2>1 DEF FoldsIn
  <2> QED BY <2>2
<1>6. ASSUME NEW f, Is(f) PROVE f[1..n] \in S
  <2>1. f[{}] = base
    BY <1>6
  <2>2. ASSUME NEW k \in 1..n PROVE f[1..k] = Op(f[1..(k - 1)], seq[k])
    <3>1. /\ 1..k \in SUBSET (1..n) /\ 1..k # {} /\ Max(1..k) = k
          /\ (1..k) \ {Max(1..k)} = 1..(k - 1)
      BY <1>1, FoldStep
    <3>2. f[1..k] = Op(f[(1..k) \ {Max(1..k)}], seq[Max(1..k)])
      BY <1>6, <3>1
    <3> QED BY <3>1, <3>2
  <2>3. ASSUME NEW k \in 1..n, f[1..(k - 1)] \in S PROVE f[1..k] \in S
    <3>1. Op(f[1..(k - 1)], seq[k]) \in S
      BY <1>2, <2>3
    <3> QED BY <2>2, <3>1
  <2> QED BY <1>1, <1>4, <2>1, <2>3, FoldStays
<1> HIDE DEF Is
<1> QED BY <1>3, <1>5, <1>6

LEMMA FunctionIsSeq ==
  ASSUME NEW X, NEW k \in Nat, NEW f \in [1..k -> X]
  PROVE  f \in Seq(X)
OBVIOUS

LEMMA NoMatchIs ==
  ASSUME NEW n
  PROVE  NoMatch \in Decided(n)
BY NoEventIs DEF NoMatch, Decided, Said

LEMMA MatchStartIs ==
  ASSUME NEW n \in DOMAIN Contexts, NEW V, NEW st \in StageOf(n, V), NEW device
  PROVE  MatchStart(st, device) \in FoundIn(n, V, st)
<1> DEFINE len == Len(st.seq)
           lengths == [i \in 1..(len - 1) |-> len - i]
           none == [match |-> NoMatch, st |-> st]
<1>1. st.seq \in Seq(SeqEvents) /\ len \in Nat
  BY StageFields
<1>2. lengths \in Seq(1..len)
  <2> HIDE DEF len
  <2>1. CASE len = 0
    <3>1. 1..(len - 1) = 1..0 /\ lengths \in [1..0 -> 1..len]
      BY <2>1
    <3> HIDE DEF lengths
    <3>2. lengths \in [1..0 -> 1..len]
      BY <3>1
    <3> QED BY <3>2, FunctionIsSeq
  <2>2. CASE len # 0
    <3>1. len - 1 \in Nat /\ \A i \in 1..(len - 1) : len - i \in 1..len
      BY <1>1, <2>2
    <3>2. lengths \in [1..(len - 1) -> 1..len]
      BY <3>1
    <3> HIDE DEF lengths
    <3> QED BY <3>1, <3>2, FunctionIsSeq
  <2> QED BY <2>1, <2>2
<1>3. Found(none, len, FALSE) \in FoundIn(n, V, st)
  <2>1. none \in [match : Decided(n), st : Keeps(n, V, st)] /\ len \in 0..Len(st.seq)
    BY <1>1, NoMatchIs, KeepsSelf
  <2> HIDE DEF none
  <2> QED BY <2>1, FoundIs
<1>4. ASSUME NEW found \in FoundIn(n, V, st), NEW length \in 1..len
      PROVE  MatchStartOf(found, length, device) \in FoundIn(n, V, st)
  <2> DEFINE start == SubSeq(found.st.seq, 1, length)
             m == MatchInput(found.st, FALSE, TRUE, start, device)
  <2>1. found.st \in Keeps(n, V, st)
    BY DEF FoundIn
  <2>2. found.st \in StageOf(n, V) /\ found.st.seq = st.seq /\ Keeps(n, V, found.st) = Keeps(n, V, st)
    BY <2>1, KeepsIs
  <2>3. start \in Seq(SeqEvents)
    BY <1>1, <2>2
  <2>4. MatchStartOf(found, length, device) \in {found, FoundStart(m, length)}
    BY DEF MatchStartOf
  <2> HIDE DEF start
  <2>5. m \in [match : Decided(n), st : Keeps(n, V, st)]
    BY <2>2, <2>3, MatchInputIs
  <2> HIDE DEF m
  <2>6. length \in 0..Len(st.seq)
    BY <1>1
  <2>7. FoundStart(m, length) \in FoundIn(n, V, st)
    BY <2>5, <2>6, FoundIs
  <2> QED BY <2>4, <2>7
<1> QED BY <1>2, <1>3, <1>4, MatchStartStays

LEMMA HasUpFrom ==
  ASSUME NEW X, NEW seq \in Seq(X), NEW i \in 1..Len(seq), NEW key
  PROVE  HasUp(From(seq, i), key) <=> \E l \in DOMAIN seq : l >= i /\ seq[l].key = key /\ seq[l].state = "Up"
<1> DEFINE m == Len(seq) - i + 1
           s == From(seq, i)
<1>1. /\ Len(seq) \in Nat /\ m \in Nat /\ DOMAIN seq = 1..Len(seq) /\ s \in Seq(X) /\ DOMAIN s = 1..m
      /\ \A j \in 1..m : s[j] = seq[j + i - 1]
  BY DEF From
<1>2. Release(key).key = key /\ Release(key).state = "Up"
  BY DEF Release, Event
<1> HIDE DEF s
<1>3. HasUp(s, key) <=> \E j \in 1..m : s[j].key = key /\ s[j].state = "Up"
  BY <1>1, <1>2 DEF HasUp, SameEvent
<1>4. \A j \in 1..m : j + i - 1 \in 1..Len(seq) /\ j + i - 1 >= i
  BY <1>1
<1>5. \A l \in 1..Len(seq) : l >= i => l - i + 1 \in 1..m /\ (l - i + 1) + i - 1 = l
  BY <1>1
<1> HIDE DEF m
<1>6. ASSUME NEW j \in 1..m, s[j].key = key, s[j].state = "Up"
      PROVE  \E l \in DOMAIN seq : l >= i /\ seq[l].key = key /\ seq[l].state = "Up"
  BY <1>1, <1>4, <1>6
<1>7. ASSUME NEW l \in DOMAIN seq, l >= i, seq[l].key = key, seq[l].state = "Up"
      PROVE  \E j \in 1..m : s[j].key = key /\ s[j].state = "Up"
  <2>1. l - i + 1 \in 1..m /\ s[l - i + 1] = seq[l]
    BY <1>1, <1>5, <1>7
  <2> QED BY <1>7, <2>1
<1> QED BY <1>3, <1>6, <1>7 DEF s

\* What the sequence becomes.
HeldOn(seq, i) == IsDown(seq[i]) /\ ~HasUp(From(seq, i), seq[i].key)
TimedOut(seq, i) == ~IsDown(seq[i]) /\ seq[i].key = "timeout"
KeptOf(seq, length) == Select([i \in 1..length |-> i], LAMBDA i : HeldOn(seq, i) \/ TimedOut(seq, i))
FinishedAt(seq, i) == [seq[i] EXCEPT !.state = IF HeldOn(seq, i) THEN "DownMatched" ELSE "UpMatched"]
Finished(seq, length) == Map(KeptOf(seq, length), LAMBDA i : FinishedAt(seq, i)) \o From(seq, length + 1)

LEMMA KeptAre ==
  ASSUME NEW seq, NEW length \in Nat
  PROVE  /\ KeptOf(seq, length) \in Seq(1..length)
         /\ \A j \in DOMAIN KeptOf(seq, length) :
              LET i == KeptOf(seq, length)[j] IN i \in 1..length /\ (HeldOn(seq, i) \/ TimedOut(seq, i))
         /\ \A j, l \in DOMAIN KeptOf(seq, length) : j < l => KeptOf(seq, length)[j] < KeptOf(seq, length)[l]
         /\ \A i \in 1..length : HeldOn(seq, i) => \E j \in DOMAIN KeptOf(seq, length) : KeptOf(seq, length)[j] = i
<1> DEFINE all == [i \in 1..length |-> i]
           P == {i \in DOMAIN all : HeldOn(seq, all[i]) \/ TimedOut(seq, all[i])}
           k == ElementsAt(all, P)
<1>1. all \in Seq(1..length) /\ Len(all) = length /\ \A i \in 1..length : all[i] = i
  OBVIOUS
<1>2. /\ \A i \in P : i \in 1..length /\ (HeldOn(seq, i) \/ TimedOut(seq, i))
      /\ \A i \in 1..length : HeldOn(seq, i) => i \in P
  OBVIOUS
<1>3. KeptOf(seq, length) = k
  BY DEF KeptOf, Select
<1> HIDE DEF all, P
<1>4. PICK g \in Seq(Nat) : TakenFrom(g, k, all, P, Len(all))
  BY <1>1, ElementsAtTaken
<1>5. k \in Seq(1..length)
  BY <1>1, ElementsAtTaken
<1> HIDE DEF k
<1>6. DOMAIN k = 1..Len(k)
  BY <1>5
<1>7. /\ \A j \in DOMAIN k : g[j] \in 1..length /\ g[j] \in P /\ k[j] = g[j]
      /\ \A j, l \in DOMAIN k : j < l => g[j] < g[l]
      /\ \A i \in 1..length : i \in P => \E j \in DOMAIN k : g[j] = i
  BY <1>1, <1>4, <1>6 DEF TakenFrom
<1>8. \A j \in DOMAIN k : k[j] \in 1..length /\ (HeldOn(seq, k[j]) \/ TimedOut(seq, k[j]))
  BY <1>2, <1>7
<1>9. \A j, l \in DOMAIN k : j < l => k[j] < k[l]
  BY <1>7
<1>10. \A i \in 1..length : HeldOn(seq, i) => \E j \in DOMAIN k : k[j] = i
  BY <1>2, <1>7
<1> QED BY <1>3, <1>5, <1>8, <1>9, <1>10

\* The keys that are held stay, a release that leaves has ended its key.
LEMMA FinishedKnows ==
  ASSUME NEW seq \in Seq(SeqEvents), NEW length \in 0..Len(seq), NEW W, Knows(seq, W),
         Finished(seq, length) \in Seq(SeqEvents)
  PROVE  Knows(Finished(seq, length), W)
<1> DEFINE kept == KeptOf(seq, length)
           m == Len(kept)
           a == Map(kept, LAMBDA i : FinishedAt(seq, i))
           b == From(seq, length + 1)
           s == a \o b
           len == m + (Len(seq) - length)
           g == [j \in 1..len |-> IF j <= m THEN kept[j] ELSE length + (j - m)]
<1>1. length \in Nat /\ Len(seq) \in Nat /\ DOMAIN seq = 1..Len(seq) /\ length <= Len(seq)
  OBVIOUS
<1>2. /\ kept \in Seq(1..length) /\ DOMAIN kept = 1..m /\ m \in Nat
      /\ \A j \in 1..m : kept[j] \in 1..length /\ (HeldOn(seq, kept[j]) \/ TimedOut(seq, kept[j]))
      /\ \A j, l \in 1..m : j < l => kept[j] < kept[l]
      /\ \A i \in 1..length : HeldOn(seq, i) => \E j \in 1..m : kept[j] = i
  <2>1. kept \in Seq(1..length)
    BY <1>1, KeptAre
  <2>2. DOMAIN kept = 1..m /\ m \in Nat
    BY <2>1
  <2>3. /\ \A j \in DOMAIN kept : kept[j] \in 1..length /\ (HeldOn(seq, kept[j]) \/ TimedOut(seq, kept[j]))
        /\ \A j, l \in DOMAIN kept : j < l => kept[j] < kept[l]
        /\ \A i \in 1..length : HeldOn(seq, i) => \E j \in DOMAIN kept : kept[j] = i
    BY <1>1, KeptAre
  <2> HIDE DEF kept, m
  <2> QED BY <2>1, <2>2, <2>3
<1>3. Finished(seq, length) = s
  BY DEF Finished
<1> HIDE DEF kept, m
<1>4. /\ Len(a) = m /\ \A j \in 1..m : a[j] = FinishedAt(seq, kept[j])
      /\ a \in Seq({FinishedAt(seq, i) : i \in 1..length})
  <2> DEFINE Y == {FinishedAt(seq, i) : i \in 1..length}
             f == [j \in DOMAIN kept |-> FinishedAt(seq, kept[j])]
  <2>1. f \in [1..m -> Y]
    BY <1>2
  <2>2. a = SubSeq(f, 1, Len(kept))
    BY DEF Map
  <2>3. Len(kept) = m
    BY DEF m
  <2>4. \A j \in 1..m : f[j] = FinishedAt(seq, kept[j])
    BY <1>2
  <2> HIDE DEF f, Y, a
  <2>5. f \in Seq(Y) /\ Len(f) = m /\ SubSeq(f, 1, m) = f
    BY <1>2, <2>1, MapIs
  <2> QED BY <2>2, <2>3, <2>4, <2>5 DEF Y
<1>5. /\ b \in Seq(SeqEvents) /\ Len(b) = Len(seq) - length
      /\ \A j \in 1..(Len(seq) - length) : b[j] = seq[length + j]
  BY <1>1 DEF From
<1> DEFINE Z == SeqEvents \cup {FinishedAt(seq, i) : i \in 1..length}
<1> HIDE DEF a, b
<1>6. a \in Seq(Z) /\ b \in Seq(Z)
  BY <1>4, <1>5
<1>7. /\ s \in Seq(Z) /\ Len(s) = len /\ DOMAIN s = 1..len /\ len \in Nat
      /\ \A j \in 1..m : s[j] = FinishedAt(seq, kept[j])
      /\ \A j \in 1..(Len(seq) - length) : s[m + j] = seq[length + j]
  <2> HIDE DEF Z
  <2>1. /\ a \o b \in Seq(Z) /\ Len(a \o b) = Len(a) + Len(b)
        /\ \A k \in 1..Len(a) : (a \o b)[k] = a[k]
        /\ \A k \in 1..Len(b) : (a \o b)[Len(a) + k] = b[k]
    BY <1>6, Concatenation
  <2>2. len \in Nat /\ Len(a) = m /\ Len(b) = Len(seq) - length
    BY <1>1, <1>2, <1>4, <1>5
  <2>3. len = m + (Len(seq) - length)
    OBVIOUS
  <2> HIDE DEF len
  <2>4. s \in Seq(Z) /\ Len(s) = len
    BY <2>1, <2>2, <2>3
  <2>5. DOMAIN s = 1..len
    BY <2>4
  <2>6. \A j \in 1..m : s[j] = FinishedAt(seq, kept[j])
    BY <1>4, <2>1, <2>2
  <2>7. \A j \in 1..(Len(seq) - length) : s[m + j] = seq[length + j]
    BY <1>5, <2>1, <2>2
  <2> QED BY <2>2, <2>4, <2>5, <2>6, <2>7
<1>8. ASSUME NEW j \in 1..len PROVE j \in 1..m \/ (~(j <= m) /\ j - m \in 1..(Len(seq) - length) /\ m + (j - m) = j)
  BY <1>1, <1>2
<1>9. \A j \in 1..m : j \in 1..len /\ g[j] = kept[j]
  BY <1>1, <1>2
<1>10. \A j \in 1..len : ~(j <= m) => g[j] = length + (j - m) /\ s[j] = seq[g[j]] /\ g[j] \in (length + 1)..Len(seq)
  <2> SUFFICES ASSUME NEW j \in 1..len, ~(j <= m)
               PROVE  g[j] = length + (j - m) /\ s[j] = seq[g[j]] /\ g[j] \in (length + 1)..Len(seq)
    OBVIOUS
  <2>1. j - m \in 1..(Len(seq) - length) /\ m + (j - m) = j
    BY <1>2, <1>8
  <2>2. g[j] = length + (j - m)
    OBVIOUS
  <2>3. s[j] = seq[length + (j - m)]
    BY <1>7, <2>1
  <2>4. length + (j - m) \in (length + 1)..Len(seq)
    BY <1>1, <1>2, <2>1
  <2> QED BY <2>2, <2>3, <2>4
<1>11. ASSUME NEW i \in (length + 1)..Len(seq) PROVE \E j \in 1..len : g[j] = i /\ ~(j <= m)
  <2>1. (i - length) + m \in 1..len /\ ~((i - length) + m <= m) /\ length + (((i - length) + m) - m) = i
    BY <1>1, <1>2
  <2>2. g[(i - length) + m] = i
    BY <2>1
  <2> QED BY <2>1, <2>2
<1> HIDE DEF g, s
<1>12. \A j \in 1..m : /\ g[j] \in 1..length /\ (HeldOn(seq, g[j]) \/ TimedOut(seq, g[j]))
                       /\ s[j] = FinishedAt(seq, g[j])
  BY <1>2, <1>7, <1>9
<1>13. \A j \in 1..len : g[j] \in 1..Len(seq)
  BY <1>1, <1>8, <1>10, <1>12
<1>14. ASSUME NEW j \in 1..m
       PROVE  /\ s[j].key = seq[g[j]].key
              /\ s[j].key \in VirtualKeys =>
                   s[j].state = "DownMatched" /\ seq[g[j]].state # "Up" /\ HeldOn(seq, g[j])
  <2>1. s[j] = FinishedAt(seq, g[j]) /\ (HeldOn(seq, g[j]) \/ TimedOut(seq, g[j]))
    BY <1>12
  <2>2. seq[g[j]] \in SeqEvents
    BY <1>1, <1>9, <1>13
  <2>3. /\ s[j].key = seq[g[j]].key
        /\ HeldOn(seq, g[j]) => s[j].state = "DownMatched"
    BY <2>1, <2>2 DEF FinishedAt, SeqEvents, EventsOf
  <2>4. "timeout" \notin VirtualKeys
    BY KeyKindsAreDisjoint
  <2> QED BY <2>1, <2>3, <2>4 DEF HeldOn, TimedOut, IsDown
<1>15. Picks(g, s, seq)
  <2>1. \A j \in 1..len : g[j] \in DOMAIN seq /\ s[j].key = seq[g[j]].key
    BY <1>1, <1>8, <1>10, <1>13, <1>14
  <2>2. ASSUME NEW j \in 1..len, NEW l \in 1..len, j < l PROVE g[j] < g[l]
    <3>1. CASE l \in 1..m
      <4>1. j \in 1..m
        BY <1>2, <2>2, <3>1
      <4> QED BY <1>2, <1>9, <2>2, <3>1, <4>1
    <3>2. CASE ~(l <= m)
      <4>1. g[l] = length + (l - m) /\ g[l] \in (length + 1)..Len(seq)
        BY <1>10, <3>2
      <4>2. CASE j \in 1..m
        <5>1. g[j] \in 1..length
          BY <1>12, <4>2
        <5> QED BY <1>1, <4>1, <5>1
      <4>3. CASE ~(j <= m)
        <5>1. g[j] = length + (j - m)
          BY <1>10, <4>3
        <5> QED BY <1>1, <1>2, <2>2, <4>1, <5>1
      <4> QED BY <1>8, <4>2, <4>3
    <3> QED BY <1>8, <3>1, <3>2
  <2> QED BY <1>7, <2>1, <2>2 DEF Picks
<1>16. ASSUME NEW key \in VirtualKeys PROVE PicksHeld(g, s, seq, key)
  <2>1. ASSUME NEW j \in DOMAIN s, s[j].key = key PROVE s[j].state = "Up" <=> seq[g[j]].state = "Up"
    BY <1>7, <1>8, <1>10, <1>14, <1>16, <2>1
  <2>2. ASSUME NEW i \in DOMAIN seq, HeldAt(seq, i, key) PROVE \E j \in DOMAIN s : g[j] = i
    <3>1. CASE i \in (length + 1)..Len(seq)
      BY <1>7, <1>11, <3>1
    <3>2. CASE i \in 1..length
      <4>1. seq[i].key = key /\ seq[i].state \in {"Down", "DownMatched"}
        BY <1>16, <2>2 DEF HeldAt, Knows, VirtualStates
      <4>2. ~HasUp(From(seq, i), key)
        <5>1. i \in 1..Len(seq)
          BY <1>1
        <5>2. ASSUME NEW l \in DOMAIN seq, l >= i, seq[l].key = key PROVE seq[l].state # "Up"
          <6>1. l = i \/ l > i
            BY <1>1, <5>1, <5>2
          <6> QED BY <2>2, <5>2, <6>1 DEF HeldAt
        <5> QED BY <5>1, <5>2, HasUpFrom
      <4>3. HeldOn(seq, i)
        BY <4>1, <4>2 DEF HeldOn, IsDown
      <4>4. PICK j \in 1..m : kept[j] = i
        BY <1>2, <3>2, <4>3
      <4> QED BY <1>7, <1>9, <4>4
    <3> QED BY <1>1, <3>1, <3>2
  <2>3. ASSUME NEW j \in DOMAIN s, HeldAt(s, j, key), NEW i \in DOMAIN seq, i > g[j], seq[i].key = key
        PROVE  seq[i].state # "Up"
    <3>0. j \in 1..len /\ s[j].key = key /\ g[j] \in 1..Len(seq)
      BY <1>7, <1>13, <2>3 DEF HeldAt
    <3>1. CASE j \in 1..m
      <4>1. HeldOn(seq, g[j]) /\ seq[g[j]].key = key
        BY <1>14, <1>16, <3>0, <3>1
      <4>2. i >= g[j]
        BY <1>1, <2>3, <3>0
      <4> QED BY <2>3, <3>0, <4>1, <4>2, HasUpFrom DEF HeldOn
    <3>2. CASE ~(j <= m)
      <4>1. g[j] \in (length + 1)..Len(seq) /\ g[j] = length + (j - m)
        BY <1>10, <3>0, <3>2
      <4>2. i \in (length + 1)..Len(seq)
        BY <1>1, <2>3, <4>1
      <4>3. PICK k \in 1..len : g[k] = i /\ ~(k <= m)
        BY <1>11, <4>2
      <4>4. g[k] = length + (k - m) /\ s[k] = seq[i]
        BY <1>10, <4>3
      <4>5. k > j
        BY <1>1, <1>2, <2>3, <3>0, <4>1, <4>3, <4>4
      <4> QED BY <1>7, <2>3, <4>3, <4>4, <4>5 DEF HeldAt
    <3> QED BY <1>8, <3>0, <3>1, <3>2
  <2> QED BY <2>1, <2>2, <2>3 DEF PicksHeld
<1>17. \A j \in DOMAIN s : s[j].key \in VirtualKeys => s[j].state \in VirtualStates
  <2>1. \A j \in 1..m : s[j].key \in VirtualKeys => s[j].state \in VirtualStates
    BY <1>14 DEF VirtualStates
  <2>2. \A j \in 1..len : ~(j <= m) => (s[j].key \in VirtualKeys => s[j].state \in VirtualStates)
    BY <1>1, <1>10, <1>13 DEF Knows
  <2> QED BY <1>7, <1>8, <2>1, <2>2
<1> HIDE DEF Z
<1>18. Knows(s, W)
  BY <1>7, <1>15, <1>16, <1>17, PickKnows
<1> QED BY <1>3, <1>18

LEMMA FinishSequenceIs ==
  ASSUME NEW n, NEW V, NEW st \in StageOf(n, V), NEW length \in 0..Len(st.seq)
  PROVE  FinishSequence(st, length) \in StageOf(n, V) /\ FinishSequence(st, length).might = st.might
<1> DEFINE held(i) == HeldOn(st.seq, i)
           kept == KeptOf(st.seq, length)
           finished(i) == FinishedAt(st.seq, i)
           seq == Map(kept, finished) \o From(st.seq, length + 1)
<1>1. /\ st.seq \in Seq(SeqEvents) /\ Len(st.seq) \in Nat /\ length \in Nat
      /\ length + 1 \in 1..(Len(st.seq) + 1) /\ Knows(st.seq, V.down)
  BY StageFields
<1>2. FinishSequence(st, length) = [st EXCEPT !.seq = seq] /\ seq = Finished(st.seq, length)
  BY DEF FinishSequence, Finished, FinishedAt, KeptOf, HeldOn, TimedOut
<1>3. kept \in Seq(1..length)
  BY <1>1, KeptAre
<1>4. \A i \in 1..length : finished(i) \in SeqEvents
  <2> SUFFICES ASSUME NEW i \in 1..length PROVE finished(i) \in SeqEvents
    OBVIOUS
  <2> DEFINE state == IF held(i) THEN "DownMatched" ELSE "UpMatched"
             ev == st.seq[i]
  <2>1. state \in KeyStates
    BY DEF KeyStates
  <2>2. i \in DOMAIN st.seq
    BY <1>1
  <2>3. ev \in SeqEvents
    BY <1>1, <2>2, ElementIs
  <2>4. finished(i) = [ev EXCEPT !.state = state]
    BY DEF FinishedAt
  <2> HIDE DEF state, ev, finished
  <2> QED BY <2>1, <2>3, <2>4 DEF SeqEvents, EventsOf
<1> HIDE DEF finished, kept, held
<1>5. Map(kept, finished) \in Seq(SeqEvents)
  <2>1. Len(kept) \in Nat /\ DOMAIN kept = 1..Len(kept) /\ \A i \in DOMAIN kept : kept[i] \in 1..length
    BY <1>3
  <2>2. [i \in DOMAIN kept |-> finished(kept[i])] \in [1..Len(kept) -> SeqEvents]
    BY <1>4, <2>1
  <2> QED BY <2>1, <2>2, MapIs DEF Map
<1>6. From(st.seq, length + 1) \in Seq(SeqEvents)
  BY <1>1, FromIs
<1>7. seq \in Seq(SeqEvents)
  <2> DEFINE a == Map(kept, finished)
             b == From(st.seq, length + 1)
  <2>1. a \in Seq(SeqEvents) /\ b \in Seq(SeqEvents) /\ seq = a \o b
    BY <1>5, <1>6
  <2> HIDE DEF a, b, seq
  <2> QED BY <2>1
<1>8. Knows(seq, V.down)
  BY <1>1, <1>2, <1>7, FinishedKnows
<1> HIDE DEF seq
<1> QED BY <1>2, <1>7, <1>8, SetSeq

LEMMA SeqEventsAre ==
  /\ SeqEvents \subseteq OutEvents /\ SeqEvents \subseteq ExpressionEvents /\ SeqKeys \subseteq AllKeys
  /\ OutEvents \subseteq ExpressionEvents
<1>1. SeqKeys \subseteq OutputKeys /\ OutputKeys \subseteq AllKeys
  BY DEF SeqKeys, OutputKeys, AllKeys
<1> QED BY <1>1, EventsWiden DEF SeqEvents, OutEvents, ExpressionEvents

\* What is before the event that is forwarded is held.
LEMMA ForwardedKnows ==
  ASSUME NEW seq \in Seq(SeqEvents), NEW W, Knows(seq, W), NEW i \in 1..Len(seq),
         \A l \in 1..(i - 1) : seq[l].state = "DownMatched" /\ ~HasUp(From(seq, l), seq[l].key)
  PROVE  /\ ~IsDown(seq[i]) \/ HasUp(From(seq, i), seq[i].key) => Knows(RemoveAt(seq, i), W)
         /\ IsDown(seq[i]) => Knows([seq EXCEPT ![i] = [seq[i] EXCEPT !.state = "DownMatched"]], W)
<1> DEFINE key == seq[i].key
           kept == [seq EXCEPT ![i] = [seq[i] EXCEPT !.state = "DownMatched"]]
<1>1. Len(seq) \in Nat /\ DOMAIN seq = 1..Len(seq) /\ i \in 0..Len(seq) /\ seq[i] \in SeqEvents
  OBVIOUS
<1>2. key \in VirtualKeys /\ ~IsDown(seq[i]) =>
        seq[i].state = "Up" /\ \A l \in DOMAIN seq : l < i => seq[l].key # key
  <2> SUFFICES ASSUME key \in VirtualKeys, ~IsDown(seq[i])
               PROVE  seq[i].state = "Up" /\ \A l \in DOMAIN seq : l < i => seq[l].key # key
    OBVIOUS
  <2>1. seq[i].state = "Up"
    BY <1>1 DEF Knows, VirtualStates, IsDown
  <2>2. ASSUME NEW l \in DOMAIN seq, l < i, seq[l].key = key PROVE FALSE
    <3>1. l \in 1..(i - 1) /\ l \in 1..Len(seq) /\ i >= l
      BY <1>1, <2>2
    <3>2. HasUp(From(seq, l), key)
      BY <1>1, <2>1, <3>1, HasUpFrom
    <3> QED BY <2>2, <3>1, <3>2
  <2> QED BY <2>1, <2>2
<1>3. IsDown(seq[i]) /\ HasUp(From(seq, i), key) =>
        seq[i].state # "Up" /\ \E l \in DOMAIN seq : l > i /\ seq[l].key = key
  <2> SUFFICES ASSUME IsDown(seq[i]), HasUp(From(seq, i), key)
               PROVE  seq[i].state # "Up" /\ \E l \in DOMAIN seq : l > i /\ seq[l].key = key
    OBVIOUS
  <2>1. PICK l \in DOMAIN seq : l >= i /\ seq[l].key = key /\ seq[l].state = "Up"
    BY HasUpFrom
  <2>2. seq[i].state # "Up"
    BY DEF IsDown
  <2>3. l > i
    BY <1>1, <2>1, <2>2
  <2> QED BY <2>1, <2>2, <2>3
<1>4. ~IsDown(seq[i]) \/ HasUp(From(seq, i), key) => Knows(RemoveAt(seq, i), W)
  BY <1>1, <1>2, <1>3, RemoveKnows
<1>5. IsDown(seq[i]) => Knows(kept, W)
  <2> SUFFICES ASSUME IsDown(seq[i]) PROVE Knows(kept, W)
    OBVIOUS
  <2>1. /\ DOMAIN kept = DOMAIN seq /\ kept[i].key = key /\ kept[i].state = "DownMatched"
        /\ \A j \in DOMAIN seq : j # i => kept[j] = seq[j]
    BY <1>1 DEF SeqEvents, EventsOf
  <2>2. seq[i].state # "Up"
    BY DEF IsDown
  <2>3. kept \in Seq(SeqEvents \cup {kept[i]})
    <3>1. kept = [j \in DOMAIN seq |-> kept[j]]
      OBVIOUS
    <3> HIDE DEF kept
    <3>2. \A j \in DOMAIN seq : kept[j] \in SeqEvents \cup {kept[i]}
      BY <1>1, <2>1
    <3>3. kept \in [1..Len(seq) -> SeqEvents \cup {kept[i]}]
      BY <1>1, <3>1, <3>2
    <3> QED BY <1>1, <3>3, MapIs
  <2> HIDE DEF kept, key
  <2>4. ASSUME NEW j \in DOMAIN kept
        PROVE  /\ kept[j].key = seq[j].key
               /\ kept[j].key \in VirtualKeys =>
                    kept[j].state \in VirtualStates /\ (kept[j].state = "Up" <=> seq[j].state = "Up")
    <3>1. CASE j = i
      BY <2>1, <2>2, <3>1 DEF VirtualStates, key
    <3>2. CASE j # i
      BY <2>1, <3>2 DEF Knows
    <3> QED BY <3>1, <3>2
  <2> QED BY <2>1, <2>3, <2>4, RestateKnows
<1> QED BY <1>4, <1>5

LEMMA ForwardAtIs ==
  ASSUME NEW n, NEW V, NEW st \in StageOf(n, V), NEW i \in 0..Len(st.seq), NEW released,
         released = IsReleased(st, i),
         \A l \in 1..(i - 1) : st.seq[l].state = "DownMatched" /\ ~IsReleased(st, l)
  PROVE  ForwardAt(st, i, st.seq[i], released) \in StageOf(n, V)
<1> DEFINE event == st.seq[i]
           a == ReleaseTriggered(st, event.key, -1)
           b == IF IsForwarded(st, released) THEN UpdateOutput(st, event, event.key, -1) ELSE st
           matched == [event EXCEPT !.state = "DownMatched"]
           without == RemoveAt(st.seq, i)
           kept == [st.seq EXCEPT ![i] = matched]
<1>1. st.seq \in Seq(SeqEvents) /\ Len(st.seq) \in Nat /\ Knows(st.seq, V.down)
  BY StageFields
<1>2. CASE i = 0
  BY <1>2 DEF ForwardAt
<1>3. CASE i # 0
  <2>1. i \in DOMAIN st.seq
    BY <1>1, <1>3
  <2>2. event \in SeqEvents
    BY <1>1, <2>1, ElementIs
  <2>3. event \in OutEvents /\ event.key \in AllKeys /\ -1 \in Int
    BY <2>2, SeqEventsAre, EventFields DEF SeqEvents
  <2>4. a \in Keeps(n, V, st)
    BY ReleaseTriggeredIs
  <2>0. /\ ~IsDown(event) \/ released => Knows(without, V.down)
        /\ IsDown(event) => Knows(kept, V.down)
    <3>1. i \in 1..Len(st.seq)
      BY <1>1, <2>1
    <3>2. \A l \in 1..(i - 1) : st.seq[l].state = "DownMatched" /\ ~HasUp(From(st.seq, l), st.seq[l].key)
      BY DEF IsReleased
    <3>3. /\ ~IsDown(event) \/ HasUp(From(st.seq, i), event.key) => Knows(without, V.down)
          /\ IsDown(event) => Knows(kept, V.down)
      BY <1>1, <3>1, <3>2, ForwardedKnows
    <3>4. released => HasUp(From(st.seq, i), event.key)
      BY DEF IsReleased
    <3> QED BY <3>3, <3>4
  <2> HIDE DEF event
  <2>5. b \in Keeps(n, V, st)
    BY <2>3, UpdateOutputIs, KeepsSelf
  <2>6. without \in Seq(SeqEvents)
    BY <1>1, RemoveAtIs
  <2>7. matched \in SeqEvents
    BY <2>2 DEF SeqEvents, EventsOf, KeyStates
  <2> HIDE DEF matched
  <2>8. kept \in Seq(SeqEvents)
    BY <1>1, <2>1, <2>7
  <2>9. /\ a \in StageOf(n, V) /\ a.seq = st.seq
        /\ b \in StageOf(n, V) /\ b.seq = st.seq
    <3> HIDE DEF a, b
    <3> QED BY <2>4, <2>5, KeepsIs
  <2>10. ForwardAt(st, i, event, released) =
           IF ~IsDown(event) THEN [a EXCEPT !.seq = RemoveAt(@, i)]
           ELSE [b EXCEPT !.seq = IF released THEN RemoveAt(@, i) ELSE [@ EXCEPT ![i].state = "DownMatched"]]
    BY <1>3 DEF ForwardAt
  <2>11. [b.seq EXCEPT ![i].state = "DownMatched"] = kept
    BY <2>9 DEF matched, event
  <2>14. ForwardAt(st, i, event, released) =
           IF ~IsDown(event) THEN [a EXCEPT !.seq = without]
           ELSE IF released THEN [b EXCEPT !.seq = without] ELSE [b EXCEPT !.seq = kept]
    BY <2>9, <2>10, <2>11
  <2> HIDE DEF a, b, kept, without
  <2>12. Knows(without, V.down) =>
           [a EXCEPT !.seq = without] \in StageOf(n, V) /\ [b EXCEPT !.seq = without] \in StageOf(n, V)
    BY <2>6, <2>9, SetSeq
  <2>13. Knows(kept, V.down) => [b EXCEPT !.seq = kept] \in StageOf(n, V)
    BY <2>8, <2>9, SetSeq
  <2> QED BY <2>0, <2>12, <2>13, <2>14 DEF event
<1> QED BY <1>2, <1>3

LEMMA ForwardFromSequenceIs ==
  ASSUME NEW n, NEW V, NEW st \in StageOf(n, V)
  PROVE  ForwardFromSequence(st) \in StageOf(n, V)
<1> DEFINE positions == {j \in DOMAIN st.seq : st.seq[j].state # "DownMatched" \/ IsReleased(st, j)}
           i == FirstOf(positions)
<1>1. st.seq \in Seq(SeqEvents) /\ Len(st.seq) \in Nat
  BY StageFields
<1>2. positions \in SUBSET (1..Len(st.seq))
  BY <1>1
<1>3. ForwardFromSequence(st) = ForwardAt(st, i, st.seq[i], IsReleased(st, i))
  BY DEF ForwardFromSequence
<1>5. \A l \in 1..Len(st.seq) : l \in positions <=> st.seq[l].state # "DownMatched" \/ IsReleased(st, l)
  BY <1>1
<1> HIDE DEF positions
<1>4. i \in 0..Len(st.seq) /\ (positions # {} => \A l \in positions : i <= l) /\ (positions = {} => i = 0)
  BY <1>1, <1>2, FirstOfIs
<1> HIDE DEF i
<1>6. ASSUME NEW l \in 1..(i - 1) PROVE st.seq[l].state = "DownMatched" /\ ~IsReleased(st, l)
  <2>1. l \in 1..Len(st.seq) /\ ~(i <= l) /\ i # 0
    BY <1>1, <1>4
  <2>2. l \notin positions
    BY <1>4, <2>1
  <2> QED BY <1>5, <2>1, <2>2
<1> QED BY <1>3, <1>4, <1>6, ForwardAtIs

-----------------------------------------------------------------------------
(* A round of the loop that matches the sequence. *)

LEMMA RequestTimeoutIs ==
  ASSUME NEW n, NEW V, NEW st \in StageOf(n, V), NEW request \in ExpressionEvents
  PROVE  RequestTimeout(st, request) \in Keeps(n, V, st)
<1> DEFINE positions == {i \in DOMAIN st.seq : IsDown(st.seq[i])}
           down == LastOf(positions)
           known == /\ st.timeout # NoTimeout /\ SameEvent(st.timeout.event, request)
                    /\ st.timeout.trigger = st.seq[down].key
           t == [NoTimeout EXCEPT !.event = request, !.trigger = st.seq[down].key]
           s == Emit(st, request)
<1>1. st.seq \in Seq(SeqEvents) /\ Len(st.seq) \in Nat /\ DOMAIN st.seq = 1..Len(st.seq)
  BY StageFields
<1>2. positions \in SUBSET (1..Len(st.seq))
  BY <1>1
<1>3. RequestTimeout(st, request) = IF request.key # "timeout" THEN st
                                    ELSE IF down = 0 \/ known THEN s
                                    ELSE [s EXCEPT !.timeout = t]
  BY DEF RequestTimeout
<1> HIDE DEF positions, known
<1>4. down \in 0..Len(st.seq)
  BY <1>1, <1>2, LastOfIs
<1> HIDE DEF down
<1>5. down # 0 => t \in Timeouts(n)
  <2> SUFFICES ASSUME down # 0 PROVE t \in Timeouts(n)
    OBVIOUS
  <2>1. down \in DOMAIN st.seq
    BY <1>1, <1>4
  <2>2. st.seq[down] \in SeqEvents
    BY <1>1, <2>1, ElementIs
  <2>3. st.seq[down].key \in AllKeys
    BY <2>2, SeqEventsAre, EventFields DEF SeqEvents
  <2> DEFINE key == st.seq[down].key
  <2>4. t = [NoTimeout EXCEPT !.event = request, !.trigger = key]
    OBVIOUS
  <2> HIDE DEF key, t
  <2>5. key \in AllKeys
    BY <2>3 DEF key
  <2>6. NoTimeout \in Timeouts(n)
    BY NoTimeoutIs
  <2> QED BY <2>4, <2>5, <2>6 DEF Timeouts, ExpressionEvents
<1>6. request.key = "timeout" => s \in Keeps(n, V, st) /\ s \in StageOf(n, V) /\ Keeps(n, V, s) = Keeps(n, V, st)
  <2>1. request.key = "timeout" => request \in OutEvents
    BY DEF ExpressionEvents, OutEvents, EventsOf, OutputKeys
  <2> QED BY <2>1, EmitIs, KeepsIs
<1> HIDE DEF s, t
<1> QED BY <1>3, <1>5, <1>6, SetTimeout, KeepsSelf

LEMMA TrackTimeoutIs ==
  ASSUME NEW n, NEW V, NEW st \in StageOf(n, V), NEW event, NEW match \in Said(n), NEW startOnly
  PROVE  TrackTimeout(st, event, match, startOnly) \in Keeps(n, V, st)
<1> DEFINE t == st.timeout
           a == [st EXCEPT !.timeout.notExceeded = @ \/ match.result = "no_match"]
           b == [st EXCEPT !.timeout.matched = << >>]
           c == [st EXCEPT !.timeout.matched = match.output]
<1>1. t \in Timeouts(n)
  BY StageFields
<1>2. match.output \in References(n) \cup {<< >>}
  BY DEF Said
<1>3. TrackTimeout(st, event, match, startOnly) \in {st, a, b, [st EXCEPT !.timeout.matched = @], c}
  BY DEF TrackTimeout
<1>4. a \in Keeps(n, V, st)
  <2> DEFINE x == t.notExceeded \/ match.result = "no_match"
             u == [t EXCEPT !.notExceeded = x]
  <2>1. x \in BOOLEAN
    OBVIOUS
  <2>2. a = [st EXCEPT !.timeout = u]
    BY StageFields DEF StageOf
  <2> HIDE DEF x
  <2>3. u \in Timeouts(n)
    BY <1>1, <2>1 DEF Timeouts
  <2> HIDE DEF u, a
  <2> QED BY <2>2, <2>3, SetTimeout
<1>5. ASSUME NEW x \in References(n) \cup {<< >>}
      PROVE  [st EXCEPT !.timeout.matched = x] \in Keeps(n, V, st)
  <2> DEFINE u == [t EXCEPT !.matched = x]
             v == [st EXCEPT !.timeout.matched = x]
  <2>1. v = [st EXCEPT !.timeout = u]
    BY StageFields DEF StageOf
  <2>2. u \in Timeouts(n)
    BY <1>1 DEF Timeouts
  <2> HIDE DEF u, v
  <2> QED BY <2>1, <2>2, SetTimeout DEF v
<1>6. b \in Keeps(n, V, st) /\ c \in Keeps(n, V, st)
  BY <1>2, <1>5
<1>7. [st EXCEPT !.timeout.matched = @] \in Keeps(n, V, st)
  <2>1. [st EXCEPT !.timeout.matched = @] = [st EXCEPT !.timeout.matched = t.matched]
    OBVIOUS
  <2>2. t.matched \in References(n) \cup {<< >>}
    BY <1>1, TimeoutFields
  <2> QED BY <1>5, <2>1, <2>2
<1> HIDE DEF a, b, c
<1> QED BY <1>3, <1>4, <1>6, <1>7, KeepsSelf

LEMMA ChooseTriggerIs ==
  ASSUME NEW n, NEW V, NEW st \in StageOf(n, V), NEW event \in ExpressionEvents, NEW trigger \in ExpressionEvents,
         NEW output
  PROVE  ChooseTrigger(st, event, trigger, output) \in ExpressionEvents
<1> DEFINE a == OptimizeTrigger(st, event, trigger, output)
           b == TriggerOfTimeout(st, a)
<1>1. a \in ExpressionEvents
  BY DEF OptimizeTrigger
<1>2. Press(st.timeout.trigger) \in ExpressionEvents
  BY StageFields, TimeoutFields, PressIs DEF ExpressionEvents
<1> HIDE DEF a
<1>3. b \in ExpressionEvents
  BY <1>1, <1>2 DEF TriggerOfTimeout
<1> HIDE DEF b
<1>4. EnsureTriggerIsDown(st, event, b, output) \in ExpressionEvents
  BY <1>3 DEF EnsureTriggerIsDown
<1> QED BY <1>4 DEF ChooseTrigger, a, b

\* What is down may be waited for, and so may an event.
Settled(V, event) == V.down \subseteq V.held /\ MayHold(V, event)

LEMMA ChosenMayHold ==
  ASSUME NEW n, NEW V, NEW st \in StageOf(n, V), NEW event, NEW trigger, NEW output, Settled(V, event),
         \E i \in DOMAIN output : IsOutputOnRelease(output[i]), output \in OutputExpressions
  PROVE  MayHold(V, ChooseTrigger(st, event, trigger, output))
<1> DEFINE p == Press(st.timeout.trigger)
           b == TriggerOfTimeout(st, event)
<1>1. OptimizeTrigger(st, event, trigger, output) = event
  BY DEF OptimizeTrigger
<1>2. ChooseTrigger(st, event, trigger, output) = EnsureTriggerIsDown(st, event, b, output)
  BY <1>1 DEF ChooseTrigger
<1>3. b \in {event, p}
  BY DEF TriggerOfTimeout
<1>4. MayHold(V, event) /\ V.down \subseteq V.held
  BY DEF Settled
<1> HIDE DEF b
<1>5. ASSUME IsPhysicallyPressed(st, p.key) PROVE MayHold(V, p)
  <2>1. st.seq \in Seq(SeqEvents) /\ Knows(st.seq, V.down)
    BY StageFields
  <2>2. Holds(st.seq, p.key)
    BY <1>5, <2>1, PressedIsHeld
  <2> HIDE DEF p
  <2>3. p.key \in VirtualKeys => p.key \in V.down
    BY <2>1, <2>2 DEF Knows
  <2> QED BY <1>4, <2>3 DEF MayHold
<1>6. ASSUME Len(output) = 1, SameEvent(output[1], b) PROVE MayHold(V, b)
  <2>1. DOMAIN output = 1..1
    BY <1>6 DEF OutputExpressions
  <2>2. output[1].state = "OutputOnRelease"
    BY <2>1 DEF IsOutputOnRelease
  <2> QED BY <1>6, <2>2 DEF SameEvent, MayHold
<1> HIDE DEF p
<1>7. EnsureTriggerIsDown(st, event, b, output) = event \/
      (EnsureTriggerIsDown(st, event, b, output) = b
         /\ (IsPhysicallyPressed(st, b.key) \/ (Len(output) = 1 /\ SameEvent(output[1], b))))
  BY DEF EnsureTriggerIsDown
<1> QED BY <1>2, <1>3, <1>4, <1>5, <1>6, <1>7

LEMMA AppliedIs ==
  ASSUME NEW n \in DOMAIN Contexts, NEW V, NEW st \in StageOf(n, V), NEW found \in FoundIn(n, V, st),
         NEW event \in ExpressionEvents, Settled(V, event)
  PROVE  Applied(found, event) \in StageOf(n, V)
<1> DEFINE s == found.st
           output == OutputSequence(s, found.match.output)
           trigger == ChooseTrigger(s, event, found.match.trigger, output)
           a == ApplyMatch(s, event, found.match, output)
           f == FinishSequence(a, found.length)
           w == ForwardFromSequence(s)
<1>1. s \in Keeps(n, V, st) /\ found.match \in Decided(n) /\ found.length \in 0..Len(st.seq)
  BY DEF FoundIn
<1>2. found.startOnly \in BOOLEAN
  BY DEF FoundIn
<1>3. s \in StageOf(n, V) /\ s.seq = st.seq
  BY <1>1, KeepsIs
<1>4. Applied(found, event) = IF found.match.result = "match"
                              THEN [f EXCEPT !.might = @ /\ found.startOnly] ELSE StillMight(w)
  BY DEF Applied
<1>5. CASE found.match.result = "match"
  <2>1. /\ found.match.output \in References(n) /\ found.match.trigger \in ExpressionEvents
        /\ found.match.ctx \in Int
    BY <1>1, <1>5 DEF Decided, Said
  <2> HIDE DEF s
  <2>2. output \in OutputExpressions
    BY <1>3, <2>1, OutputSequenceIs
  <2> HIDE DEF output
  <2>3. trigger \in ExpressionEvents
    BY <1>3, <2>1, ChooseTriggerIs
  <2>0. (\E i \in DOMAIN output : IsOutputOnRelease(output[i])) => MayHold(V, trigger)
    BY <1>3, <2>2, ChosenMayHold
  <2>4. a = ApplyOutput(s, output, trigger, found.match.ctx)
    BY DEF ApplyMatch
  <2> HIDE DEF trigger, a
  <2>5. a \in Keeps(n, V, s)
    BY <1>3, <2>0, <2>1, <2>2, <2>3, <2>4, ApplyOutputIs DEF ExpressionEvents
  <2>6. a \in StageOf(n, V) /\ a.seq = st.seq
    BY <1>3, <2>5, KeepsIs
  <2>7. f \in StageOf(n, V) /\ f.might \in BOOLEAN
    BY <1>1, <2>6, FinishSequenceIs, StageFields
  <2> DEFINE x == f.might /\ found.startOnly
  <2>8. x \in BOOLEAN /\ [f EXCEPT !.might = @ /\ found.startOnly] = [f EXCEPT !.might = x]
    OBVIOUS
  <2> HIDE DEF x, f
  <2>9. [f EXCEPT !.might = x] \in StageOf(n, V)
    BY <2>7, <2>8, SetMight
  <2> QED BY <1>4, <1>5, <2>8, <2>9
<1>6. CASE found.match.result # "match"
  <2> HIDE DEF s
  <2>1. w \in StageOf(n, V)
    BY <1>3, ForwardFromSequenceIs
  <2> HIDE DEF w
  <2> DEFINE x == w.might /\ HasNonOptional(w.seq)
  <2>2. x \in BOOLEAN /\ StillMight(w) = [w EXCEPT !.might = x]
    BY DEF StillMight
  <2> HIDE DEF x
  <2>3. [w EXCEPT !.might = x] \in StageOf(n, V)
    BY <2>1, <2>2, SetMight
  <2> QED BY <1>4, <1>6, <2>2, <2>3
<1> QED BY <1>5, <1>6

Rounds(n, V) == [st : StageOf(n, V), matchedAreOptional : {TRUE, FALSE}, done : {TRUE, FALSE}]

LEMMA RoundIs ==
  ASSUME NEW n, NEW V, NEW st \in StageOf(n, V), NEW optional \in {TRUE, FALSE}
  PROVE  Round(st, optional, TRUE) \in Rounds(n, V) /\ Round(st, optional, FALSE) \in Rounds(n, V)
BY DEF Round, Rounds

LEMMA ProceedIs ==
  ASSUME NEW n \in DOMAIN Contexts, NEW V, NEW st \in StageOf(n, V), NEW found \in FoundIn(n, V, st),
         NEW event \in ExpressionEvents, NEW optional \in {TRUE, FALSE}, Settled(V, event)
  PROVE  Proceed(Requested(found), event, optional) \in Rounds(n, V)
<1> DEFINE r == Requested(found)
           p == Permitted(r, event)
           t == Tracked(p, event)
<1>1. found.st \in Keeps(n, V, st) /\ found.match \in Decided(n) /\ found.length \in 0..Len(st.seq)
  BY DEF FoundIn
<1>2. found.st \in StageOf(n, V) /\ Keeps(n, V, found.st) = Keeps(n, V, st)
  BY <1>1, KeepsIs
<1>3. r \in FoundIn(n, V, st)
  <2> DEFINE s == RequestTimeout(found.st, found.match.timeout)
  <2>1. found.match.timeout \in ExpressionEvents
    BY <1>1 DEF Decided, Said
  <2>2. s \in Keeps(n, V, st)
    BY <1>2, <2>1, RequestTimeoutIs
  <2>3. r = [found EXCEPT !.st = s]
    BY DEF Requested
  <2> HIDE DEF s, r
  <2> QED BY <2>2, <2>3 DEF FoundIn
<1>4. Proceed(r, event, optional) = IF r.match.result = "might_match"
                                    THEN Round([r.st EXCEPT !.might = TRUE], optional, TRUE)
                                    ELSE Round(Applied(t, event), optional, FALSE)
  BY DEF Proceed
<1> HIDE DEF r
<1>5. p \in FoundIn(n, V, st)
  <2>1. p \in {r, [r EXCEPT !.match = NoMatch]}
    BY DEF Permitted
  <2> HIDE DEF p
  <2> QED BY <1>3, <2>1, NoMatchIs DEF FoundIn
<1> HIDE DEF p
<1>6. t \in FoundIn(n, V, st)
  <2> DEFINE s == TrackTimeout(p.st, event, p.match, p.startOnly)
  <2>1. p.st \in Keeps(n, V, st) /\ p.match \in Decided(n)
    BY <1>5 DEF FoundIn
  <2>2. p.st \in StageOf(n, V) /\ Keeps(n, V, p.st) = Keeps(n, V, st) /\ p.match \in Said(n)
    BY <2>1, KeepsIs DEF Decided
  <2>3. s \in Keeps(n, V, st)
    BY <2>2, TrackTimeoutIs
  <2>4. t = [p EXCEPT !.st = s]
    BY DEF Tracked
  <2> HIDE DEF s, t
  <2> QED BY <1>5, <2>3, <2>4 DEF FoundIn
<1> HIDE DEF t
<1>7. Applied(t, event) \in StageOf(n, V)
  BY <1>6, AppliedIs
<1>8. r.st \in StageOf(n, V)
  BY <1>3, KeepsIs DEF FoundIn
<1>9. [r.st EXCEPT !.might = TRUE] \in StageOf(n, V)
  BY <1>8, SetMight
<1>10. Round(Applied(t, event), optional, FALSE) \in Rounds(n, V)
  BY <1>7, RoundIs
<1>11. Round([r.st EXCEPT !.might = TRUE], optional, TRUE) \in Rounds(n, V)
  BY <1>9, RoundIs
<1> QED BY <1>4, <1>10, <1>11 DEF r

LEMMA WholeMatchedIs ==
  ASSUME NEW n \in DOMAIN Contexts, NEW V, NEW st \in StageOf(n, V), NEW m \in [match : Decided(n), st : Keeps(n, V, st)],
         NEW event \in ExpressionEvents, NEW device, NEW optional \in {TRUE, FALSE}, Settled(V, event)
  PROVE  WholeMatched(m, event, device, optional) \in Rounds(n, V)
<1> DEFINE found == LookAtStart(m, device)
           f == FinishSequence(m.st, Len(m.st.seq))
<1>1. m.st \in StageOf(n, V) /\ m.st.seq \in Seq(SeqEvents) /\ Len(m.st.seq) \in 0..Len(m.st.seq)
  BY KeepsIs, StageFields
<1>2. found \in FoundIn(n, V, m.st)
  <2>1. m \in [match : Decided(n), st : Keeps(n, V, m.st)]
    BY KeepsIs
  <2> QED BY <1>1, <2>1, FoundIs, MatchStartIs DEF LookAtStart
<1>3. WholeMatched(m, event, device, optional) \in
        {Round(m.st, TRUE, FALSE), Round(f, optional, TRUE), Proceed(Requested(found), event, optional)}
  BY DEF WholeMatched
<1>4. f \in StageOf(n, V)
  BY <1>1, FinishSequenceIs
<1> HIDE DEF found, f
<1>5. Proceed(Requested(found), event, optional) \in Rounds(n, V)
  BY <1>1, <1>2, ProceedIs
<1>6. Round(m.st, TRUE, FALSE) \in Rounds(n, V) /\ Round(f, optional, TRUE) \in Rounds(n, V)
  BY <1>1, <1>4 DEF Round, Rounds
<1> QED BY <1>3, <1>5, <1>6

LEMMA MatchOnceIs ==
  ASSUME NEW n \in DOMAIN Contexts, NEW V, NEW r \in Rounds(n, V), NEW event \in ExpressionEvents, NEW device,
         Settled(V, event)
  PROVE  MatchOnce(r, event, device) \in Rounds(n, V)
<1> DEFINE m == MatchInput(r.st, TRUE, r.matchedAreOptional, r.st.seq, device)
<1>1. r.st \in StageOf(n, V) /\ r.matchedAreOptional \in {TRUE, FALSE}
  BY DEF Rounds
<1>2. r.st.seq \in Seq(SeqEvents)
  BY <1>1, StageFields
<1>3. m \in [match : Decided(n), st : Keeps(n, V, r.st)]
  BY <1>1, <1>2, MatchInputIs
<1>4. MatchOnce(r, event, device) \in {r, WholeMatched(m, event, device, r.matchedAreOptional)}
  BY DEF MatchOnce
<1> HIDE DEF m
<1>5. WholeMatched(m, event, device, r.matchedAreOptional) \in Rounds(n, V)
  BY <1>1, <1>3, WholeMatchedIs
<1> QED BY <1>4, <1>5

LEMMA MatchLoopRounds ==
  ASSUME NEW st, NEW event, NEW device, NEW S, 2 * Len(st.seq) + 1 \in Nat,
         Round(st, FALSE, FALSE) \in S,
         \A x \in S : MatchOnce(x, event, device) \in S
  PROVE  MatchLoop(st, event, device) \in {y.st : y \in S}
<1> DEFINE n == 2 * Len(st.seq) + 1
           base == Round(st, FALSE, FALSE)
           Op(x) == MatchOnce(x, event, device)
           G == [k \in 1..n |-> [x \in S |-> Op(x)]]
           Is(f) == f = [k \in 0..n |-> IF k = 0 THEN base ELSE Op(f[k - 1])]
           y == (CHOOSE f : Is(f))[n]
<1>1. n \in Nat /\ base \in S /\ \A x \in S : Op(x) \in S
  OBVIOUS
<1>2. MatchLoop(st, event, device) = y.st
  BY DEF MatchLoop
<1> HIDE DEF Op, n, base
<1>3. \A i \in 1..n : \A x \in S : G[i][x] = Op(x) /\ G[i][x] \in S
  BY <1>1
<1> HIDE DEF G
<1>4. \E f : Is(f)
  <2>1. PICK f : RoundsIn(f, n, S, base, G)
    BY <1>1, <1>3, RoundsExist
  <2>2. \A k \in 0..n : k # 0 => k \in 1..n /\ k - 1 \in 0..n
    BY <1>1
  <2>3. Is(f)
    BY <1>3, <2>1, <2>2 DEF RoundsIn
  <2> QED BY <2>3
<1>5. ASSUME NEW f, Is(f) PROVE f[n] \in S
  <2>1. 0 \in 0..n /\ n \in 0..n /\ \A k \in 1..n : k \in 0..n /\ k # 0
    BY <1>1
  <2>2. f[0] = base /\ \A k \in 1..n : f[k] = Op(f[k - 1])
    BY <1>5, <2>1
  <2>3. f[0] \in S /\ \A k \in 1..n : f[k - 1] \in S => f[k] \in S
    BY <1>1, <2>2
  <2> QED BY <1>1, <2>1, <2>3, ChainStaysIn
<1> HIDE DEF Is
<1>6. y \in S
  BY <1>4, <1>5
<1> HIDE DEF y
<1> QED BY <1>2, <1>6

LEMMA MatchLoopIs ==
  ASSUME NEW n \in DOMAIN Contexts, NEW V, NEW st \in StageOf(n, V), NEW event \in ExpressionEvents, NEW device,
         Settled(V, event)
  PROVE  MatchLoop(st, event, device) \in StageOf(n, V)
<1>1. 2 * Len(st.seq) + 1 \in Nat
  BY StageFields
<1>2. Round(st, FALSE, FALSE) \in Rounds(n, V)
  BY DEF Round, Rounds
<1>3. \A r \in Rounds(n, V) : MatchOnce(r, event, device) \in Rounds(n, V)
  BY MatchOnceIs
<1> DEFINE S == Rounds(n, V)
<1>4. Round(st, FALSE, FALSE) \in S
  BY <1>2
<1>5. \A r \in S : MatchOnce(r, event, device) \in S
  BY <1>3
<1> HIDE DEF S
<1>6. MatchLoop(st, event, device) \in {r.st : r \in S}
  BY <1>1, <1>4, <1>5, MatchLoopRounds
<1> QED BY <1>6 DEF S, Rounds

-----------------------------------------------------------------------------
(* The steps of an input, and the operations of a stage. *)

LEMMA TrackNotTimeoutIs ==
  ASSUME NEW n, NEW V, NEW st \in StageOf(n, V), NEW event
  PROVE  TrackNotTimeout(st, event) \in StageOf(n, V)
<1> DEFINE x == st.timeout.notExceeded \/ st.timeout.event.value = event.value
           t == [st.timeout EXCEPT !.notExceeded = x]
           u == [st.timeout EXCEPT !.notExceeded = FALSE]
<1>1. st.timeout \in Timeouts(n)
  BY StageFields
<1>2. TrackNotTimeout(st, event) \in {st, [st EXCEPT !.timeout = t], [st EXCEPT !.timeout = u]}
  <2>1. /\ [st EXCEPT !.timeout.notExceeded = x] = [st EXCEPT !.timeout = t]
        /\ [st EXCEPT !.timeout.notExceeded = FALSE] = [st EXCEPT !.timeout = u]
    BY DEF StageOf
  <2>2. TrackNotTimeout(st, event) \in {st, [st EXCEPT !.timeout.notExceeded = x], [st EXCEPT !.timeout.notExceeded = FALSE]}
    BY DEF TrackNotTimeout
  <2> HIDE DEF x, t, u
  <2> QED BY <2>1, <2>2
<1>3. x \in BOOLEAN
  OBVIOUS
<1> HIDE DEF x
<1>4. t \in Timeouts(n) /\ u \in Timeouts(n)
  BY <1>1, <1>3 DEF Timeouts
<1> HIDE DEF t, u
<1> QED BY <1>2, <1>4, SetTimeout

\* An event that is removed changes at most what is known of its own key.
KnowsBut(s, seq, i, W) ==
  \E W2 \in SUBSET VirtualKeys :
    /\ Knows(s, W2)
    /\ \A key \in VirtualKeys : i = 0 \/ seq[i].key # key => (key \in W2 <=> key \in W)

LEMMA RemoveAny ==
  ASSUME NEW X, NEW seq \in Seq(X), NEW i \in 0..Len(seq), NEW W, Knows(seq, W)
  PROVE  RemoveAt(seq, i) \in Seq(X) /\ KnowsBut(RemoveAt(seq, i), seq, i, W)
<1> DEFINE s == RemoveAt(seq, i)
           W2 == {key \in VirtualKeys : Holds(s, key)}
<1>1. CASE i = 0
  <2>1. s = seq
    BY <1>1 DEF RemoveAt
  <2> HIDE DEF s
  <2>2. \A key \in VirtualKeys : key \in W2 <=> key \in W
    BY <2>1 DEF Knows
  <2>3. Knows(seq, W2) /\ W2 \in SUBSET VirtualKeys
    BY <2>2 DEF Knows
  <2> HIDE DEF W2
  <2>4. KnowsBut(s, seq, i, W)
    BY <2>1, <2>2, <2>3 DEF KnowsBut
  <2> QED BY <2>1, <2>4 DEF s
<1>2. CASE i # 0
  <2>0. i \in 1..Len(seq) /\ Len(seq) \in Nat
    BY <1>2
  <2>1. /\ s \in Seq(X) /\ Len(s) = Len(seq) - 1
        /\ \A j \in 1..(Len(seq) - 1) : s[j] = seq[IF j < i THEN j ELSE j + 1]
    BY <2>0, RemoveAtPicks
  <2>2. ASSUME NEW key \in VirtualKeys, seq[i].key # key PROVE Holds(s, key) <=> Holds(seq, key)
    BY <2>0, <2>2, RemoveOther
  <2> HIDE DEF s
  <2>3. \A j \in DOMAIN s : \E l \in DOMAIN seq : s[j] = seq[l]
    <3>1. DOMAIN s = 1..(Len(seq) - 1) /\ DOMAIN seq = 1..Len(seq)
      BY <2>1
    <3>2. \A j \in 1..(Len(seq) - 1) : (IF j < i THEN j ELSE j + 1) \in 1..Len(seq)
      BY <2>0
    <3> QED BY <2>1, <3>1, <3>2
  <2>4. Knows(s, W2) /\ W2 \in SUBSET VirtualKeys
    BY <2>3 DEF Knows
  <2>5. \A key \in VirtualKeys : seq[i].key # key => (key \in W2 <=> key \in W)
    BY <2>2 DEF Knows
  <2>6. KnowsBut(s, seq, i, W)
    BY <1>2, <2>4, <2>5 DEF KnowsBut
  <2> QED BY <2>1, <2>6 DEF s
<1> QED BY <1>1, <1>2

\* A repeat is removed before it is added again.
Tracking(n, W, H, event) ==
  UNION {StageOf(n, [down |-> W2, held |-> H]) : W2 \in {D \in SUBSET VirtualKeys : After(D, event) = After(W, event)}}

LEMMA TrackDeviceIs ==
  ASSUME NEW n, NEW W \in SUBSET VirtualKeys, NEW H, NEW st \in StageOf(n, [down |-> W, held |-> H]), NEW event,
         NEW device \in Int
  PROVE  TrackDevice(st, event, device) \in Tracking(n, W, H, event)
<1> DEFINE i == RFindKey(st.seq, event.key)
           seq == RemoveAt(st.seq, i)
           repeat == IF device = NoDevice THEN st.lastRepeat ELSE RepeatDevice(st, device)
           next == IF device = st.lastRepeat THEN NoDevice ELSE st.lastRepeat
           last == IF event.state = "Down" /\ device >= 0 THEN device ELSE st.lastPressed
           a == [st EXCEPT !.seq = seq]
           b == [st EXCEPT !.lastRepeat = next]
           V(down) == [down |-> down, held |-> H]
<1>1. st.seq \in Seq(SeqEvents) /\ st.lastRepeat \in Int /\ st.lastPressed \in Int /\ Knows(st.seq, W)
  BY StageFields
<1>2. repeat \in Int /\ next \in Int /\ last \in Int
  BY <1>1 DEF NoDevice, RepeatDevice
<1>3. i \in 0..Len(st.seq) /\ (i # 0 => st.seq[i].key = event.key)
  BY <1>1, RFindKeyIs
<1>4. /\ IsKeyRepeat(st, event) => event.state = "Down" /\ TrackDevice(st, event, device) = [a EXCEPT !.lastRepeat = repeat]
      /\ ~IsKeyRepeat(st, event) => TrackDevice(st, event, device) = [b EXCEPT !.lastPressed = last]
  BY DEF TrackDevice, IsKeyRepeat
<1>5. V(W).down = W /\ V(W).held = H /\ st \in StageOf(n, V(W))
  OBVIOUS
<1> HIDE DEF repeat, next, last, b, i
<1>6. CASE IsKeyRepeat(st, event)
  <2>1. PICK W2 \in SUBSET VirtualKeys :
          /\ seq \in Seq(SeqEvents) /\ Knows(seq, W2)
          /\ \A key \in VirtualKeys : key # event.key => (key \in W2 <=> key \in W)
          /\ event.key \in VirtualKeys \/ W2 = W
    <3>1. seq \in Seq(SeqEvents) /\ KnowsBut(seq, st.seq, i, W)
      BY <1>1, <1>3, RemoveAny
    <3> HIDE DEF seq
    <3>2. PICK W2 \in SUBSET VirtualKeys :
              /\ Knows(seq, W2)
              /\ \A key \in VirtualKeys : i = 0 \/ st.seq[i].key # key => (key \in W2 <=> key \in W)
      BY <3>1 DEF KnowsBut
    <3>3. \A key \in VirtualKeys : key # event.key => (key \in W2 <=> key \in W)
      BY <1>3, <3>2
    <3>4. event.key \notin VirtualKeys => \A key \in VirtualKeys : key \in W2 <=> key \in W
      BY <3>3
    <3>5. event.key \notin VirtualKeys => W2 = W
      BY <3>4
    <3> QED BY <3>1, <3>2, <3>3, <3>5
  <2> HIDE DEF seq
  <2>2. V(W2).down = W2 /\ V(W2).held = H
    OBVIOUS
  <2> HIDE DEF V
  <2>3. a \in StageOf(n, V(W2))
    BY <1>5, <2>1, <2>2, SetSeqAnew
  <2> HIDE DEF a
  <2>4. [a EXCEPT !.lastRepeat = repeat] \in StageOf(n, V(W2))
    BY <1>2, <2>3, SetLastRepeat
  <2>5. After(W2, event) = After(W, event)
    <3>1. W2 \cup {event.key} = W \cup {event.key} \/ W2 = W
      BY <2>1
    <3> QED BY <1>4, <1>6, <2>1, <3>1 DEF After
  <2> QED BY <1>4, <1>6, <2>1, <2>4, <2>5 DEF V, Tracking
<1>7. CASE ~IsKeyRepeat(st, event)
  <2> HIDE DEF V
  <2>1. b \in StageOf(n, V(W))
    BY <1>2, <1>5, SetLastRepeat DEF b
  <2>2. [b EXCEPT !.lastPressed = last] \in StageOf(n, V(W))
    BY <1>2, <2>1, SetLastPressed
  <2> QED BY <1>4, <1>7, <2>2 DEF V, Tracking
<1> QED BY <1>6, <1>7

LEMMA AddToSequenceIs ==
  ASSUME NEW n \in DOMAIN Contexts, NEW V, V.down \in SUBSET VirtualKeys, NEW st \in StageOf(n, V),
         NEW event \in SeqEvents, V.held \subseteq After(V.down, event),
         event.key \in VirtualKeys => event.state \in VirtualStates, NEW elapsed \in 0..MaxTimeout
  PROVE  /\ AddToSequence(st, event, elapsed) \in StageOf(n, Both(After(V.down, event)))
         /\ AddToSequence(st, event, elapsed).seq = Append(st.seq, event)
<1> DEFINE seq == Append(st.seq, event)
           added == [st EXCEPT !.seq = seq]
           h == AddHistoryEvent(added, event, elapsed)
           W == V.down
           V2 == Both(After(W, event))
<1>1. AddToSequence(st, event, elapsed) \in {UpdateActiveContexts(h), UpdateActiveContexts(added)}
  BY DEF AddToSequence
<1>2. seq \in Seq(SeqEvents) /\ Knows(st.seq, W) /\ st.seq \in Seq(SeqEvents)
  BY StageFields
<1>3. Knows(seq, After(W, event))
  BY <1>2, AppendKnows
<1> HIDE DEF seq
<1>4. V2.down = After(W, event) /\ V2.held = After(W, event)
  BY DEF Both
<1> HIDE DEF V2
<1>5. added \in StageOf(n, V2) /\ added.seq = seq
  <2>1. added \in StageOf(n, V2)
    BY <1>2, <1>3, <1>4, SetSeqAnew
  <2> QED BY <1>2, <2>1 DEF StageOf
<1> HIDE DEF added
<1>6. h \in Keeps(n, V2, added)
  BY <1>5, AddHistoryEventIs
<1>7. h \in StageOf(n, V2) /\ h.seq = seq
  BY <1>5, <1>6, KeepsIs
<1> HIDE DEF h
<1>8. UpdateActiveContexts(h) \in Keeps(n, V2, h) /\ UpdateActiveContexts(added) \in Keeps(n, V2, added)
  BY <1>5, <1>7, UpdateActiveContextsIs
<1>9. /\ UpdateActiveContexts(h) \in StageOf(n, V2) /\ UpdateActiveContexts(h).seq = seq
      /\ UpdateActiveContexts(added) \in StageOf(n, V2) /\ UpdateActiveContexts(added).seq = seq
  BY <1>5, <1>7, <1>8 DEF Keeps
<1> QED BY <1>1, <1>9 DEF seq, V2

LEMMA RemoveReleasedIs ==
  ASSUME NEW n, NEW V, NEW st \in StageOf(n, V), NEW event \in SeqEvents, NEW s \in Seq(SeqEvents),
         st.seq = Append(s, event)
  PROVE  RemoveReleased(st, event) \in StageOf(n, V)
<1> DEFINE Passed(ev) == IF ev.state = "Down" THEN [ev EXCEPT !.state = "DownMatched"] ELSE ev
           seq == IF st.timeout.matched = << >> THEN st.seq ELSE Map(st.seq, Passed)
           positions == {j \in DOMAIN seq : seq[j].key = event.key}
           i == FirstOf(positions)
           rest == RemoveAt(seq, i)
           m == Len(s) + 1
<1>0. event.state = "Up" =>
        RemoveReleased(st, event) = [st EXCEPT !.seq = IF ~st.might /\ seq[i].state = "DownMatched" THEN rest ELSE seq]
  BY DEF RemoveReleased
<1>1. event.state # "Up" => RemoveReleased(st, event) = st
  BY DEF RemoveReleased
<1>2. /\ st.seq \in Seq(SeqEvents) /\ Len(st.seq) = m /\ m \in Nat /\ DOMAIN st.seq = 1..m /\ m \in 1..m
      /\ st.seq[m] = event /\ Knows(st.seq, V.down)
      /\ \A k \in DOMAIN st.seq : st.seq[k] \in SeqEvents
  <2>1. st.seq \in Seq(SeqEvents) /\ Knows(st.seq, V.down) /\ event \in SeqEvents
    BY StageFields
  <2> DEFINE q == Append(s, event)
  <2>2. q \in Seq(SeqEvents) /\ Len(q) = m /\ m \in Nat /\ DOMAIN q = 1..m /\ m \in 1..m /\ q[m] = event
    BY <2>1
  <2>3. \A k \in DOMAIN q : q[k] \in SeqEvents
    BY <2>2
  <2> HIDE DEF q, m
  <2> QED BY <2>1, <2>2, <2>3 DEF q
<1> HIDE DEF m
<1>3. /\ seq \in Seq(SeqEvents) /\ DOMAIN seq = 1..m /\ Len(seq) = m
      /\ \A k \in 1..m : seq[k] = st.seq[k] \/ seq[k] = Passed(st.seq[k])
  <2>2. \A ev \in SeqEvents : Passed(ev) \in SeqEvents
    BY DEF SeqEvents, EventsOf, KeyStates
  <2> HIDE DEF Passed
  <2>3. [k \in DOMAIN st.seq |-> Passed(st.seq[k])] \in [1..m -> SeqEvents]
    BY <1>2, <2>2
  <2> DEFINE passed == [k \in DOMAIN st.seq |-> Passed(st.seq[k])]
  <2>4. Map(st.seq, Passed) = passed
    BY DEF Map
  <2>5. passed \in Seq(SeqEvents) /\ DOMAIN passed = 1..m /\ \A k \in 1..m : passed[k] = Passed(st.seq[k])
    BY <1>2, <2>3, MapIs
  <2> HIDE DEF passed
  <2>6. passed \in Seq(SeqEvents) /\ DOMAIN passed = 1..m /\ Len(passed) = m
    BY <1>2, <2>5
  <2> QED BY <1>2, <2>4, <2>5, <2>6
<1>4. \A ev \in SeqEvents : /\ Passed(ev).key = ev.key
                            /\ Passed(ev).state = (IF ev.state = "Down" THEN "DownMatched" ELSE ev.state)
  BY DEF SeqEvents, EventsOf
<1> HIDE DEF seq, Passed
<1>5. \A k \in 1..m : /\ seq[k].key = st.seq[k].key
                      /\ seq[k].state \in {st.seq[k].state, IF st.seq[k].state = "Down" THEN "DownMatched" ELSE st.seq[k].state}
  BY <1>2, <1>3, <1>4
<1>6. Knows(seq, V.down)
  <2>1. \A k \in 1..m : st.seq[k].key \in VirtualKeys => st.seq[k].state \in VirtualStates
    BY <1>2 DEF Knows
  <2>2. \A k \in 1..m : seq[k].key \in VirtualKeys => seq[k].state \in VirtualStates /\ (seq[k].state = "Up" <=> st.seq[k].state = "Up")
    BY <1>5, <2>1 DEF VirtualStates
  <2> QED BY <1>2, <1>3, <1>5, <2>2, RestateKnows
<1>7. positions \in SUBSET (1..m) /\ m \in positions /\ \A k \in positions : seq[k].key = event.key
  BY <1>2, <1>3, <1>5
<1> HIDE DEF positions
<1>8. i \in 1..m /\ i \in positions
  BY <1>2, <1>7, FirstOfIs
<1> HIDE DEF i
<1>9. ASSUME event.state = "Up", seq[i].state = "DownMatched"
      PROVE  rest \in Seq(SeqEvents) /\ Knows(rest, V.down)
  <2>1. seq[m].state = "Up"
    BY <1>2, <1>5, <1>9
  <2>2. i # m
    BY <1>9, <2>1
  <2>3. m \in DOMAIN seq /\ m > i /\ seq[m].key = seq[i].key /\ seq[i].state # "Up" /\ i \in 0..Len(seq)
    BY <1>2, <1>3, <1>7, <1>8, <1>9, <2>2
  <2> QED BY <1>3, <1>6, <2>3, RemoveKnows
<1> HIDE DEF rest
<1>10. event.state = "Up" => RemoveReleased(st, event) \in StageOf(n, V)
  <2> SUFFICES ASSUME event.state = "Up" PROVE RemoveReleased(st, event) \in StageOf(n, V)
    OBVIOUS
  <2>1. [st EXCEPT !.seq = seq] \in StageOf(n, V)
    BY <1>3, <1>6, SetSeq
  <2>2. seq[i].state = "DownMatched" => [st EXCEPT !.seq = rest] \in StageOf(n, V)
    BY <1>9, SetSeq
  <2> QED BY <1>0, <2>1, <2>2
<1> QED BY <1>1, <1>10

LEMMA UnsuppressIs ==
  ASSUME NEW n, NEW V, NEW st \in StageOf(n, V)
  PROVE  Unsuppress(st) \in StageOf(n, V)
<1> DEFINE modifierDown == \E i \in DOMAIN st.out : st.out[i].key \in CommonModifiers /\ ~st.out[i].suppressed
           stays(o) == o.key \in CommonModifiers /\ modifierDown
           Freed(o) == [o EXCEPT !.suppressed = @ /\ stays(o)]
           out == Map(st.out, Freed)
<1>1. Unsuppress(st) = [st EXCEPT !.out = out]
  BY DEF Unsuppress
<1>2. \A o \in Outputs : Freed(o) \in Outputs
  <2> SUFFICES ASSUME NEW o \in Outputs PROVE Freed(o) \in Outputs
    OBVIOUS
  <2> DEFINE x == o.suppressed /\ stays(o)
  <2>1. x \in BOOLEAN /\ Freed(o) = [o EXCEPT !.suppressed = x]
    OBVIOUS
  <2> HIDE DEF x, Freed
  <2> QED BY <2>1 DEF Outputs
<1> HIDE DEF Freed, modifierDown, stays
<1>3. st.out \in Seq(Outputs) /\ Len(st.out) \in Nat /\ DOMAIN st.out = 1..Len(st.out)
      /\ \A k \in DOMAIN st.out : st.out[k] \in Outputs
  BY StageFields
<1>4. [k \in DOMAIN st.out |-> Freed(st.out[k])] \in [1..Len(st.out) -> Outputs]
  BY <1>2, <1>3
<1>5. out \in Seq(Outputs)
  BY <1>3, <1>4, MapIs DEF Map
<1> HIDE DEF out
<1> QED BY <1>1, <1>5, SetOut

LEMMA ForgetMatchedIs ==
  ASSUME NEW n, NEW V, NEW st \in StageOf(n, V)
  PROVE  ForgetMatched(st) \in StageOf(n, V)
<1> DEFINE positions == {i \in DOMAIN st.seq : st.seq[i].state # "UpMatched"}
           rest == FirstOf(positions)
           seq == IF rest = 0 THEN << >> ELSE From(st.seq, rest)
           timeout == IF seq = << >> THEN NoTimeout ELSE st.timeout
           a == [st EXCEPT !.seq = seq]
           b == [a EXCEPT !.reapplied = FALSE]
<1>1. ForgetMatched(st) = [b EXCEPT !.timeout = timeout]
  BY DEF ForgetMatched
<1>2. /\ st.seq \in Seq(SeqEvents) /\ Len(st.seq) \in Nat /\ DOMAIN st.seq = 1..Len(st.seq)
      /\ st.timeout \in Timeouts(n) /\ Knows(st.seq, V.down)
  BY StageFields
<1>3. /\ positions \in SUBSET (1..Len(st.seq))
      /\ \A j \in 1..Len(st.seq) : j \notin positions => st.seq[j].key \notin VirtualKeys
  BY <1>2 DEF Knows, VirtualStates
<1> HIDE DEF positions
<1>4. /\ rest \in 0..Len(st.seq) /\ (rest = 0 => positions = {})
      /\ \A j \in positions : rest <= j
  <2>1. /\ positions = {} => rest = 0
        /\ positions # {} => rest \in positions /\ \A j \in positions : rest <= j
    BY <1>2, <1>3, FirstOfIs
  <2>2. \A j \in positions : j \in 1..Len(st.seq)
    BY <1>3
  <2> HIDE DEF rest
  <2> QED BY <1>2, <2>1, <2>2
<1> HIDE DEF rest
<1>5. seq \in Seq(SeqEvents) /\ Knows(seq, V.down)
  <2> DEFINE i == IF rest = 0 THEN Len(st.seq) + 1 ELSE rest
  <2>1. i \in 1..(Len(st.seq) + 1)
    BY <1>2, <1>4
  <2>2. ASSUME NEW j \in 1..(i - 1) PROVE st.seq[j].key \notin VirtualKeys
    <3>1. j \in 1..Len(st.seq) /\ j < i
      BY <1>2, <2>1
    <3>2. j \notin positions
      <4>1. CASE rest = 0
        BY <1>4, <4>1
      <4>2. CASE rest # 0
        <5>1. ~(rest <= j)
          BY <1>4, <3>1, <4>2
        <5> QED BY <1>4, <5>1
      <4> QED BY <4>1, <4>2
    <3> QED BY <1>3, <3>1, <3>2
  <2>3. rest = 0 => From(st.seq, i) = << >>
    BY <1>2 DEF From
  <2>4. seq = From(st.seq, i)
    BY <2>3
  <2> HIDE DEF i, seq
  <2> QED BY <1>2, <2>1, <2>2, <2>4, FromKnows
<1> HIDE DEF seq
<1>6. timeout \in Timeouts(n)
  BY <1>2, NoTimeoutIs
<1> HIDE DEF timeout
<1>7. a \in StageOf(n, V)
  BY <1>5, SetSeq
<1> HIDE DEF a
<1>8. b \in StageOf(n, V)
  BY <1>7, SetReapplied
<1> HIDE DEF b
<1> QED BY <1>1, <1>6, <1>8, SetTimeout

LEMMA FinishInputIs ==
  ASSUME NEW n \in DOMAIN Contexts, NEW V, NEW st \in StageOf(n, V), NEW event
  PROVE  FinishInput(st, event) \in StageOf(n, V)
<1> DEFINE a == ReleaseOutput(st, event, -1)
           b == UpdateActiveContexts(a)
           c == ForgetMatched(b)
<1>1. a \in StageOf(n, V)
  BY ReleaseOutputIs DEF Keeps
<1> HIDE DEF a
<1>2. b \in StageOf(n, V)
  BY <1>1, UpdateActiveContextsIs DEF Keeps
<1> HIDE DEF b
<1>3. c \in StageOf(n, V)
  BY <1>2, ForgetMatchedIs
<1> HIDE DEF c
<1>4. CleanUpHistory(c) \in StageOf(n, V)
  BY <1>3, CleanUpHistoryIs DEF Keeps
<1> QED BY <1>4 DEF FinishInput, a, b, c

LEMMA BeginInputIs ==
  ASSUME NEW n \in DOMAIN Contexts, NEW W \in SUBSET VirtualKeys, NEW event \in SeqEvents, NEW st \in StageOf(n, During(W, event)),
         event.key \in VirtualKeys => event.state \in VirtualStates, NEW device \in Int, NEW elapsed \in 0..MaxTimeout
  PROVE  BeginInput(st, event, device, elapsed) \in StageOf(n, Both(After(W, event)))
<1> DEFINE V == During(W, event)
           H == W \cap After(W, event)
           V2 == Both(After(W, event))
           a == TrackNotTimeout(st, event)
           b == TrackDevice(a, event, device)
           c == AddToSequence(b, event, elapsed)
           d == RemoveReleased(c, event)
<1>1. a \in StageOf(n, V)
  BY TrackNotTimeoutIs
<1>2. V = [down |-> W, held |-> H]
  BY DEF During
<1> HIDE DEF a, V, H
<1>3. PICK W2 \in SUBSET VirtualKeys : b \in StageOf(n, [down |-> W2, held |-> H]) /\ After(W2, event) = After(W, event)
  <2>1. b \in Tracking(n, W, H, event)
    BY <1>1, <1>2, TrackDeviceIs
  <2> HIDE DEF b
  <2> QED BY <2>1 DEF Tracking
<1> HIDE DEF b
<1>4. c \in StageOf(n, V2) /\ c.seq = Append(b.seq, event) /\ b.seq \in Seq(SeqEvents)
  <2> DEFINE U == [down |-> W2, held |-> H]
  <2>1. U.down \in SUBSET VirtualKeys /\ U.down = W2 /\ U.held \subseteq After(U.down, event) /\ b \in StageOf(n, U)
    BY <1>3 DEF H
  <2> HIDE DEF U
  <2>2. b.seq \in Seq(SeqEvents)
    BY <2>1, StageFields
  <2>3. c \in StageOf(n, Both(After(U.down, event))) /\ c.seq = Append(b.seq, event)
    BY <2>1, AddToSequenceIs
  <2> QED BY <1>3, <2>1, <2>2, <2>3
<1> HIDE DEF c, V2
<1>5. d \in StageOf(n, V2)
  BY <1>4, RemoveReleasedIs
<1> HIDE DEF d
<1>6. Unsuppress(d) \in StageOf(n, V2)
  BY <1>5, UnsuppressIs
<1> QED BY <1>6 DEF BeginInput, a, b, c, d, V2

\* Input of a virtual key: it is pressed or released.
Plain(event) == event.key \in VirtualKeys => event.state \in {"Up", "Down"}

\* What is ignored of a virtual key is a press of one that is down.
LEMMA IgnoredIsDown ==
  ASSUME NEW n, NEW W \in SUBSET VirtualKeys, NEW event \in SeqEvents, Plain(event), NEW st \in StageOf(n, During(W, event)),
         NEW device, Ignored(st, event, device)
  PROVE  During(W, event) = Both(After(W, event))
<1> DEFINE V == During(W, event)
<1>1. V.down = W /\ V.held = W \cap After(W, event) /\ st \in StageOf(n, V)
  BY DEF During
<1> HIDE DEF V
<1>2. Knows(st.seq, W) /\ st.seq \in Seq(SeqEvents) /\ st.onRelease \in Seq(ContinuationsOf(V.held))
  BY <1>1, StageFields
<1>3. event.key \in VirtualKeys => event.state = "Down" /\ event.key \in W
  <2> SUFFICES ASSUME event.key \in VirtualKeys PROVE event.state = "Down" /\ event.key \in W
    OBVIOUS
  <2>1. CASE event.state = "Down" /\ \E i \in DOMAIN st.onRelease : st.onRelease[i].trigger = event.key
    <3>1. PICK i \in DOMAIN st.onRelease : st.onRelease[i].trigger = event.key
      BY <2>1
    <3> DEFINE X == ContinuationsOf(V.held)
    <3> HIDE DEF X
    <3>2. st.onRelease[i] \in X
      BY <1>2, <3>1, ElementIs DEF X
    <3>3. event.key \in V.held
      BY <3>1, <3>2 DEF X, ContinuationsOf
    <3> QED BY <1>1, <2>1, <3>3
  <2>2. CASE event.key = "timeout"
    BY <2>2, KeyKindsAreDisjoint
  <2>3. CASE IsKeyRepeat(st, event)
    <3>1. event.state = "Down" /\ IsPhysicallyPressed(st, event.key)
      BY <2>3 DEF IsKeyRepeat
    <3>2. Holds(st.seq, event.key)
      BY <1>2, <3>1, PressedIsHeld
    <3> QED BY <1>2, <3>1, <3>2 DEF Knows
  <2> QED BY <2>1, <2>2, <2>3 DEF Ignored
<1>4. After(W, event) = W
  <2>1. CASE event.key \notin VirtualKeys
    BY <2>1 DEF After
  <2>2. CASE event.key \in VirtualKeys
    <3>1. W \cup {event.key} = W
      BY <1>3, <2>2
    <3> QED BY <1>3, <3>1 DEF After
  <2> QED BY <2>1, <2>2
<1> QED BY <1>4 DEF During, Both

LEMMA SettledAfter ==
  ASSUME NEW W, NEW event
  PROVE  Settled(Both(After(W, event)), event)
<1>1. event.state = "Down" /\ event.key \in VirtualKeys => event.key \in After(W, event)
  BY DEF After
<1> QED BY <1>1 DEF Settled, Both, MayHold

LEMMA ApplyInputIs ==
  ASSUME NEW n \in DOMAIN Contexts, NEW W \in SUBSET VirtualKeys, NEW st \in StageOf(n, Both(W)), NEW event \in SeqEvents,
         Plain(event), NEW device \in Int, NEW elapsed \in 0..MaxTimeout
  PROVE  ApplyInput(st, event, device, elapsed) \in StageOf(n, Both(After(W, event)))
<1> DEFINE V == Both(After(W, event))
           a == ContinueOutputOnRelease(st, event, 0)
           b == BeginInput(a, event, device, elapsed)
           c == MatchLoop(b, event, device)
<1>1. event \in ExpressionEvents
  BY SeqEventsAre
<1>2. a \in StageOf(n, During(W, event))
  BY <1>1, ContinueOutputOnReleaseIs DEF ExpressionEvents
<1>3. ApplyInput(st, event, device, elapsed) = IF Ignored(a, event, device) THEN a ELSE FinishInput(c, event)
  BY DEF ApplyInput, ApplyContinued
<1> HIDE DEF a
<1>4. b \in StageOf(n, V)
  <2>1. event.key \in VirtualKeys => event.state \in VirtualStates
    BY DEF Plain, VirtualStates
  <2> QED BY <1>2, <2>1, BeginInputIs
<1> HIDE DEF b
<1>5. c \in StageOf(n, V)
  <2>1. Settled(V, event)
    BY SettledAfter
  <2> HIDE DEF V
  <2> QED BY <1>1, <1>4, <2>1, MatchLoopIs
<1> HIDE DEF c
<1>6. FinishInput(c, event) \in StageOf(n, V)
  BY <1>5, FinishInputIs
<1>7. Ignored(a, event, device) => a \in StageOf(n, V)
  BY <1>2, IgnoredIsDown
<1> QED BY <1>3, <1>6, <1>7

\* What an operation of a stage results in.
Updated(n, V) == [st : StageOf(n, V), output : Seq(OutEvents)]

LEMMA TakeOutputIs ==
  ASSUME NEW n, NEW V, NEW st \in StageOf(n, V)
  PROVE  TakeOutput(st) \in Updated(n, V)
<1>1. << >> \in Seq(OutEvents) /\ st.buf \in Seq(OutEvents)
  BY StageFields
<1>2. [st EXCEPT !.buf = << >>] \in StageOf(n, V)
  BY <1>1, SetBuf
<1> QED BY <1>1, <1>2 DEF TakeOutput, Updated

LEMMA UpdateIs ==
  ASSUME NEW n \in DOMAIN Contexts, NEW W \in SUBSET VirtualKeys, NEW st \in StageOf(n, Both(W)), NEW event \in SeqEvents,
         Plain(event), NEW device \in Int, NEW elapsed \in 0..MaxTimeout
  PROVE  Update(st, event, device, elapsed) \in Updated(n, Both(After(W, event)))
<1> DEFINE p == st.exitPos
           position == IF event.state # "Down" THEN 0
                       ELSE IF p > 0 /\ event.key = ExitSequence[p] THEN p
                       ELSE IF p < Len(ExitSequence) /\ event.key = ExitSequence[p + 1] THEN p + 1
                       ELSE 0
           a == AdvanceExitSequence(st, event)
           b == ApplyInput(a, event, device, elapsed)
<1>1. p \in 0..3
  BY StageFields
<1>2. position \in 0..3
  <2>1. Len(ExitSequence) = 3
    BY DEF ExitSequence
  <2> QED BY <1>1, <2>1
<1>3. a \in {st, [st EXCEPT !.exitPos = position]}
  BY DEF AdvanceExitSequence
<1> HIDE DEF position, a
<1>4. a \in StageOf(n, Both(W))
  <2>1. [st EXCEPT !.exitPos = position] \in StageOf(n, Both(W))
    BY <1>2, SetExitPos
  <2> QED BY <1>3, <2>1
<1>5. b \in StageOf(n, Both(After(W, event)))
  BY <1>4, ApplyInputIs
<1> HIDE DEF b
<1> QED BY <1>5, TakeOutputIs DEF Update, a, b

LEMMA SetActiveClientContextsIs ==
  ASSUME NEW n \in DOMAIN Contexts, NEW V, NEW st \in StageOf(n, V), NEW indices \in Seq(DOMAIN Contexts[n])
  PROVE  SetActiveClientContexts(st, indices) \in Updated(n, V)
<1> DEFINE X == ContinuationsOf(V.held)
           a == [st EXCEPT !.clientActive = indices]
           b == UpdateActiveContexts(a)
           waiting == Select(b.onRelease, LAMBDA o : IsContextActive(b, o.ctx))
           c == [b EXCEPT !.onRelease = waiting]
<1>1. a \in StageOf(n, V)
  BY SetClientActive
<1> HIDE DEF a
<1>2. b \in StageOf(n, V)
  BY <1>1, UpdateActiveContextsIs DEF Keeps
<1>3. b.onRelease \in Seq(X)
  BY <1>2, StageFields
<1>4. CancelInactive(b) = c
  BY DEF CancelInactive
<1> HIDE DEF b, X
<1>5. waiting \in Seq(X)
  BY <1>3, SelectIs DEF Select
<1> HIDE DEF waiting
<1>6. c \in StageOf(n, V)
  BY <1>2, <1>5, SetOnRelease DEF X
<1> HIDE DEF c
<1> QED BY <1>4, <1>6, TakeOutputIs DEF SetActiveClientContexts, a, b

Stuck == {o \in Outputs : o.key \in DeviceKeys}

LEMMA ValidateStateStays ==
  ASSUME NEW st, NEW down, NEW elapsed, NEW S, NEW E,
         [st EXCEPT !.might = FALSE, !.seq = ElementsAt(@, {i \in DOMAIN @ : ~(@[i].key \in DeviceKeys /\ @[i].key \notin down)})] \in S, ElementsAt(st.out, {i \in DOMAIN st.out : st.out[i].key \in DeviceKeys /\ st.out[i].trigger \notin down}) \in Seq(E),
         \A x \in S : \A e \in E : ApplyInput(x, Release(e.key), AnyDevice, elapsed) \in S
  PROVE  ValidateState(st, down, elapsed) \in S
<1> DEFINE seq == ElementsAt(st.out, {i \in DOMAIN st.out : st.out[i].key \in DeviceKeys /\ st.out[i].trigger \notin down})
           n == Len(seq)
           base == [st EXCEPT !.might = FALSE, !.seq = ElementsAt(@, {i \in DOMAIN @ : ~(@[i].key \in DeviceKeys /\ @[i].key \notin down)})]
           Op(x, e) == ApplyInput(x, Release(e.key), AnyDevice, elapsed)
           G == [i \in 1..n |-> [x \in S |-> Op(x, seq[i])]]
           Is(f) == f = [s \in SUBSET (1..n) |->
                           IF s = {} THEN base ELSE Op(f[s \ {Max(s)}], seq[Max(s)])]
<1>0. seq \in Seq(E)
  OBVIOUS
<1> HIDE DEF seq
<1>1. n \in Nat /\ DOMAIN seq = 1..n /\ \A i \in 1..n : seq[i] \in E
  BY <1>0
<1>2. \A i \in 1..n : \A x \in S : G[i][x] = Op(x, seq[i]) /\ G[i][x] \in S
  <2>1. \A x \in S : \A e \in E : Op(x, e) \in S
    OBVIOUS
  <2> HIDE DEF Op
  <2> QED BY <1>1, <2>1
<1>3. ValidateState(st, down, elapsed) = (CHOOSE f : Is(f))[1..n]
  BY <1>1 DEF ValidateState, Select, seq, FoldLeft, MapThenFoldSet
<1>4. base \in S
  OBVIOUS
<1> HIDE DEF G, Op, base
<1>5. \E f : Is(f)
  <2>1. PICK f : FoldsIn(f, n, S, base, G)
    BY <1>1, <1>2, <1>4, FoldIn
  <2>2. Is(f)
    BY <1>2, <2>1 DEF FoldsIn
  <2> QED BY <2>2
<1>6. ASSUME NEW f, Is(f) PROVE f[1..n] \in S
  <2>1. f[{}] = base
    BY <1>6
  <2>2. ASSUME NEW k \in 1..n PROVE f[1..k] = Op(f[1..(k - 1)], seq[k])
    <3>1. /\ 1..k \in SUBSET (1..n) /\ 1..k # {} /\ Max(1..k) = k
          /\ (1..k) \ {Max(1..k)} = 1..(k - 1)
      BY <1>1, FoldStep
    <3>2. f[1..k] = Op(f[(1..k) \ {Max(1..k)}], seq[Max(1..k)])
      BY <1>6, <3>1
    <3> QED BY <3>1, <3>2
  <2>3. ASSUME NEW k \in 1..n, f[1..(k - 1)] \in S PROVE f[1..k] \in S
    <3>1. Op(f[1..(k - 1)], seq[k]) \in S
      BY <1>2, <2>3
    <3> QED BY <2>2, <3>1
  <2> QED BY <1>1, <1>4, <2>1, <2>3, FoldStays
<1> HIDE DEF Is
<1> QED BY <1>3, <1>5, <1>6

LEMMA ValidateStateIs ==
  ASSUME NEW n \in DOMAIN Contexts, NEW W \in SUBSET VirtualKeys, NEW st \in StageOf(n, Both(W)), NEW down,
         NEW elapsed \in 0..MaxTimeout
  PROVE  ValidateState(st, down, elapsed) \in StageOf(n, Both(W))
<1> DEFINE V == Both(W)
           positions == {i \in DOMAIN st.out : st.out[i].key \in DeviceKeys /\ st.out[i].trigger \notin down}
           keptAt == {i \in DOMAIN st.seq : ~(st.seq[i].key \in DeviceKeys /\ st.seq[i].key \notin down)}
           seq == ElementsAt(st.seq, keptAt)
           a == [st EXCEPT !.might = FALSE]
           kept == [st EXCEPT !.might = FALSE, !.seq = ElementsAt(@, {i \in DOMAIN @ : ~(@[i].key \in DeviceKeys /\ @[i].key \notin down)})]
<1>0. V.down = W
  BY DEF Both
<1> HIDE DEF V
<1>1. ElementsAt(st.out, positions) \in Seq(Stuck)
  <2>1. st.out \in Seq(Outputs) /\ \A i \in DOMAIN st.out : st.out[i] \in Outputs
    BY StageFields
  <2>2. \A i \in DOMAIN st.out : i \in positions => st.out[i] \in Stuck
    BY <2>1 DEF Stuck
  <2> HIDE DEF positions
  <2> QED BY <2>1, <2>2, ElementsAtIs
<1>2. kept \in StageOf(n, V)
  <2>1. kept = [a EXCEPT !.seq = seq]
    OBVIOUS
  <2>2. st.seq \in Seq(SeqEvents) /\ Knows(st.seq, W) /\ st \in StageOf(n, V)
    BY <1>0, StageFields DEF V
  <2>3. \A i \in DOMAIN st.seq : i \notin keptAt => st.seq[i].key \notin VirtualKeys
    BY KeyKindsAreDisjoint DEF DeviceKeys
  <2>4. seq \in Seq(SeqEvents) /\ Knows(seq, W)
    <3> HIDE DEF keptAt
    <3> QED BY <2>2, <2>3, TakenKnows
  <2>5. a \in StageOf(n, V)
    BY <2>2, SetMight
  <2> HIDE DEF a, seq, kept
  <2> QED BY <1>0, <2>1, <2>4, <2>5, SetSeq
<1>3. ASSUME NEW s \in StageOf(n, V), NEW o \in Stuck
      PROVE  ApplyInput(s, Release(o.key), AnyDevice, elapsed) \in StageOf(n, V)
  <2> DEFINE event == Release(o.key)
  <2>1. o.key \in SeqKeys /\ AnyDevice \in Int /\ o.key \notin VirtualKeys
    BY KeyKindsAreDisjoint DEF Stuck, SeqKeys, AnyDevice, DeviceKeys
  <2>2. event \in SeqEvents /\ event.key = o.key
    BY <2>1, PressIs DEF SeqEvents, Release, Event
  <2> HIDE DEF event
  <2>3. Plain(event) /\ After(W, event) = W
    BY <2>1, <2>2 DEF Plain, After
  <2>4. ApplyInput(s, event, AnyDevice, elapsed) \in StageOf(n, V)
    BY <2>1, <2>2, <2>3, ApplyInputIs DEF V
  <2> QED BY <2>4 DEF event
<1> HIDE DEF kept
<1>4. ValidateState(st, down, elapsed) \in StageOf(n, V)
  BY <1>1, <1>2, <1>3, ValidateStateStays DEF kept
<1> QED BY <1>4 DEF V
-----------------------------------------------------------------------------
(* The stages of a configuration in a row. *)

\* What they know: K[i] is what the i-th does.
AnyStage(W) == UNION {StageOf(n, Both(W)) : n \in DOMAIN Contexts}
AnyKnown == UNION {AnyStage(W) : W \in SUBSET VirtualKeys}
StagesOf(k, K) == {stages \in Seq(AnyKnown) : Len(stages) = k /\ \A i \in 1..k : stages[i] \in AnyStage(K[i])}
AnyUpdated(W) == [st : AnyStage(W), output : Seq(OutEvents)]

LEMMA AnyStageIs ==
  ASSUME NEW W, NEW st \in AnyStage(W)
  PROVE  /\ st.stage \in DOMAIN Contexts /\ st \in StageOf(st.stage, Both(W))
         /\ st.out \in Seq(Outputs) /\ Knows(st.seq, W) /\ st.seq \in Seq(SeqEvents)
<1>1. PICK n \in DOMAIN Contexts : st \in StageOf(n, Both(W))
  BY DEF AnyStage
<1>2. Both(W).down = W
  BY DEF Both
<1> QED BY <1>1, <1>2, StageFields

LEMMA AnyKnownIs ==
  ASSUME NEW st \in AnyKnown
  PROVE  \E W \in SUBSET VirtualKeys : st \in AnyStage(W)
BY DEF AnyKnown

LEMMA StageIsAny ==
  ASSUME NEW n \in DOMAIN Contexts, NEW W \in SUBSET VirtualKeys, NEW st \in StageOf(n, Both(W))
  PROVE  st \in AnyStage(W) /\ st \in AnyKnown
BY DEF AnyStage, AnyKnown

LEMMA StagesAre ==
  ASSUME NEW k, NEW K, NEW stages \in StagesOf(k, K)
  PROVE  /\ k \in Nat /\ stages \in Seq(AnyKnown) /\ Len(stages) = k /\ DOMAIN stages = 1..k
         /\ \A i \in 1..k : stages[i] \in AnyStage(K[i])
BY DEF StagesOf

LEMMA StagesWith ==
  ASSUME NEW k, NEW K \in [1..k -> SUBSET VirtualKeys], NEW stages \in StagesOf(k, K), NEW i \in 1..k,
         NEW W \in SUBSET VirtualKeys, NEW st \in AnyStage(W)
  PROVE  [stages EXCEPT ![i] = st] \in StagesOf(k, [K EXCEPT ![i] = W])
<1> DEFINE s == [stages EXCEPT ![i] = st]
           K2 == [K EXCEPT ![i] = W]
<1>1. stages \in Seq(AnyKnown) /\ Len(stages) = k /\ k \in Nat /\ st \in AnyKnown
  BY StagesAre DEF AnyKnown
<1>2. s \in Seq(AnyKnown) /\ Len(s) = k
  BY <1>1
<1>3. \A j \in 1..k : s[j] = (IF j = i THEN st ELSE stages[j]) /\ K2[j] = (IF j = i THEN W ELSE K[j])
  BY <1>1
<1> HIDE DEF s, K2
<1>4. \A j \in 1..k : s[j] \in AnyStage(K2[j])
  BY <1>3, StagesAre
<1>5. s \in StagesOf(k, K2)
  BY <1>2, <1>4 DEF StagesOf
<1> QED BY <1>5 DEF s, K2

LEMMA AnyUpdateIs ==
  ASSUME NEW W \in SUBSET VirtualKeys, NEW st \in AnyStage(W), NEW event \in SeqEvents, Plain(event), NEW device \in Int,
         NEW elapsed \in 0..MaxTimeout
  PROVE  Update(st, event, device, elapsed) \in AnyUpdated(After(W, event))
<1>1. PICK n \in DOMAIN Contexts : st \in StageOf(n, Both(W))
  BY DEF AnyStage
<1>2. Update(st, event, device, elapsed) \in Updated(n, Both(After(W, event)))
  BY <1>1, UpdateIs
<1> QED BY <1>2 DEF Updated, AnyUpdated, AnyStage

LEMMA AfterIs ==
  ASSUME NEW W \in SUBSET VirtualKeys, NEW event
  PROVE  /\ After(W, event) \in SUBSET VirtualKeys /\ After(After(W, event), event) = After(W, event)
         /\ event.key \notin VirtualKeys => After(W, event) = W
<1>1. (W \cup {event.key}) \cup {event.key} = W \cup {event.key}
  OBVIOUS
<1>2. (W \ {event.key}) \ {event.key} = W \ {event.key}
  OBVIOUS
<1> QED BY <1>1, <1>2 DEF After

\* Going through k stages.
Throughs(k, K, event) == [ stages : StagesOf(k, K), event : {event}, output : Seq(OutEvents),
                           device : Int, elapsed : 0..MaxTimeout ]
Knowing(k) == [1..k -> SUBSET VirtualKeys]
AnyThroughs(k, event) == UNION {Throughs(k, K, event) : K \in Knowing(k)}

LEMMA ThroughFields ==
  ASSUME NEW k, NEW K, NEW event, NEW acc \in Throughs(k, K, event)
  PROVE  /\ acc.stages \in StagesOf(k, K) /\ acc.event = event
         /\ acc.output \in Seq(OutEvents) /\ acc.device \in Int /\ acc.elapsed \in 0..MaxTimeout
BY DEF Throughs

LEMMA WithOutput ==
  ASSUME NEW k, NEW K, NEW event, NEW acc \in Throughs(k, K, event), NEW output \in Seq(OutEvents)
  PROVE  [acc EXCEPT !.output = output] \in Throughs(k, K, event)
BY DEF Throughs

LEMMA KnowingWith ==
  ASSUME NEW k, NEW K \in Knowing(k), NEW i \in 1..k, NEW W \in SUBSET VirtualKeys
  PROVE  [K EXCEPT ![i] = W] \in Knowing(k)
BY DEF Knowing

LEMMA DidIs ==
  ASSUME NEW k, NEW K \in Knowing(k), NEW event, NEW acc \in Throughs(k, K, event), NEW i \in 1..k,
         NEW W \in SUBSET VirtualKeys, NEW result \in AnyUpdated(W)
  PROVE  Did(acc, i, result) \in Throughs(k, [K EXCEPT ![i] = W], event)
<1> DEFINE stages == [acc.stages EXCEPT ![i] = result.st]
           output == acc.output \o result.output
           a == [acc EXCEPT !.stages = stages]
           K2 == [K EXCEPT ![i] = W]
<1>1. result.st \in AnyStage(W) /\ result.output \in Seq(OutEvents)
  BY DEF AnyUpdated
<1>2. stages \in StagesOf(k, K2)
  <2>1. acc.stages \in StagesOf(k, K)
    BY ThroughFields
  <2> QED BY <1>1, <2>1, StagesWith DEF Knowing
<1>3. output \in Seq(OutEvents)
  BY <1>1, ThroughFields
<1>4. Did(acc, i, result) = [a EXCEPT !.output = output]
  BY ThroughFields DEF Did, Throughs
<1> HIDE DEF stages, output, K2
<1>5. a \in Throughs(k, K2, event)
  BY <1>2 DEF Throughs
<1> HIDE DEF a
<1>6. [a EXCEPT !.output = output] \in Throughs(k, K2, event)
  BY <1>3, <1>5, WithOutput
<1> QED BY <1>4, <1>6 DEF K2

\* What a stage is updated with fits, the rest passes it by.
Fed == {in \in [event : OutEvents, own : {TRUE, FALSE}] : in.own => in.event \in SeqEvents}

\* An input of a virtual key is the one that goes through the stages.
FedWith(event) == {in \in Fed : in.own /\ in.event.key \in VirtualKeys => in.event = event}

LEMMA FeedStageStays ==
  ASSUME NEW acc, NEW pos, NEW inputs, NEW U, NEW T, NEW n \in Nat, DOMAIN inputs = 1..n, n = Len(inputs),
         [acc EXCEPT !.output = << >>] \in U[0], [acc EXCEPT !.output = << >>] \in T[0],
         \A i \in 1..n : U[i - 1] \subseteq U[i],
         \A i \in 1..n : \A x \in U[i - 1] : (IF inputs[i].own THEN Did(x, pos, Update(x.stages[pos], inputs[i].event, x.device, x.elapsed)) ELSE [x EXCEPT !.output = Append(@, inputs[i].event)]) \in U[i],
         \A i \in 1..n : \A x \in T[i - 1] : (IF inputs[i].own THEN Did(x, pos, Update(x.stages[pos], inputs[i].event, x.device, x.elapsed)) ELSE [x EXCEPT !.output = Append(@, inputs[i].event)]) \in T[i]
  PROVE  FeedStage(acc, pos, inputs) \in T[n]
<1> DEFINE seq == inputs
           base == [acc EXCEPT !.output = << >>]
           Op(x, i) == (IF inputs[i].own THEN Did(x, pos, Update(x.stages[pos], inputs[i].event, x.device, x.elapsed)) ELSE [x EXCEPT !.output = Append(@, inputs[i].event)])
           Step(x, e) == (IF e.own THEN Did(x, pos, Update(x.stages[pos], e.event, x.device, x.elapsed)) ELSE [x EXCEPT !.output = Append(@, e.event)])
           G == [i \in 1..n |-> [x \in U[i - 1] |-> Op(x, i)]]
           Is(f) == f = [s \in SUBSET (1..n) |->
                           IF s = {} THEN base ELSE Step(f[s \ {Max(s)}], seq[Max(s)])]
<1>1. Len(seq) = n /\ \A i \in 1..n : \A x : Step(x, seq[i]) = Op(x, i)
  <2>1. Len(seq) = n /\ \A i \in 1..n : seq[i] = inputs[i]
    OBVIOUS
  <2> HIDE DEF seq
  <2> QED BY <2>1
<1>2. base \in U[0] /\ \A i \in 1..n : \A x \in U[i - 1] : Op(x, i) \in U[i]
  OBVIOUS
<1>2a. base \in T[0] /\ \A i \in 1..n : \A x \in T[i - 1] : Op(x, i) \in T[i]
  OBVIOUS
<1>3. FeedStage(acc, pos, inputs) = (CHOOSE f : Is(f))[1..n]
  <2>1. FeedStage(acc, pos, inputs) = (CHOOSE f : f = [s \in SUBSET (1..Len(seq)) |->
                           IF s = {} THEN base ELSE Step(f[s \ {Max(s)}], seq[Max(s)])])[1..Len(seq)]
    BY DEF FeedStage, FoldLeft, MapThenFoldSet
  <2> HIDE DEF seq, base, Step
  <2> QED BY <1>1, <2>1
<1> HIDE DEF seq, base, Op, Step
<1>4. \A i \in 1..n : \A x \in U[i - 1] : G[i][x] = Op(x, i) /\ G[i][x] \in U[i]
  BY <1>2
<1> HIDE DEF G
<1>5. \E f : Is(f)
  <2>1. PICK f : IsFold(f, n, base, U, G)
    BY <1>2, <1>4, FoldExists
  <2>2. ASSUME NEW s \in SUBSET (1..n), s # {}
        PROVE  G[Max(s)][f[s \ {Max(s)}]] = Step(f[s \ {Max(s)}], seq[Max(s)])
    <3>1. Max(s) \in 1..n
      BY <2>2, LastOfPositions
    <3>2. f[s \ {Max(s)}] \in U[Max(s) - 1]
      BY <2>1, <2>2 DEF IsFold
    <3> QED BY <1>1, <1>4, <3>1, <3>2
  <2>3. f = [s \in SUBSET (1..n) |->
                IF s = {} THEN base ELSE G[Max(s)][f[s \ {Max(s)}]]]
    BY <2>1 DEF IsFold
  <2>4. Is(f)
    BY <2>2, <2>3
  <2> QED BY <2>4
<1>6. ASSUME NEW f, Is(f) PROVE f[1..n] \in T[n]
  <2> DEFINE a == [k \in 0..n |-> f[1..k]]
  <2>1. 1..0 = {} /\ 0 \in 0..n /\ n \in 0..n /\ \A k \in 1..n : k \in 0..n /\ k - 1 \in 0..n
    OBVIOUS
  <2>2. \A k \in 0..n : a[k] = f[1..k]
    OBVIOUS
  <2> HIDE DEF a
  <2>3. a[0] = base
    <3>1. f[{}] = base
      BY <1>6
    <3> QED BY <2>1, <2>2, <3>1
  <2>4. ASSUME NEW k \in 1..n PROVE a[k] = Op(a[k - 1], k)
    <3>1. /\ 1..k \in SUBSET (1..n) /\ 1..k # {} /\ Max(1..k) = k
          /\ (1..k) \ {Max(1..k)} = 1..(k - 1)
      BY FoldStep
    <3>2. f[1..k] = Step(f[(1..k) \ {Max(1..k)}], seq[Max(1..k)])
      BY <1>6, <3>1
    <3> QED BY <1>1, <2>1, <2>2, <3>1, <3>2
  <2>5. ASSUME NEW k \in 1..n, a[k - 1] \in T[k - 1] PROVE a[k] \in T[k]
    BY <1>2a, <2>4, <2>5
  <2>6. \A k \in 0..n : a[k] \in T[k]
    BY <1>2a, <2>3, <2>5, ChainStays
  <2> QED BY <2>1, <2>2, <2>6
<1> HIDE DEF Is
<1> QED BY <1>3, <1>5, <1>6

LEMMA FeedOnceIs ==
  ASSUME NEW k, NEW K \in Knowing(k), NEW event, Plain(event), NEW x \in Throughs(k, K, event), NEW i \in 1..k,
         NEW in \in FedWith(event)
  PROVE  LET fed == IF in.own THEN Did(x, i, Update(x.stages[i], in.event, x.device, x.elapsed))
                              ELSE [x EXCEPT !.output = Append(@, in.event)]
             K2 == IF in.own /\ in.event.key \in VirtualKeys THEN [K EXCEPT ![i] = After(K[i], event)] ELSE K
         IN  fed \in Throughs(k, K2, event) /\ K2 \in Knowing(k)
<1>1. /\ in.event \in OutEvents /\ (in.own => in.event \in SeqEvents)
      /\ (in.own /\ in.event.key \in VirtualKeys => in.event = event)
  BY DEF Fed, FedWith
<1>2. K[i] \in SUBSET VirtualKeys /\ [K EXCEPT ![i] = K[i]] = K
  BY DEF Knowing
<1>3. CASE in.own
  <2> DEFINE W == After(K[i], in.event)
             st == x.stages[i]
  <2>1. st \in AnyStage(K[i]) /\ x.device \in Int /\ x.elapsed \in 0..MaxTimeout
    <3>1. x.stages \in StagesOf(k, K) /\ x.device \in Int /\ x.elapsed \in 0..MaxTimeout
      BY ThroughFields
    <3> QED BY <3>1, StagesAre
  <2>2. Plain(in.event) /\ in.event \in SeqEvents
    BY <1>1, <1>3 DEF Plain
  <2> HIDE DEF st
  <2>3. Update(st, in.event, x.device, x.elapsed) \in AnyUpdated(W)
    BY <1>2, <2>1, <2>2, AnyUpdateIs
  <2>4. W \in SUBSET VirtualKeys
    BY <1>2, AfterIs
  <2>5. (in.event.key \notin VirtualKeys => W = K[i]) /\ (in.event.key \in VirtualKeys => W = After(K[i], event))
    BY <1>1, <1>2, <1>3, AfterIs
  <2> HIDE DEF W
  <2>6. Did(x, i, Update(st, in.event, x.device, x.elapsed)) \in Throughs(k, [K EXCEPT ![i] = W], event)
    BY <2>3, <2>4, DidIs
  <2>7. [K EXCEPT ![i] = W] \in Knowing(k)
    BY <2>4, KnowingWith
  <2>8. CASE in.event.key \in VirtualKeys
    BY <1>3, <2>5, <2>6, <2>7, <2>8 DEF st
  <2>9. CASE in.event.key \notin VirtualKeys
    BY <1>2, <1>3, <2>5, <2>6, <2>9 DEF st
  <2> QED BY <2>8, <2>9
<1>4. CASE ~in.own
  <2>1. Append(x.output, in.event) \in Seq(OutEvents)
    BY <1>1, ThroughFields
  <2>2. [x EXCEPT !.output = Append(@, in.event)] \in Throughs(k, K, event)
    BY <2>1, WithOutput
  <2> QED BY <1>4, <2>2
<1> QED BY <1>3, <1>4

\* A stage that is updated with the event knows what is down after it.
Learns(K, i, event) == [K EXCEPT ![i] = After(K[i], event)]

LEMMA LearnsIs ==
  ASSUME NEW k, NEW K \in Knowing(k), NEW i \in 1..k, NEW event
  PROVE  /\ Learns(K, i, event) \in Knowing(k)
         /\ Learns(Learns(K, i, event), i, event) = Learns(K, i, event)
         /\ event.key \notin VirtualKeys => Learns(K, i, event) = K
<1> DEFINE W == After(K[i], event)
           K2 == [K EXCEPT ![i] = W]
<1>1. K[i] \in SUBSET VirtualKeys /\ [K EXCEPT ![i] = K[i]] = K
  BY DEF Knowing
<1>2. W \in SUBSET VirtualKeys /\ After(W, event) = W /\ (event.key \notin VirtualKeys => W = K[i])
  BY <1>1, AfterIs
<1> HIDE DEF W
<1>3. K2 \in Knowing(k) /\ K2[i] = W
  BY <1>2, KnowingWith DEF Knowing
<1>4. [K2 EXCEPT ![i] = W] = K2
  BY <1>3 DEF Knowing
<1>5. Learns(K, i, event) = K2
  BY DEF Learns, W
<1>6. event.key \notin VirtualKeys => K2 = K
  BY <1>1, <1>2
<1> HIDE DEF K2
<1> QED BY <1>2, <1>3, <1>4, <1>5, <1>6 DEF Learns

LEMMA FeedStageIs ==
  ASSUME NEW k, NEW K \in Knowing(k), NEW event, Plain(event), NEW acc \in Throughs(k, K, event), NEW i \in 1..k,
         NEW inputs \in Seq(FedWith(event)),
         event.key \in VirtualKeys => inputs # << >> /\ inputs[1] = [event |-> event, own |-> TRUE]
  PROVE  FeedStage(acc, i, inputs) \in Throughs(k, Learns(K, i, event), event)
<1> DEFINE base == [acc EXCEPT !.output = << >>]
           Fold(x, in) == IF in.own THEN Did(x, i, Update(x.stages[i], in.event, x.device, x.elapsed))
                                    ELSE [x EXCEPT !.output = Append(@, in.event)]
           n == Len(inputs)
           K2 == Learns(K, i, event)
           U == [j \in 0..n |-> AnyThroughs(k, event)]
           T == [j \in 0..n |-> IF j = 0 THEN Throughs(k, K, event) ELSE Throughs(k, K2, event)]
<1>1. /\ n \in Nat /\ DOMAIN inputs = 1..n /\ \A j \in 1..n : inputs[j] \in FedWith(event)
      /\ \A j \in 1..n : j \in 0..n /\ j - 1 \in 0..n /\ j # 0
      /\ 0 \in 0..n /\ n \in 0..n
  OBVIOUS
<1>2. K2 \in Knowing(k) /\ Learns(K2, i, event) = K2 /\ (event.key \notin VirtualKeys => K2 = K)
  BY LearnsIs
<1>3. base \in Throughs(k, K, event)
  <2>1. << >> \in Seq(OutEvents)
    OBVIOUS
  <2> QED BY <2>1, WithOutput
<1>4. base \in AnyThroughs(k, event)
  BY <1>3 DEF AnyThroughs
<1>5. /\ \A j \in 0..n : U[j] = AnyThroughs(k, event)
      /\ T[0] = Throughs(k, K, event) /\ \A j \in 1..n : T[j] = Throughs(k, K2, event)
  BY <1>1
<1> HIDE DEF base, U, T, n, K2
<1>6. ASSUME NEW L \in Knowing(k), NEW x \in Throughs(k, L, event), NEW in \in FedWith(event)
      PROVE  /\ \E M \in Knowing(k) : Fold(x, in) \in Throughs(k, M, event)
             /\ ~(in.own /\ in.event.key \in VirtualKeys) => Fold(x, in) \in Throughs(k, L, event)
             /\ in.own /\ in.event.key \in VirtualKeys => Fold(x, in) \in Throughs(k, Learns(L, i, event), event)
  <2> DEFINE M == IF in.own /\ in.event.key \in VirtualKeys THEN Learns(L, i, event) ELSE L
  <2>1. Fold(x, in) \in Throughs(k, M, event) /\ M \in Knowing(k)
    BY <1>6, FeedOnceIs DEF Learns
  <2> HIDE DEF Fold
  <2> QED BY <2>1
<1> HIDE DEF Fold
<1>7. ASSUME NEW j \in 1..n, NEW x \in U[j - 1] PROVE Fold(x, inputs[j]) \in U[j]
  <2>1. PICK L \in Knowing(k) : x \in Throughs(k, L, event)
    BY <1>1, <1>5 DEF AnyThroughs
  <2>2. inputs[j] \in FedWith(event)
    BY <1>1
  <2>3. PICK M \in Knowing(k) : Fold(x, inputs[j]) \in Throughs(k, M, event)
    BY <1>6, <2>1, <2>2
  <2> QED BY <1>1, <1>5, <2>3 DEF AnyThroughs
<1>8. ASSUME NEW j \in 1..n, NEW x \in T[j - 1] PROVE Fold(x, inputs[j]) \in T[j]
  <2> DEFINE in == inputs[j]
             virtual == in.own /\ in.event.key \in VirtualKeys
  <2>1. in \in FedWith(event)
    BY <1>1
  <2>2. j = 1 => x \in Throughs(k, K, event)
    BY <1>5
  <2>3. j # 1 => x \in Throughs(k, K2, event)
    <3>1. j # 1 => j - 1 \in 1..n
      BY <1>1
    <3> QED BY <1>5, <3>1
  <2>4. j = 1 /\ event.key \in VirtualKeys => virtual
    OBVIOUS
  <2>5. virtual => event.key \in VirtualKeys
    BY <2>1 DEF FedWith
  <2> HIDE DEF in
  <2>6. CASE j = 1
    <3>1. virtual => Fold(x, in) \in Throughs(k, K2, event)
      BY <1>6, <2>1, <2>2, <2>6 DEF K2
    <3>2. ~virtual => Fold(x, in) \in Throughs(k, K, event) /\ K2 = K
      BY <1>2, <1>6, <2>1, <2>2, <2>4, <2>6
    <3>3. Fold(x, in) \in Throughs(k, K2, event)
      BY <3>1, <3>2
    <3> QED BY <1>5, <3>3 DEF in
  <2>7. CASE j # 1
    <3>1. Fold(x, in) \in Throughs(k, K2, event)
      BY <1>2, <1>6, <2>1, <2>3, <2>7
    <3> QED BY <1>5, <3>1 DEF in
  <2> QED BY <2>6, <2>7
<1>9. FeedStage(acc, i, inputs) \in T[n]
  <2>1. base \in U[0] /\ base \in T[0] /\ \A j \in 1..n : U[j - 1] \subseteq U[j]
    BY <1>1, <1>3, <1>4, <1>5
  <2>2. /\ \A j \in 1..n : \A x \in U[j - 1] : Fold(x, inputs[j]) \in U[j]
        /\ \A j \in 1..n : \A x \in T[j - 1] : Fold(x, inputs[j]) \in T[j]
    BY <1>7, <1>8
  <2>3. n \in Nat /\ DOMAIN inputs = 1..n /\ n = Len(inputs)
    BY <1>1 DEF n
  <2> QED BY <2>1, <2>2, <2>3, FeedStageStays DEF base, Fold
<1>10. n = 0 => event.key \notin VirtualKeys
  BY <1>1 DEF n
<1>11. T[n] = Throughs(k, K2, event)
  <2>1. CASE n = 0
    BY <1>2, <1>5, <1>10, <2>1
  <2>2. CASE n # 0
    <3>1. n \in 1..n
      BY <1>1, <2>2
    <3> QED BY <1>5, <3>1
  <2> QED BY <2>1, <2>2
<1> QED BY <1>9, <1>11 DEF K2

LEMMA InputOfIs ==
  ASSUME NEW i, NEW event \in OutEvents, i = 1 => event \in SeqEvents
  PROVE  InputOf(i, event) \in Fed
<1> DEFINE own == i = 1 \/ ~IsServerEvent(event)
<1>1. ~IsServerEvent(event) => event \in SeqEvents
  BY DEF IsServerEvent, OutEvents, SeqEvents, OutputKeys, SeqKeys, EventsOf
<1>2. own => event \in SeqEvents
  BY <1>1
<1>3. own \in BOOLEAN /\ InputOf(i, event) = [event |-> event, own |-> own]
  BY DEF InputOf
<1> HIDE DEF own
<1>4. CASE own
  <2>1. InputOf(i, event) = [event |-> event, own |-> TRUE]
    BY <1>3, <1>4
  <2> QED BY <1>2, <1>4, <2>1 DEF Fed
<1>5. CASE ~own
  <2>1. InputOf(i, event) = [event |-> event, own |-> FALSE]
    BY <1>3, <1>5
  <2> QED BY <2>1 DEF Fed
<1> QED BY <1>4, <1>5

LEMMA InputOfWith ==
  ASSUME NEW i, NEW output \in OutEvents, NEW event, i = 1 => output \in SeqEvents /\ output = event
  PROVE  InputOf(i, output) \in FedWith(event)
<1>1. InputOf(i, output) \in Fed
  BY InputOfIs
<1>2. InputOf(i, output).event = output /\ InputOf(i, output).own = (i = 1 \/ ~IsServerEvent(output))
  BY DEF InputOf
<1>3. output.key \in VirtualKeys => IsServerEvent(output)
  BY DEF IsServerEvent
<1> QED BY <1>1, <1>2, <1>3 DEF FedWith

LEMMA ToldIs ==
  ASSUME NEW i, NEW event \in SeqEvents \cup {NoEvent}
  PROVE  /\ Told(i, event) \in Seq(FedWith(event))
         /\ i > 1 /\ event.key \in VirtualKeys => Told(i, event) = <<[event |-> event, own |-> TRUE]>>
         /\ ~(i > 1) => Told(i, event) = << >>
<1>1. NoEvent.key \notin VirtualKeys \cup {"timeout"}
  BY KeyKindsAreDisjoint DEF NoEvent, Release, Event
<1> DEFINE in == [event |-> event, own |-> TRUE]
<1>2. ASSUME event.key \in VirtualKeys \cup {"timeout"} PROVE in \in FedWith(event)
  <2>1. event \in SeqEvents
    BY <1>1, <1>2
  <2>2. in \in Fed
    BY <2>1, SeqEventsAre DEF Fed
  <2> QED BY <2>2 DEF FedWith
<1>3. Told(i, event) = IF i > 1 /\ event.key \in VirtualKeys \cup {"timeout"} THEN <<in>> ELSE << >>
  BY DEF Told
<1>4. event.key \in VirtualKeys \cup {"timeout"} => in \in FedWith(event)
  BY <1>2
<1> HIDE DEF in
<1>5. Told(i, event) \in Seq(FedWith(event))
  BY <1>3, <1>4
<1> QED BY <1>3, <1>5 DEF in

\* What goes into the first stage: the event, or nothing.
Starts(output, event) ==
  \/ event \in SeqEvents /\ output = <<event>>
  \/ event.key \notin VirtualKeys /\ output = << >>

LEMMA FeedOutputIs ==
  ASSUME NEW k, NEW K \in Knowing(k), NEW event \in SeqEvents \cup {NoEvent}, Plain(event),
         NEW acc \in Throughs(k, K, event), NEW i \in 1..k, k \in Nat, i = 1 => Starts(acc.output, event)
  PROVE  FeedOutput(acc, i) \in Throughs(k, Learns(K, i, event), event)
<1> DEFINE output == acc.output
           inputs == Map(output, LAMBDA ev : InputOf(i, ev))
           g == [j \in DOMAIN output |-> InputOf(i, output[j])]
           inputsTold == Told(i, event)
           all == inputsTold \o inputs
           X == FedWith(event)
<1>1. output \in Seq(OutEvents) /\ Len(output) \in Nat /\ DOMAIN output = 1..Len(output) /\ acc.event = event
  BY ThroughFields
<1>2. i = 1 => Starts(output, event)
  OBVIOUS
<1>3. inputs = SubSeq(g, 1, Len(output))
  BY DEF Map
<1>4. i > 1 \/ i = 1
  OBVIOUS
<1>5. FeedOutput(acc, i) = FeedStage(acc, i, all)
  BY <1>1 DEF FeedOutput
<1> HIDE DEF output, inputs
<1>6. g \in [1..Len(output) -> X]
  <2>1. \A j \in DOMAIN output : output[j] \in OutEvents
    BY <1>1
  <2>2. i = 1 => \A j \in DOMAIN output : output[j] = event /\ event \in SeqEvents
    BY <1>2 DEF Starts
  <2>3. \A j \in DOMAIN output : InputOf(i, output[j]) \in X
    BY <2>1, <2>2, InputOfWith
  <2> HIDE DEF X
  <2> QED BY <1>1, <2>3
<1>7. inputs = g /\ inputs \in Seq(X) /\ Len(inputs) = Len(output)
  <2> HIDE DEF g, X
  <2> QED BY <1>1, <1>3, <1>6, MapIs
<1>8. /\ inputsTold \in Seq(X)
      /\ i > 1 /\ event.key \in VirtualKeys => inputsTold = <<[event |-> event, own |-> TRUE]>>
      /\ ~(i > 1) => inputsTold = << >>
  BY ToldIs
<1>9. i = 1 /\ event.key \in VirtualKeys => output = <<event>> /\ inputs[1] = [event |-> event, own |-> TRUE]
  <2>1. i = 1 /\ event.key \in VirtualKeys => output = <<event>>
    BY <1>2 DEF Starts
  <2>2. output = <<event>> => 1 \in DOMAIN output /\ output[1] = event
    OBVIOUS
  <2>3. output = <<event>> => inputs[1] = InputOf(i, event)
    BY <1>7, <2>2
  <2>4. i = 1 => InputOf(i, event) = [event |-> event, own |-> TRUE]
    BY DEF InputOf
  <2> QED BY <2>1, <2>3, <2>4
<1> HIDE DEF inputsTold, g, X
<1>10. all \in Seq(X)
  BY <1>7, <1>8
<1>11. event.key \in VirtualKeys => all # << >> /\ all[1] = [event |-> event, own |-> TRUE]
  <2> SUFFICES ASSUME event.key \in VirtualKeys PROVE all # << >> /\ all[1] = [event |-> event, own |-> TRUE]
    OBVIOUS
  <2>1. CASE i > 1
    <3> DEFINE own == [event |-> event, own |-> TRUE]
    <3>1. inputsTold = <<own>>
      BY <1>8, <2>1
    <3> HIDE DEF own
    <3>2. all # << >> /\ all[1] = own
      BY <1>7, <3>1
    <3> QED BY <3>2 DEF own
  <2>2. CASE i = 1
    <3>1. inputsTold = << >> /\ all = inputs
      BY <1>7, <1>8, <2>2
    <3>2. Len(output) = 1
      BY <1>9, <2>2
    <3>3. inputs # << >>
      <4>1. DOMAIN inputs = DOMAIN output /\ 1 \in DOMAIN output
        BY <1>1, <1>6, <1>7, <3>2
      <4>2. DOMAIN << >> = {}
        OBVIOUS
      <4> QED BY <4>1, <4>2
    <3> QED BY <1>9, <2>2, <3>1, <3>3
  <2> QED BY <1>4, <2>1, <2>2
<1> HIDE DEF all
<1>12. FeedStage(acc, i, all) \in Throughs(k, Learns(K, i, event), event)
  BY <1>10, <1>11, FeedStageIs DEF X
<1> QED BY <1>5, <1>12

LEMMA UpdateStagesStays ==
  ASSUME NEW stages, NEW event, NEW device, NEW elapsed, NEW U, NEW T, NEW n \in Nat, DOMAIN stages = 1..n, n = Len(stages),
         Through(stages, event, <<event>>, device, elapsed) \in U[0], Through(stages, event, <<event>>, device, elapsed) \in T[0],
         \A i \in 1..n : U[i - 1] \subseteq U[i],
         \A i \in 1..n : \A x \in U[i - 1] : FeedOutput(x, i) \in U[i],
         \A i \in 1..n : \A x \in T[i - 1] : FeedOutput(x, i) \in T[i]
  PROVE  UpdateStages(stages, event, device, elapsed) \in T[n]
<1> DEFINE seq == [i \in DOMAIN stages |-> i]
           base == Through(stages, event, <<event>>, device, elapsed)
           Op(x, i) == FeedOutput(x, i)
           Step(x, i) == FeedOutput(x, i)
           G == [i \in 1..n |-> [x \in U[i - 1] |-> Op(x, i)]]
           Is(f) == f = [s \in SUBSET (1..n) |->
                           IF s = {} THEN base ELSE Step(f[s \ {Max(s)}], seq[Max(s)])]
<1>1. Len(seq) = n /\ \A i \in 1..n : \A x : Step(x, seq[i]) = Op(x, i)
  <2>1. Len(seq) = n /\ \A i \in 1..n : seq[i] = i
    OBVIOUS
  <2> HIDE DEF seq
  <2> QED BY <2>1
<1>2. base \in U[0] /\ \A i \in 1..n : \A x \in U[i - 1] : Op(x, i) \in U[i]
  OBVIOUS
<1>2a. base \in T[0] /\ \A i \in 1..n : \A x \in T[i - 1] : Op(x, i) \in T[i]
  OBVIOUS
<1>3. UpdateStages(stages, event, device, elapsed) = (CHOOSE f : Is(f))[1..n]
  <2>1. UpdateStages(stages, event, device, elapsed) = (CHOOSE f : f = [s \in SUBSET (1..Len(seq)) |->
                           IF s = {} THEN base ELSE Step(f[s \ {Max(s)}], seq[Max(s)])])[1..Len(seq)]
    BY DEF UpdateStages, FoldLeft, MapThenFoldSet
  <2> HIDE DEF seq, base, Step
  <2> QED BY <1>1, <2>1
<1> HIDE DEF seq, base, Op, Step
<1>4. \A i \in 1..n : \A x \in U[i - 1] : G[i][x] = Op(x, i) /\ G[i][x] \in U[i]
  BY <1>2
<1> HIDE DEF G
<1>5. \E f : Is(f)
  <2>1. PICK f : IsFold(f, n, base, U, G)
    BY <1>2, <1>4, FoldExists
  <2>2. ASSUME NEW s \in SUBSET (1..n), s # {}
        PROVE  G[Max(s)][f[s \ {Max(s)}]] = Step(f[s \ {Max(s)}], seq[Max(s)])
    <3>1. Max(s) \in 1..n
      BY <2>2, LastOfPositions
    <3>2. f[s \ {Max(s)}] \in U[Max(s) - 1]
      BY <2>1, <2>2 DEF IsFold
    <3> QED BY <1>1, <1>4, <3>1, <3>2
  <2>3. f = [s \in SUBSET (1..n) |->
                IF s = {} THEN base ELSE G[Max(s)][f[s \ {Max(s)}]]]
    BY <2>1 DEF IsFold
  <2>4. Is(f)
    BY <2>2, <2>3
  <2> QED BY <2>4
<1>6. ASSUME NEW f, Is(f) PROVE f[1..n] \in T[n]
  <2> DEFINE a == [k \in 0..n |-> f[1..k]]
  <2>1. 1..0 = {} /\ 0 \in 0..n /\ n \in 0..n /\ \A k \in 1..n : k \in 0..n /\ k - 1 \in 0..n
    OBVIOUS
  <2>2. \A k \in 0..n : a[k] = f[1..k]
    OBVIOUS
  <2> HIDE DEF a
  <2>3. a[0] = base
    <3>1. f[{}] = base
      BY <1>6
    <3> QED BY <2>1, <2>2, <3>1
  <2>4. ASSUME NEW k \in 1..n PROVE a[k] = Op(a[k - 1], k)
    <3>1. /\ 1..k \in SUBSET (1..n) /\ 1..k # {} /\ Max(1..k) = k
          /\ (1..k) \ {Max(1..k)} = 1..(k - 1)
      BY FoldStep
    <3>2. f[1..k] = Step(f[(1..k) \ {Max(1..k)}], seq[Max(1..k)])
      BY <1>6, <3>1
    <3> QED BY <1>1, <2>1, <2>2, <3>1, <3>2
  <2>5. ASSUME NEW k \in 1..n, a[k - 1] \in T[k - 1] PROVE a[k] \in T[k]
    BY <1>2a, <2>4, <2>5
  <2>6. \A k \in 0..n : a[k] \in T[k]
    BY <1>2a, <2>3, <2>5, ChainStays
  <2> QED BY <2>1, <2>2, <2>6
<1> HIDE DEF Is
<1> QED BY <1>3, <1>5, <1>6

\* All stages learn of an event.
Taught(K, event) == [i \in DOMAIN K |-> After(K[i], event)]

LEMMA TaughtSoFar ==
  ASSUME NEW k \in Nat, NEW K \in Knowing(k), NEW event
  PROVE  /\ Taught(K, event) \in Knowing(k)
         /\ \E L : /\ L[0] = K /\ L[k] = Taught(K, event)
                   /\ \A i \in 0..k : L[i] \in Knowing(k)
                   /\ \A i \in 1..k : L[i] = Learns(L[i - 1], i, event)
<1> DEFINE K2 == Taught(K, event)
           L == [i \in 0..k |-> [j \in 1..k |-> IF j <= i THEN K2[j] ELSE K[j]]]
<1>1. DOMAIN K = 1..k /\ \A i \in 1..k : K[i] \in SUBSET VirtualKeys
  BY DEF Knowing
<1>2. \A i \in 1..k : K2[i] = After(K[i], event) /\ K2[i] \in SUBSET VirtualKeys
  BY <1>1, AfterIs DEF Taught
<1>3. K2 \in Knowing(k)
  BY <1>1, <1>2 DEF Knowing, Taught
<1>4. DOMAIN K2 = 1..k
  BY <1>1 DEF Taught
<1> HIDE DEF K2
<1>5. L[0] = K
  <2>1. 0 \in 0..k /\ \A j \in 1..k : ~(j <= 0)
    OBVIOUS
  <2>2. L[0] = [j \in 1..k |-> K[j]]
    BY <2>1
  <2> QED BY <1>3, <2>2 DEF Knowing
<1>6. L[k] = K2
  <2>1. k \in 0..k /\ \A j \in 1..k : j <= k
    OBVIOUS
  <2>2. L[k] = [j \in 1..k |-> K2[j]]
    BY <2>1
  <2> QED BY <1>3, <2>2 DEF Knowing
<1>7. \A i \in 0..k : L[i] \in Knowing(k)
  BY <1>1, <1>2 DEF Knowing
<1>8. ASSUME NEW i \in 1..k PROVE L[i] = Learns(L[i - 1], i, event)
  <2>1. i \in 0..k /\ i - 1 \in 0..k /\ ~(i <= i - 1) /\ \A j \in 1..k : j # i => (j <= i <=> j <= i - 1)
    OBVIOUS
  <2>2. L[i - 1] = [j \in 1..k |-> IF j <= i - 1 THEN K2[j] ELSE K[j]]
    BY <2>1
  <2>3. L[i] = [j \in 1..k |-> IF j <= i THEN K2[j] ELSE K[j]]
    BY <2>1
  <2> HIDE DEF L
  <2>4. L[i - 1][i] = K[i]
    BY <2>1, <2>2
  <2>5. Learns(L[i - 1], i, event) = [j \in 1..k |-> IF j = i THEN After(K[i], event) ELSE L[i - 1][j]]
    BY <2>2, <2>4 DEF Learns
  <2>6. \A j \in 1..k : (IF j = i THEN After(K[i], event) ELSE L[i - 1][j]) = (IF j <= i THEN K2[j] ELSE K[j])
    BY <1>2, <2>1, <2>2
  <2> QED BY <2>3, <2>5, <2>6
<1> QED BY <1>3, <1>5, <1>6, <1>7, <1>8 DEF K2

LEMMA UpdateStagesIs ==
  ASSUME NEW k, NEW K \in Knowing(k), NEW stages \in StagesOf(k, K), NEW event \in SeqEvents, Plain(event),
         NEW device \in Int, NEW elapsed \in 0..MaxTimeout
  PROVE  UpdateStages(stages, event, device, elapsed) \in Throughs(k, Taught(K, event), event)
<1> DEFINE base == Through(stages, event, <<event>>, device, elapsed)
<1>1. k \in Nat /\ Len(stages) = k /\ DOMAIN stages = 1..k
  BY StagesAre
<1>2. base \in Throughs(k, K, event) /\ Starts(base.output, event)
  <2>1. <<event>> \in Seq(OutEvents)
    BY SeqEventsAre
  <2> QED BY <2>1 DEF Through, Throughs, Starts
<1> HIDE DEF base
<1>3. PICK L : /\ L[0] = K /\ L[k] = Taught(K, event)
               /\ \A i \in 0..k : L[i] \in Knowing(k)
               /\ \A i \in 1..k : L[i] = Learns(L[i - 1], i, event)
  BY <1>1, TaughtSoFar
<1> DEFINE U == [i \in 0..k |-> IF i = 0 THEN {base} ELSE AnyThroughs(k, event)]
           T == [i \in 0..k |-> IF i = 0 THEN {base} ELSE Throughs(k, L[i], event)]
<1>4. /\ \A i \in 1..k : i - 1 \in 0..k /\ i \in 0..k /\ i # 0 /\ (i # 1 => i - 1 \in 1..k)
      /\ 0 \in 0..k /\ k \in 0..k
  BY <1>1
<1>5. /\ U[0] = {base} /\ \A i \in 1..k : U[i] = AnyThroughs(k, event)
      /\ T[0] = {base} /\ \A i \in 1..k : T[i] = Throughs(k, L[i], event)
  BY <1>4
<1> HIDE DEF U, T
<1>6. base \in AnyThroughs(k, event)
  BY <1>2 DEF AnyThroughs
<1>7. \A i \in 1..k : U[i - 1] \subseteq U[i]
  BY <1>4, <1>5, <1>6
<1>8. ASSUME NEW i \in 1..k, NEW x \in U[i - 1] PROVE FeedOutput(x, i) \in U[i]
  <2>1. x \in AnyThroughs(k, event) /\ (i = 1 => Starts(x.output, event))
    BY <1>2, <1>4, <1>5, <1>6
  <2>2. PICK M \in Knowing(k) : x \in Throughs(k, M, event)
    BY <2>1 DEF AnyThroughs
  <2>3. FeedOutput(x, i) \in Throughs(k, Learns(M, i, event), event) /\ Learns(M, i, event) \in Knowing(k)
    BY <1>1, <2>1, <2>2, FeedOutputIs, LearnsIs
  <2> QED BY <1>5, <2>3 DEF AnyThroughs
<1>9. ASSUME NEW i \in 1..k, NEW x \in T[i - 1] PROVE FeedOutput(x, i) \in T[i]
  <2>1. x \in Throughs(k, L[i - 1], event) /\ (i = 1 => Starts(x.output, event))
    <3>1. CASE i = 1
      BY <1>2, <1>3, <1>5, <3>1
    <3>2. CASE i # 1
      BY <1>4, <1>5, <3>2
    <3> QED BY <3>1, <3>2
  <2>2. L[i - 1] \in Knowing(k) /\ L[i] = Learns(L[i - 1], i, event)
    BY <1>3, <1>4
  <2>3. FeedOutput(x, i) \in Throughs(k, Learns(L[i - 1], i, event), event)
    BY <1>1, <2>1, <2>2, FeedOutputIs
  <2> QED BY <1>5, <2>2, <2>3
<1>10. base \in U[0] /\ base \in T[0]
  BY <1>5
<1>11. UpdateStages(stages, event, device, elapsed) \in T[k]
  BY <1>1, <1>7, <1>8, <1>9, <1>10, UpdateStagesStays DEF base
<1>12. T[k] \subseteq Throughs(k, L[k], event)
  <2>1. CASE k = 0
    BY <1>2, <1>3, <1>5, <2>1
  <2>2. CASE k # 0
    <3>1. k \in 1..k
      BY <1>1, <2>2
    <3> QED BY <1>5, <3>1
  <2> QED BY <2>1, <2>2
<1> QED BY <1>3, <1>11, <1>12
\* The contexts of the i-th stage among those that are counted through.
LEMMA OwnContextsIs ==
  ASSUME NEW k, NEW K, NEW stages \in StagesOf(k, K), NEW i \in 1..k, NEW indices \in Seq(Nat)
  PROVE  OwnContexts(stages, i, indices) \in Seq(DOMAIN Contexts[stages[i].stage])
<1> DEFINE L == [j \in 1..k |-> Len(Contexts[stages[j].stage])]
           Is(f) == f = [j \in 0..Len(stages) |->
                           IF j = 0 THEN 0 ELSE f[j - 1] + Len(Contexts[stages[j].stage])]
           u == CHOOSE f : Is(f)
           positions == {j \in DOMAIN indices : indices[j] > u[i - 1] /\ indices[j] <= u[i]}
           own == ElementsAt(indices, positions)
<1>1. OwnContexts(stages, i, indices) = Map(own, LAMBDA index : index - u[i - 1])
  BY DEF OwnContexts, Select
<1>2. k \in Nat /\ Len(stages) = k
  BY StagesAre
<1>3. \A j \in 1..k : /\ L[j] = Len(Contexts[stages[j].stage]) /\ L[j] \in Nat
                      /\ DOMAIN Contexts[stages[j].stage] = 1..L[j]
  <2>1. ASSUME NEW j \in 1..k
        PROVE  /\ Len(Contexts[stages[j].stage]) \in Nat
               /\ DOMAIN Contexts[stages[j].stage] = 1..Len(Contexts[stages[j].stage])
    <3>1. stages[j] \in AnyStage(K[j])
      BY StagesAre
    <3>2. stages[j].stage \in DOMAIN Contexts
      BY <3>1, AnyStageIs
    <3>3. Contexts[stages[j].stage] \in Seq(ToSet(Contexts[stages[j].stage]))
      BY <3>2, ContextsAreParsed
    <3> QED BY <3>3
  <2> QED BY <2>1
<1> HIDE DEF L
<1>4. \E f : Is(f)
  <2> DEFINE G == [j \in 1..k |-> [x \in Nat |-> x + L[j]]]
  <2>1. \A j \in 1..k : \A x \in Nat : G[j][x] = x + L[j] /\ G[j][x] \in Nat
    BY <1>3
  <2> HIDE DEF G
  <2>2. PICK f : RoundsIn(f, k, Nat, 0, G)
    BY <1>2, <2>1, RoundsExist
  <2>3. ASSUME NEW j \in 0..k, j # 0 PROVE G[j][f[j - 1]] = f[j - 1] + Len(Contexts[stages[j].stage])
    <3>1. j \in 1..k /\ j - 1 \in 0..k
      BY <1>2, <2>3
    <3>2. f[j - 1] \in Nat
      BY <2>2, <3>1 DEF RoundsIn
    <3> QED BY <1>3, <2>1, <3>1, <3>2
  <2>4. f = [j \in 0..k |-> IF j = 0 THEN 0 ELSE G[j][f[j - 1]]]
    BY <2>2 DEF RoundsIn
  <2>5. f = [j \in 0..Len(stages) |-> IF j = 0 THEN 0 ELSE f[j - 1] + Len(Contexts[stages[j].stage])]
    BY <1>2, <2>3, <2>4
  <2> QED BY <2>5
<1>5. Is(u)
  BY <1>4
<1>6. \A j \in 1..k : u[j] = u[j - 1] + L[j]
  <2>1. ASSUME NEW j \in 1..k PROVE j \in 0..Len(stages) /\ j # 0
    BY <1>2
  <2> HIDE DEF u
  <2> QED BY <1>3, <1>5, <2>1
<1>7. u[0] = 0
  <2>1. 0 \in 0..Len(stages)
    BY <1>2
  <2> HIDE DEF u
  <2> QED BY <1>5, <2>1
<1> HIDE DEF u, Is
<1>8. \A j \in 0..k : u[j] \in Nat
  <2>1. ASSUME NEW j \in 1..k, u[j - 1] \in Nat PROVE u[j] \in Nat
    <3>1. L[j] \in Nat /\ u[j] = u[j - 1] + L[j]
      BY <1>3, <1>6
    <3> QED BY <2>1, <3>1
  <2>2. u[0] \in Nat
    BY <1>7
  <2> DEFINE T == [j \in 0..k |-> Nat]
  <2>3. \A j \in 0..k : T[j] = Nat
    OBVIOUS
  <2>4. 0 \in 0..k /\ \A j \in 1..k : j - 1 \in 0..k /\ j \in 0..k
    BY <1>2
  <2> HIDE DEF T
  <2>5. u[0] \in T[0] /\ \A j \in 1..k : u[j - 1] \in T[j - 1] => u[j] \in T[j]
    BY <2>1, <2>2, <2>3, <2>4
  <2>6. \A j \in 0..k : u[j] \in T[j]
    BY <1>2, <2>5, ChainStays
  <2> QED BY <2>3, <2>6
<1>9. i \in 0..k /\ i - 1 \in 0..k
  BY <1>2
<1>10. own \in Seq({x \in Nat : x > u[i - 1] /\ x <= u[i]})
  <2>1. \A j \in DOMAIN indices : indices[j] \in Nat
    OBVIOUS
  <2>2. \A j \in DOMAIN indices : j \in positions =>
           indices[j] \in {x \in Nat : x > u[i - 1] /\ x <= u[i]}
    BY <2>1
  <2> HIDE DEF positions
  <2> QED BY <2>2, ElementsAtIs
<1> HIDE DEF own
<1>11. \A x \in {y \in Nat : y > u[i - 1] /\ y <= u[i]} : x - u[i - 1] \in DOMAIN Contexts[stages[i].stage]
  BY <1>3, <1>6, <1>8, <1>9
<1>12. Len(own) \in Nat /\ DOMAIN own = 1..Len(own)
       /\ \A j \in DOMAIN own : own[j] - u[i - 1] \in DOMAIN Contexts[stages[i].stage]
  BY <1>10, <1>11
<1>13. [j \in DOMAIN own |-> own[j] - u[i - 1]] \in [1..Len(own) -> DOMAIN Contexts[stages[i].stage]]
  BY <1>12
<1> DEFINE D == DOMAIN Contexts[stages[i].stage]
           m == Len(own)
           g == [j \in DOMAIN own |-> own[j] - u[i - 1]]
<1>14. m \in Nat /\ g \in [1..m -> D]
  BY <1>12, <1>13
<1>15. OwnContexts(stages, i, indices) = SubSeq(g, 1, m)
  BY <1>1 DEF Map
<1> HIDE DEF g, m, D
<1>16. OwnContexts(stages, i, indices) \in Seq(D)
  BY <1>14, <1>15, MapIs
<1> QED BY <1>16 DEF D

LEMMA ActivateStageIs ==
  ASSUME NEW k, NEW K \in Knowing(k), NEW event, NEW acc \in Throughs(k, K, event), NEW i \in 1..k,
         NEW indices \in Seq(Nat)
  PROVE  ActivateStage(acc, i, indices) \in Throughs(k, K, event)
<1> DEFINE stages == acc.stages
           own == OwnContexts(stages, i, indices)
           st == stages[i]
<1>1. stages \in StagesOf(k, K)
  BY ThroughFields
<1>2. st \in AnyStage(K[i]) /\ K[i] \in SUBSET VirtualKeys /\ [K EXCEPT ![i] = K[i]] = K
  BY <1>1, StagesAre DEF Knowing
<1>3. own \in Seq(DOMAIN Contexts[st.stage])
  <2> HIDE DEF stages
  <2> QED BY <1>1, OwnContextsIs
<1> HIDE DEF own, stages
<1>4. st.stage \in DOMAIN Contexts /\ st \in StageOf(st.stage, Both(K[i]))
  BY <1>2, AnyStageIs
<1> HIDE DEF st
<1>5. SetActiveClientContexts(st, own) \in Updated(st.stage, Both(K[i]))
  BY <1>3, <1>4, SetActiveClientContextsIs
<1>6. SetActiveClientContexts(st, own) \in AnyUpdated(K[i])
  BY <1>4, <1>5 DEF Updated, AnyUpdated, AnyStage
<1>7. ActivateStage(acc, i, indices) = Did(acc, i, SetActiveClientContexts(st, own))
  BY DEF ActivateStage, st, own, stages
<1> QED BY <1>2, <1>6, <1>7, DidIs

LEMMA StagesSetActiveContextsStays ==
  ASSUME NEW stages, NEW indices, NEW elapsed, NEW U, NEW T, NEW n \in Nat, DOMAIN stages = 1..n, n = Len(stages),
         Through(stages, NoEvent, << >>, NoDevice, elapsed) \in U[0], Through(stages, NoEvent, << >>, NoDevice, elapsed) \in T[0],
         \A i \in 1..n : U[i - 1] \subseteq U[i],
         \A i \in 1..n : \A x \in U[i - 1] : ActivateStage(FeedOutput(x, i), i, indices) \in U[i],
         \A i \in 1..n : \A x \in T[i - 1] : ActivateStage(FeedOutput(x, i), i, indices) \in T[i]
  PROVE  StagesSetActiveContexts(stages, indices, elapsed) \in T[n]
<1> DEFINE seq == [i \in DOMAIN stages |-> i]
           base == Through(stages, NoEvent, << >>, NoDevice, elapsed)
           Op(x, i) == ActivateStage(FeedOutput(x, i), i, indices)
           Step(x, i) == ActivateStage(FeedOutput(x, i), i, indices)
           G == [i \in 1..n |-> [x \in U[i - 1] |-> Op(x, i)]]
           Is(f) == f = [s \in SUBSET (1..n) |->
                           IF s = {} THEN base ELSE Step(f[s \ {Max(s)}], seq[Max(s)])]
<1>1. Len(seq) = n /\ \A i \in 1..n : \A x : Step(x, seq[i]) = Op(x, i)
  <2>1. Len(seq) = n /\ \A i \in 1..n : seq[i] = i
    OBVIOUS
  <2> HIDE DEF seq
  <2> QED BY <2>1
<1>2. base \in U[0] /\ \A i \in 1..n : \A x \in U[i - 1] : Op(x, i) \in U[i]
  OBVIOUS
<1>2a. base \in T[0] /\ \A i \in 1..n : \A x \in T[i - 1] : Op(x, i) \in T[i]
  OBVIOUS
<1>3. StagesSetActiveContexts(stages, indices, elapsed) = (CHOOSE f : Is(f))[1..n]
  <2>1. StagesSetActiveContexts(stages, indices, elapsed) = (CHOOSE f : f = [s \in SUBSET (1..Len(seq)) |->
                           IF s = {} THEN base ELSE Step(f[s \ {Max(s)}], seq[Max(s)])])[1..Len(seq)]
    BY DEF StagesSetActiveContexts, FoldLeft, MapThenFoldSet
  <2> HIDE DEF seq, base, Step
  <2> QED BY <1>1, <2>1
<1> HIDE DEF seq, base, Op, Step
<1>4. \A i \in 1..n : \A x \in U[i - 1] : G[i][x] = Op(x, i) /\ G[i][x] \in U[i]
  BY <1>2
<1> HIDE DEF G
<1>5. \E f : Is(f)
  <2>1. PICK f : IsFold(f, n, base, U, G)
    BY <1>2, <1>4, FoldExists
  <2>2. ASSUME NEW s \in SUBSET (1..n), s # {}
        PROVE  G[Max(s)][f[s \ {Max(s)}]] = Step(f[s \ {Max(s)}], seq[Max(s)])
    <3>1. Max(s) \in 1..n
      BY <2>2, LastOfPositions
    <3>2. f[s \ {Max(s)}] \in U[Max(s) - 1]
      BY <2>1, <2>2 DEF IsFold
    <3> QED BY <1>1, <1>4, <3>1, <3>2
  <2>3. f = [s \in SUBSET (1..n) |->
                IF s = {} THEN base ELSE G[Max(s)][f[s \ {Max(s)}]]]
    BY <2>1 DEF IsFold
  <2>4. Is(f)
    BY <2>2, <2>3
  <2> QED BY <2>4
<1>6. ASSUME NEW f, Is(f) PROVE f[1..n] \in T[n]
  <2> DEFINE a == [k \in 0..n |-> f[1..k]]
  <2>1. 1..0 = {} /\ 0 \in 0..n /\ n \in 0..n /\ \A k \in 1..n : k \in 0..n /\ k - 1 \in 0..n
    OBVIOUS
  <2>2. \A k \in 0..n : a[k] = f[1..k]
    OBVIOUS
  <2> HIDE DEF a
  <2>3. a[0] = base
    <3>1. f[{}] = base
      BY <1>6
    <3> QED BY <2>1, <2>2, <3>1
  <2>4. ASSUME NEW k \in 1..n PROVE a[k] = Op(a[k - 1], k)
    <3>1. /\ 1..k \in SUBSET (1..n) /\ 1..k # {} /\ Max(1..k) = k
          /\ (1..k) \ {Max(1..k)} = 1..(k - 1)
      BY FoldStep
    <3>2. f[1..k] = Step(f[(1..k) \ {Max(1..k)}], seq[Max(1..k)])
      BY <1>6, <3>1
    <3> QED BY <1>1, <2>1, <2>2, <3>1, <3>2
  <2>5. ASSUME NEW k \in 1..n, a[k - 1] \in T[k - 1] PROVE a[k] \in T[k]
    BY <1>2a, <2>4, <2>5
  <2>6. \A k \in 0..n : a[k] \in T[k]
    BY <1>2a, <2>3, <2>5, ChainStays
  <2> QED BY <2>1, <2>2, <2>6
<1> HIDE DEF Is
<1> QED BY <1>3, <1>5, <1>6

LEMMA NoEventFeedsNothing ==
  NoEvent.key \notin VirtualKeys /\ Plain(NoEvent)
<1>1. "none" \notin VirtualKeys /\ NoEvent.key = "none"
  BY KeyKindsAreDisjoint DEF NoEvent, Release, Event
<1> QED BY <1>1 DEF Plain

LEMMA StagesSetActiveContextsIs ==
  ASSUME NEW k, NEW K \in Knowing(k), NEW stages \in StagesOf(k, K), NEW indices \in Seq(Nat),
         NEW elapsed \in 0..MaxTimeout
  PROVE  StagesSetActiveContexts(stages, indices, elapsed) \in Throughs(k, K, NoEvent)
<1> DEFINE base == Through(stages, NoEvent, << >>, NoDevice, elapsed)
           U == [i \in 0..k |-> IF i = 0 THEN {base} ELSE AnyThroughs(k, NoEvent)]
           T == [i \in 0..k |-> IF i = 0 THEN {base} ELSE Throughs(k, K, NoEvent)]
<1>1. k \in Nat /\ Len(stages) = k /\ DOMAIN stages = 1..k
  BY StagesAre
<1>2. base \in Throughs(k, K, NoEvent) /\ Starts(base.output, NoEvent)
  <2>1. << >> \in Seq(OutEvents) /\ NoDevice \in Int
    BY DEF NoDevice
  <2>2. base.output = << >>
    BY DEF Through
  <2>3. base \in Throughs(k, K, NoEvent)
    <3> DEFINE none == NoEvent
    <3> HIDE DEF none
    <3>1. Through(stages, none, << >>, NoDevice, elapsed) \in Throughs(k, K, none)
      BY <2>1 DEF Through, Throughs
    <3> QED BY <3>1 DEF none
  <2> HIDE DEF base
  <2> QED BY <2>2, <2>3, NoEventFeedsNothing DEF Starts
<1> HIDE DEF base
<1>3. base \in AnyThroughs(k, NoEvent)
  BY <1>2 DEF AnyThroughs
<1>4. /\ \A i \in 1..k : i - 1 \in 0..k /\ i \in 0..k /\ i # 0 /\ (i # 1 => i - 1 \in 1..k)
      /\ 0 \in 0..k /\ k \in 0..k
  BY <1>1
<1>5. /\ U[0] = {base} /\ \A i \in 1..k : U[i] = AnyThroughs(k, NoEvent)
      /\ T[0] = {base} /\ \A i \in 1..k : T[i] = Throughs(k, K, NoEvent)
  BY <1>4
<1> HIDE DEF U, T
<1>6. \A i \in 1..k : U[i - 1] \subseteq U[i]
  BY <1>3, <1>4, <1>5
<1>7. ASSUME NEW M \in Knowing(k), NEW i \in 1..k, NEW x \in Throughs(k, M, NoEvent),
             i = 1 => Starts(x.output, NoEvent)
      PROVE  ActivateStage(FeedOutput(x, i), i, indices) \in Throughs(k, M, NoEvent)
  <2>1. FeedOutput(x, i) \in Throughs(k, M, NoEvent)
    <3>1. FeedOutput(x, i) \in Throughs(k, Learns(M, i, NoEvent), NoEvent)
      <4>1. NoEvent \in SeqEvents \cup {NoEvent} /\ Plain(NoEvent)
        BY NoEventFeedsNothing
      <4> QED BY <1>1, <1>7, <4>1, FeedOutputIs
    <3>2. Learns(M, i, NoEvent) = M
      BY LearnsIs, NoEventFeedsNothing
    <3> QED BY <3>1, <3>2
  <2> QED BY <2>1, ActivateStageIs
<1>8. ASSUME NEW i \in 1..k, NEW x \in U[i - 1]
      PROVE  ActivateStage(FeedOutput(x, i), i, indices) \in U[i]
  <2>1. x \in AnyThroughs(k, NoEvent) /\ (i = 1 => Starts(x.output, NoEvent))
    BY <1>2, <1>3, <1>4, <1>5
  <2>2. PICK M \in Knowing(k) : x \in Throughs(k, M, NoEvent)
    BY <2>1 DEF AnyThroughs
  <2>3. ActivateStage(FeedOutput(x, i), i, indices) \in Throughs(k, M, NoEvent)
    BY <1>7, <2>1, <2>2
  <2> QED BY <1>5, <2>3 DEF AnyThroughs
<1>9. ASSUME NEW i \in 1..k, NEW x \in T[i - 1]
      PROVE  ActivateStage(FeedOutput(x, i), i, indices) \in T[i]
  <2>1. x \in Throughs(k, K, NoEvent) /\ (i = 1 => Starts(x.output, NoEvent))
    BY <1>2, <1>4, <1>5
  <2>2. ActivateStage(FeedOutput(x, i), i, indices) \in Throughs(k, K, NoEvent)
    BY <1>7, <2>1
  <2> QED BY <1>5, <2>2
<1>10. base \in U[0] /\ base \in T[0]
  BY <1>5
<1>11. StagesSetActiveContexts(stages, indices, elapsed) \in T[k]
  BY <1>1, <1>6, <1>8, <1>9, <1>10, StagesSetActiveContextsStays DEF base
<1>12. T[k] \subseteq Throughs(k, K, NoEvent)
  <2>1. CASE k = 0
    BY <1>2, <1>5, <2>1
  <2>2. CASE k # 0
    <3>1. k \in 1..k
      BY <1>1, <2>2
    <3> QED BY <1>5, <3>1
  <2> QED BY <2>1, <2>2
<1> QED BY <1>11, <1>12

\* All stages know the same.
Alike(k, W) == [i \in 1..k |-> W]

LEMMA AlikeIs ==
  ASSUME NEW k \in Nat, NEW W \in SUBSET VirtualKeys, NEW event
  PROVE  /\ Alike(k, W) \in Knowing(k) /\ \A i \in 1..k : Alike(k, W)[i] = W
         /\ Taught(Alike(k, W), event) = Alike(k, After(W, event))
<1>1. DOMAIN Alike(k, W) = 1..k /\ \A i \in 1..k : Alike(k, W)[i] = W
  BY DEF Alike
<1>2. Taught(Alike(k, W), event) = [i \in 1..k |-> After(W, event)]
  BY <1>1 DEF Taught
<1> QED BY <1>1, <1>2 DEF Alike, Knowing

LEMMA AlikeStages ==
  ASSUME NEW W \in SUBSET VirtualKeys, NEW stages \in Seq(AnyStage(W))
  PROVE  /\ Len(stages) \in Nat /\ stages \in StagesOf(Len(stages), Alike(Len(stages), W))
         /\ stages \in Seq(AnyKnown)
<1> DEFINE X == AnyStage(W)
           n == Len(stages)
<1>1. stages \in Seq(X) /\ X \subseteq AnyKnown
  BY DEF AnyKnown
<1> HIDE DEF X
<1>2. stages \in Seq(AnyKnown)
  BY <1>1, SeqMonotone
<1>3. n \in Nat /\ \A i \in 1..n : stages[i] \in X
  BY <1>1
<1> HIDE DEF n
<1>4. \A i \in 1..n : Alike(n, W)[i] = W
  BY <1>3, AlikeIs
<1> QED BY <1>2, <1>3, <1>4 DEF StagesOf, X, n

LEMMA StagesAlike ==
  ASSUME NEW k, NEW W \in SUBSET VirtualKeys, NEW stages \in StagesOf(k, Alike(k, W))
  PROVE  stages \in Seq(AnyStage(W))
<1>1. k \in Nat /\ stages \in Seq(AnyKnown) /\ Len(stages) = k /\ \A i \in 1..k : stages[i] \in AnyStage(Alike(k, W)[i])
  BY StagesAre
<1>2. \A i \in 1..k : stages[i] \in AnyStage(W)
  BY <1>1, AlikeIs
<1> DEFINE X == AnyStage(W)
           Y == AnyKnown
<1>3. stages \in Seq(Y) /\ Len(stages) = k /\ \A i \in 1..k : stages[i] \in X
  BY <1>1, <1>2
<1> HIDE DEF X, Y
<1>4. stages \in Seq(X)
  BY <1>3
<1> QED BY <1>4 DEF X

\* Stages that know the same still do when each of them learns of an event, and when none does.
LEMMA StagesLearn ==
  ASSUME NEW W \in SUBSET VirtualKeys, NEW stages \in Seq(AnyStage(W)), NEW event \in SeqEvents, Plain(event),
         NEW device \in Int, NEW elapsed \in 0..MaxTimeout
  PROVE  /\ UpdateStages(stages, event, device, elapsed).stages \in Seq(AnyStage(After(W, event)))
         /\ Len(UpdateStages(stages, event, device, elapsed).stages) = Len(stages)
         /\ UpdateStages(stages, event, device, elapsed).output \in Seq(OutEvents)
<1> DEFINE k == Len(stages)
           K == Alike(k, W)
           K2 == Alike(k, After(W, event))
           updated == UpdateStages(stages, event, device, elapsed)
<1>1. k \in Nat /\ stages \in StagesOf(k, K)
  BY AlikeStages
<1> HIDE DEF k
<1>2. K \in Knowing(k) /\ Taught(K, event) = K2
  BY <1>1, AlikeIs
<1> HIDE DEF K
<1>3. updated \in Throughs(k, K2, event)
  BY <1>1, <1>2, UpdateStagesIs
<1> HIDE DEF updated
<1>4. updated.stages \in StagesOf(k, K2) /\ updated.output \in Seq(OutEvents)
  BY <1>3, ThroughFields
<1>5. After(W, event) \in SUBSET VirtualKeys
  BY AfterIs
<1>6. updated.stages \in Seq(AnyStage(After(W, event)))
  BY <1>4, <1>5, StagesAlike
<1>7. Len(updated.stages) = k
  BY <1>4, StagesAre
<1> QED BY <1>4, <1>6, <1>7 DEF updated, k

LEMMA StagesActivated ==
  ASSUME NEW W \in SUBSET VirtualKeys, NEW stages \in Seq(AnyStage(W)), NEW indices \in Seq(Nat),
         NEW elapsed \in 0..MaxTimeout
  PROVE  /\ StagesSetActiveContexts(stages, indices, elapsed).stages \in Seq(AnyStage(W))
         /\ Len(StagesSetActiveContexts(stages, indices, elapsed).stages) = Len(stages)
         /\ StagesSetActiveContexts(stages, indices, elapsed).output \in Seq(OutEvents)
<1> DEFINE k == Len(stages)
           K == Alike(k, W)
           updated == StagesSetActiveContexts(stages, indices, elapsed)
<1>1. k \in Nat /\ stages \in StagesOf(k, K)
  BY AlikeStages
<1> HIDE DEF k
<1>2. K \in Knowing(k)
  BY <1>1, AlikeIs
<1>3. updated \in Throughs(k, K, NoEvent)
  <2> HIDE DEF K
  <2> QED BY <1>1, <1>2, StagesSetActiveContextsIs
<1> HIDE DEF updated
<1>4. updated.stages \in StagesOf(k, K) /\ updated.output \in Seq(OutEvents)
  BY <1>3, ThroughFields
<1>5. updated.stages \in Seq(AnyStage(W))
  BY <1>4, StagesAlike
<1>6. Len(updated.stages) = k
  BY <1>4, StagesAre
<1> QED BY <1>4, <1>5, <1>6 DEF updated, k

LEMMA StagesEvaluateDeviceFiltersIs ==
  ASSUME NEW W \in SUBSET VirtualKeys, NEW stages \in Seq(AnyStage(W)), NEW devices \in {<< >>, DeviceNames}
  PROVE  StagesEvaluateDeviceFilters(stages, devices) \in Seq(AnyStage(W))
<1> DEFINE X == AnyStage(W)
<1>1. ASSUME NEW st \in X PROVE EvaluateDeviceFilters(st, devices) \in X
  BY AnyStageIs, SetDevices, StageIsAny DEF EvaluateDeviceFilters
<1>2. stages \in Seq(X)
  OBVIOUS
<1> HIDE DEF X
<1>3. Len(stages) \in Nat /\ DOMAIN stages = 1..Len(stages) /\ \A i \in DOMAIN stages : stages[i] \in X
  BY <1>2
<1>4. [i \in DOMAIN stages |-> EvaluateDeviceFilters(stages[i], devices)] \in [1..Len(stages) -> X]
  BY <1>1, <1>3
<1>5. StagesEvaluateDeviceFilters(stages, devices) \in Seq(X)
  BY <1>3, <1>4, MapIs DEF StagesEvaluateDeviceFilters, Map
<1> QED BY <1>5 DEF X

LEMMA TogglesDisabled ==
  ASSUME NEW W \in SUBSET VirtualKeys, NEW stages \in Seq(AnyStage(W))
  PROVE  Map(stages, LAMBDA st : [st EXCEPT !.toggle = FALSE]) \in Seq(AnyStage(W))
<1> DEFINE X == AnyStage(W)
<1>1. ASSUME NEW st \in X PROVE [st EXCEPT !.toggle = FALSE] \in X
  <2>1. FALSE \in BOOLEAN
    OBVIOUS
  <2> QED BY <2>1, AnyStageIs, SetToggle, StageIsAny
<1>2. stages \in Seq(X)
  OBVIOUS
<1> HIDE DEF X
<1>3. Len(stages) \in Nat /\ DOMAIN stages = 1..Len(stages) /\ \A i \in DOMAIN stages : stages[i] \in X
  BY <1>2
<1>4. [i \in DOMAIN stages |-> [stages[i] EXCEPT !.toggle = FALSE]] \in [1..Len(stages) -> X]
  BY <1>1, <1>3
<1>5. Map(stages, LAMBDA st : [st EXCEPT !.toggle = FALSE]) \in Seq(X)
  BY <1>3, <1>4, MapIs DEF Map
<1> QED BY <1>5 DEF X

LEMMA FirstReplaced ==
  ASSUME NEW X, NEW s \in Seq(X), NEW x \in X
  PROVE  [s EXCEPT ![1] = x] \in Seq(X)
<1>1. Len(s) \in Nat /\ DOMAIN s = 1..Len(s) /\ \A i \in 1..Len(s) : s[i] \in X
  OBVIOUS
<1>2. [s EXCEPT ![1] = x] \in [1..Len(s) -> X]
  BY <1>1
<1> QED BY <1>1, <1>2

LEMMA StagesValidateStateIs ==
  ASSUME NEW W \in SUBSET VirtualKeys, NEW stages \in Seq(AnyStage(W)), NEW down, NEW elapsed \in 0..MaxTimeout
  PROVE  StagesValidateState(stages, down, elapsed) \in Seq(AnyStage(W))
<1> DEFINE X == AnyStage(W)
<1>1. CASE stages = << >>
  BY <1>1 DEF StagesValidateState
<1>2. CASE stages # << >>
  <2>1. stages[1] \in X
    BY <1>2
  <2>2. ValidateState(stages[1], down, elapsed) \in X
    BY <2>1, AnyStageIs, ValidateStateIs, StageIsAny
  <2>3. stages \in Seq(X)
    OBVIOUS
  <2>4. StagesValidateState(stages, down, elapsed) = [stages EXCEPT ![1] = ValidateState(stages[1], down, elapsed)]
    BY <1>2 DEF StagesValidateState
  <2> DEFINE st == ValidateState(stages[1], down, elapsed)
  <2>5. st \in X
    BY <2>2
  <2> HIDE DEF X, st
  <2>6. [stages EXCEPT ![1] = st] \in Seq(X)
    BY <1>2, <2>3, <2>5, FirstReplaced
  <2> QED BY <2>4, <2>6 DEF X, st
<1> QED BY <1>1, <1>2

LEMMA StagesOutputKeysDownIs ==
  ASSUME NEW stages \in Seq(AnyKnown)
  PROVE  StagesOutputKeysDown(stages) \in Seq(DeviceKeys)
<1>1. CASE stages = << >>
  BY <1>1 DEF StagesOutputKeysDown
<1>2. CASE stages # << >>
  <2> DEFINE st == stages[Len(stages)]
             keys == Map(st.out, LAMBDA o : o.key)
             positions == {i \in DOMAIN keys : keys[i] \in DeviceKeys}
  <2>1. st \in AnyKnown
    BY <1>2
  <2>2. st.out \in Seq(Outputs)
    BY <2>1, AnyKnownIs, AnyStageIs
  <2>3. keys \in Seq(OutputKeys)
    <3> DEFINE out == st.out
    <3>0. out \in Seq(Outputs) /\ keys = Map(out, LAMBDA o : o.key)
      BY <2>2
    <3> HIDE DEF out, keys
    <3>1. Len(out) \in Nat /\ DOMAIN out = 1..Len(out) /\ \A i \in DOMAIN out : out[i] \in Outputs
      BY <3>0
    <3>2. \A i \in DOMAIN out : out[i].key \in OutputKeys
      BY <3>1 DEF Outputs
    <3>3. [i \in DOMAIN out |-> out[i].key] \in [1..Len(out) -> OutputKeys]
      BY <3>1, <3>2
    <3> QED BY <3>0, <3>1, <3>3, MapIs DEF Map
  <2>4. StagesOutputKeysDown(stages) = ElementsAt(keys, positions)
    BY <1>2 DEF StagesOutputKeysDown, OutputKeysDown, Select
  <2>5. \A i \in DOMAIN keys : i \in positions => keys[i] \in DeviceKeys
    OBVIOUS
  <2> HIDE DEF keys, positions
  <2> QED BY <2>3, <2>4, <2>5, ElementsAtIs
<1> QED BY <1>1, <1>2

LEMMA NewStageIs ==
  ASSUME NEW n \in DOMAIN Contexts
  PROVE  NewStage(n) \in AnyStage({})
<1> DEFINE V == Both({})
<1>1. /\ << >> \in Seq(SeqEvents) /\ << >> \in Seq(Outputs)
      /\ << >> \in Seq(DOMAIN Contexts[n]) /\ << >> \in Seq(OutEvents) /\ << >> \in Seq(KeyboardKeys)
      /\ NoDevice \in Int /\ 0 \in 0..3 /\ << >> \in {<< >>, DeviceNames}
  BY DEF NoDevice
<1>2. NoTimeout \in Timeouts(n)
  BY NoTimeoutIs
<1>3. V.down = {} /\ << >> \in Seq(ContinuationsOf(V.held))
  <2> DEFINE X == ContinuationsOf(V.held)
  <2> HIDE DEF X
  <2>1. << >> \in Seq(X)
    OBVIOUS
  <2> QED BY <2>1 DEF X, Both
<1> HIDE DEF V
<1>4. NewStage(n) \in StageOf(n, V)
  BY <1>1, <1>2, <1>3, NothingKnown DEF NewStage, StageOf
<1>5. {} \in SUBSET VirtualKeys
  OBVIOUS
<1> QED BY <1>4, <1>5, StageIsAny DEF V

LEMMA NewStagesAre ==
  ASSUME NEW configuration \in Configurations
  PROVE  NewStages(configuration) \in Seq(AnyStage({}))
<1>1. configuration \in Seq(DOMAIN Contexts)
  BY ClientSendsWhatFits
<1>2. /\ Len(configuration) \in Nat /\ DOMAIN configuration = 1..Len(configuration)
      /\ \A i \in DOMAIN configuration : configuration[i] \in DOMAIN Contexts
  BY <1>1
<1>3. [i \in DOMAIN configuration |-> NewStage(configuration[i])] \in [1..Len(configuration) -> AnyStage({})]
  BY <1>2, NewStageIs
<1> QED BY <1>2, <1>3, MapIs DEF NewStages, Map

-----------------------------------------------------------------------------
(***************************************************************************)
(* The server. What the client was told since position m of the messages   *)
(* leads from the virtual keys d to the virtual keys that are down - or    *)
(* the exit reset them, then it leads from none to them.                   *)
(***************************************************************************)
Sendable == EventsOf(DeviceKeys)
KeyMessages == [type : {"virtual_key_state"}, key : VirtualKeys, state : {"Up", "Down"}]
OtherMessages == [type : {"triggered_action"}, key : ActionKeys]
                 \cup [type : {"next_key_info"}, keys : Seq(DeviceKeys)]
Messages == KeyMessages \cup OtherMessages

MirrorStep(down, message) ==
  IF message.type # "virtual_key_state" THEN down
  ELSE IF message.state = "Up" THEN down \ {message.key} ELSE down \cup {message.key}

Mirrors(m, d, messages, down) ==
  /\ m \in 0..Len(messages)
  /\ \E a : /\ a[m] = d /\ a[Len(messages)] = down
            /\ \A i \in (m + 1)..Len(messages) : a[i] = MirrorStep(a[i - 1], messages[i])

IsTold(m, d, messages, down, exit) ==
  \/ Mirrors(m, d, messages, down)
  \/ exit /\ \E n \in 0..Len(messages) : Mirrors(n, {}, messages, down)

LEMMA MirrorsNothing ==
  ASSUME NEW messages \in Seq(Messages), NEW down
  PROVE  Mirrors(Len(messages), down, messages, down)
<1> DEFINE n == Len(messages)
           a == [i \in {n} |-> down]
<1>1. n \in Nat /\ n \in 0..n /\ (n + 1)..n = {} /\ a[n] = down
  OBVIOUS
<1> HIDE DEF a
<1> QED BY <1>1 DEF Mirrors

LEMMA MirrorsMessage ==
  ASSUME NEW messages \in Seq(Messages), NEW message \in Messages, NEW m, NEW d, NEW down,
         Mirrors(m, d, messages, down)
  PROVE  Mirrors(m, d, Append(messages, message), MirrorStep(down, message))
<1> DEFINE n == Len(messages)
           more == Append(messages, message)
           next == MirrorStep(down, message)
<1>1. /\ n \in Nat /\ Len(more) = n + 1 /\ more[n + 1] = message
      /\ \A i \in 1..n : more[i] = messages[i]
  OBVIOUS
<1>2. m \in 0..n
  BY DEF Mirrors
<1>3. PICK a : /\ a[m] = d /\ a[n] = down
               /\ \A i \in (m + 1)..n : a[i] = MirrorStep(a[i - 1], messages[i])
  BY DEF Mirrors
<1> DEFINE b == [i \in 0..(n + 1) |-> IF i = n + 1 THEN next ELSE a[i]]
<1>4. b[n + 1] = next /\ \A i \in 0..n : b[i] = a[i]
  BY <1>1
<1> HIDE DEF more, next, b, n
<1>5. b[m] = d
  BY <1>2, <1>3, <1>4
<1>6. ASSUME NEW i \in (m + 1)..(n + 1) PROVE b[i] = MirrorStep(b[i - 1], more[i])
  <2>1. CASE i = n + 1
    <3>1. b[i - 1] = down /\ b[i] = next /\ more[i] = message
      BY <1>1, <1>3, <1>4, <2>1
    <3> QED BY <3>1 DEF next
  <2>2. CASE i # n + 1
    <3>1. i \in (m + 1)..n /\ i \in 0..n /\ i - 1 \in 0..n /\ i \in 1..n
      BY <1>1, <1>2, <2>2
    <3>2. b[i] = a[i] /\ b[i - 1] = a[i - 1] /\ more[i] = messages[i]
      BY <1>1, <1>4, <3>1
    <3> QED BY <1>3, <3>1, <3>2
  <2> QED BY <2>1, <2>2
<1>7. m \in 0..Len(more)
  BY <1>1, <1>2
<1>8. Mirrors(m, d, more, next)
  BY <1>1, <1>4, <1>5, <1>6, <1>7 DEF Mirrors
<1> QED BY <1>8 DEF more, next

LEMMA MirrorsOthers ==
  ASSUME NEW messages \in Seq(Messages), NEW others \in Seq(OtherMessages), NEW m, NEW d, NEW down,
         Mirrors(m, d, messages, down)
  PROVE  Mirrors(m, d, messages \o others, down)
<1> DEFINE n == Len(messages)
           k == Len(others)
           more == messages \o others
<1>1. /\ n \in Nat /\ k \in Nat /\ Len(more) = n + k
      /\ \A i \in 1..n : more[i] = messages[i]
      /\ \A i \in (n + 1)..(n + k) : more[i] = others[i - n] /\ i - n \in 1..k
      /\ \A i \in 1..k : others[i] \in OtherMessages
  OBVIOUS
<1>2. m \in 0..n
  BY DEF Mirrors
<1>3. PICK a : /\ a[m] = d /\ a[n] = down
               /\ \A i \in (m + 1)..n : a[i] = MirrorStep(a[i - 1], messages[i])
  BY DEF Mirrors
<1> DEFINE b == [i \in 0..(n + k) |-> IF i > n THEN down ELSE a[i]]
<1>4. (\A i \in (n + 1)..(n + k) : b[i] = down) /\ \A i \in 0..n : b[i] = a[i]
  BY <1>1
<1> HIDE DEF more, b, n, k
<1>5. b[m] = d /\ b[n] = down /\ b[n + k] = down
  <2>1. m \in 0..n /\ n \in 0..n /\ (k # 0 => n + k \in (n + 1)..(n + k)) /\ n + 0 = n
    BY <1>1, <1>2
  <2> QED BY <1>3, <1>4, <2>1
<1>6. ASSUME NEW i \in (m + 1)..(n + k) PROVE b[i] = MirrorStep(b[i - 1], more[i])
  <2>1. CASE i > n
    <3>1. i \in (n + 1)..(n + k) /\ (i = n + 1 \/ i - 1 \in (n + 1)..(n + k))
      BY <1>1, <1>2, <2>1
    <3>2. i = n + 1 => i - 1 = n
      BY <1>1
    <3>3. b[i] = down /\ b[i - 1] = down
      BY <1>4, <1>5, <3>1, <3>2
    <3>4. more[i] \in OtherMessages
      BY <1>1, <3>1
    <3>5. more[i].type # "virtual_key_state"
      BY <3>4 DEF OtherMessages
    <3> QED BY <3>3, <3>5 DEF MirrorStep
  <2>2. CASE ~(i > n)
    <3>1. i \in (m + 1)..n /\ i \in 0..n /\ i - 1 \in 0..n /\ i \in 1..n
      BY <1>1, <1>2, <2>2
    <3>2. b[i] = a[i] /\ b[i - 1] = a[i - 1] /\ more[i] = messages[i]
      BY <1>1, <1>4, <3>1
    <3> QED BY <1>3, <3>1, <3>2
  <2> QED BY <2>1, <2>2
<1>7. m \in 0..Len(more)
  BY <1>1, <1>2
<1>8. Mirrors(m, d, more, down)
  BY <1>1, <1>5, <1>6, <1>7 DEF Mirrors
<1> QED BY <1>8 DEF more

LEMMA ToldMessage ==
  ASSUME NEW messages \in Seq(Messages), NEW message \in Messages, NEW m, NEW d, NEW down,
         NEW exit \in BOOLEAN, IsTold(m, d, messages, down, exit)
  PROVE  IsTold(m, d, Append(messages, message), MirrorStep(down, message), exit)
<1>1. CASE Mirrors(m, d, messages, down)
  BY <1>1, MirrorsMessage DEF IsTold
<1>2. CASE exit /\ \E n \in 0..Len(messages) : Mirrors(n, {}, messages, down)
  <2>1. PICK n \in 0..Len(messages) : Mirrors(n, {}, messages, down)
    BY <1>2
  <2>2. Mirrors(n, {}, Append(messages, message), MirrorStep(down, message))
    BY <2>1, MirrorsMessage
  <2>3. n \in 0..Len(Append(messages, message))
    OBVIOUS
  <2> QED BY <1>2, <2>2, <2>3 DEF IsTold
<1> QED BY <1>1, <1>2 DEF IsTold

LEMMA ToldOthers ==
  ASSUME NEW messages \in Seq(Messages), NEW others \in Seq(OtherMessages), NEW m, NEW d, NEW down,
         NEW exit \in BOOLEAN, IsTold(m, d, messages, down, exit)
  PROVE  IsTold(m, d, messages \o others, down, exit)
<1>1. CASE Mirrors(m, d, messages, down)
  BY <1>1, MirrorsOthers DEF IsTold
<1>2. CASE exit /\ \E n \in 0..Len(messages) : Mirrors(n, {}, messages, down)
  <2>1. PICK n \in 0..Len(messages) : Mirrors(n, {}, messages, down)
    BY <1>2
  <2>2. Mirrors(n, {}, messages \o others, down)
    BY <2>1, MirrorsOthers
  <2>3. others \in Seq(Messages)
    BY SeqMonotone DEF Messages
  <2>4. n \in 0..Len(messages \o others)
    BY <2>3
  <2> QED BY <1>2, <2>2, <2>4 DEF IsTold
<1> QED BY <1>1, <1>2 DEF IsTold

LEMMA ToldReset ==
  ASSUME NEW messages \in Seq(Messages), NEW m, NEW d, NEW exit \in BOOLEAN
  PROVE  /\ IsTold(Len(messages), {}, messages, {}, exit)
         /\ IsTold(m, d, messages, {}, TRUE)
<1>1. Mirrors(Len(messages), {}, messages, {})
  BY MirrorsNothing
<1>2. Len(messages) \in 0..Len(messages)
  OBVIOUS
<1> QED BY <1>1, <1>2 DEF IsTold

-----------------------------------------------------------------------------
(***************************************************************************)
(* What the stages know, while the virtual keys down are: a pair of K is   *)
(* both. Between two changes it is the same.                               *)
(***************************************************************************)
Same == {<<down, down>> : down \in SUBSET VirtualKeys}
Learned(stages, down, K) ==
  stages = << >> \/ \E W \in SUBSET VirtualKeys : <<down, W>> \in K /\ stages \in Seq(AnyStage(W))
Teaches(event, K, K2) == \A down, W : <<down, W>> \in K => <<down, After(W, event)>> \in K2

LEMMA TeachesNothing ==
  ASSUME NEW event, event.key \notin VirtualKeys, NEW K
  PROVE  Teaches(event, K, K)
BY DEF Teaches, After

LEMMA TeachesChange ==
  ASSUME NEW old \in SUBSET VirtualKeys, NEW event
  PROVE  Teaches(event, {<<After(old, event), old>>}, Same)
<1> DEFINE new == After(old, event)
<1>1. new \in SUBSET VirtualKeys
  BY AfterIs
<1>2. ASSUME NEW down, NEW W, <<down, W>> \in {<<new, old>>} PROVE <<down, After(W, event)>> \in Same
  <2>1. down = new /\ W = old
    BY <1>2
  <2>2. <<new, new>> \in Same
    BY <1>1 DEF Same
  <2> QED BY <2>1, <2>2
<1> QED BY <1>2 DEF Teaches

LEMMA SameIs ==
  ASSUME NEW stages, NEW down \in SUBSET VirtualKeys
  PROVE  Learned(stages, down, Same) <=> stages = << >> \/ stages \in Seq(AnyStage(down))
<1>1. ASSUME NEW W, <<down, W>> \in Same PROVE W = down
  BY <1>1 DEF Same
<1>2. <<down, down>> \in Same
  BY DEF Same
<1> QED BY <1>1, <1>2 DEF Learned

LEMMA LearnedAre ==
  ASSUME NEW stages, NEW down, NEW K, Learned(stages, down, K)
  PROVE  \E W \in SUBSET VirtualKeys :
           stages \in Seq(AnyStage(W)) /\ (stages = << >> \/ <<down, W>> \in K)
<1>1. CASE stages = << >>
  <2>1. {} \in SUBSET VirtualKeys /\ << >> \in Seq(AnyStage({}))
    OBVIOUS
  <2> QED BY <1>1, <2>1
<1>2. CASE stages # << >>
  BY <1>2 DEF Learned
<1> QED BY <1>1, <1>2

LEMMA NoStagesLearn ==
  ASSUME NEW stages, NEW W, stages \in Seq(AnyStage(W)), Len(stages) = 0
  PROVE  stages = << >>
<1> DEFINE X == AnyStage(W)
<1>1. stages \in Seq(X)
  OBVIOUS
<1> HIDE DEF X
<1> QED BY <1>1

\* An event teaches the stages.
LEMMA UpdatedLearn ==
  ASSUME NEW stages, NEW down, NEW K, Learned(stages, down, K), NEW K2,
         NEW event \in SeqEvents, Plain(event), Teaches(event, K, K2),
         NEW device \in Int, NEW elapsed \in 0..MaxTimeout
  PROVE  /\ UpdateStages(stages, event, device, elapsed).stages \in Seq(AnyKnown)
         /\ Learned(UpdateStages(stages, event, device, elapsed).stages, down, K2)
         /\ UpdateStages(stages, event, device, elapsed).output \in Seq(OutEvents)
<1> DEFINE updated == UpdateStages(stages, event, device, elapsed)
<1>1. PICK W \in SUBSET VirtualKeys : stages \in Seq(AnyStage(W)) /\ (stages = << >> \/ <<down, W>> \in K)
  BY LearnedAre
<1> DEFINE V == After(W, event)
<1>2. V \in SUBSET VirtualKeys
  BY AfterIs
<1>3. /\ updated.stages \in Seq(AnyStage(V)) /\ Len(updated.stages) = Len(stages)
      /\ updated.output \in Seq(OutEvents)
  BY <1>1, StagesLearn
<1>4. stages = << >> => updated.stages = << >>
  <2> HIDE DEF updated, V
  <2> QED BY <1>3, NoStagesLearn
<1>5. stages # << >> => <<down, V>> \in K2
  BY <1>1 DEF Teaches
<1> HIDE DEF updated, V
<1>6. updated.stages \in Seq(AnyKnown) /\ Learned(updated.stages, down, K2)
  BY <1>2, <1>3, <1>4, <1>5, AlikeStages DEF Learned
<1> QED BY <1>3, <1>6 DEF updated

LEMMA ActivatedLearn ==
  ASSUME NEW stages, NEW down, NEW K, Learned(stages, down, K), NEW indices \in Seq(Nat),
         NEW elapsed \in 0..MaxTimeout
  PROVE  /\ StagesSetActiveContexts(stages, indices, elapsed).stages \in Seq(AnyKnown)
         /\ Learned(StagesSetActiveContexts(stages, indices, elapsed).stages, down, K)
         /\ StagesSetActiveContexts(stages, indices, elapsed).output \in Seq(OutEvents)
<1> DEFINE updated == StagesSetActiveContexts(stages, indices, elapsed)
<1>1. PICK W \in SUBSET VirtualKeys : stages \in Seq(AnyStage(W)) /\ (stages = << >> \/ <<down, W>> \in K)
  BY LearnedAre
<1>2. /\ updated.stages \in Seq(AnyStage(W)) /\ Len(updated.stages) = Len(stages)
      /\ updated.output \in Seq(OutEvents)
  BY <1>1, StagesActivated
<1> HIDE DEF updated
<1>3. stages = << >> => updated.stages = << >>
  BY <1>2, NoStagesLearn
<1>4. updated.stages \in Seq(AnyKnown) /\ Learned(updated.stages, down, K)
  BY <1>1, <1>2, <1>3, AlikeStages DEF Learned
<1> QED BY <1>2, <1>4 DEF updated

-----------------------------------------------------------------------------
(***************************************************************************)
(* The values of the server. Only a flush that is scheduled is delayed,    *)
(* and where output is inserted is at (Nowhere, or within the buffer).     *)
(* The stages learned of the virtual keys what K says.                     *)
(***************************************************************************)
ServerValues ==
  [ stages : Seq(AnyKnown), clientContexts : Seq(Nat), buffer : Seq(OutEvents), insertAt : Int,
    flush : BOOLEAN, delayed : BOOLEAN, timeout : EventsOf(AllKeys), virtualDown : SUBSET VirtualKeys,
    lastKey : EventsOf(AllKeys), devices : {<< >>, DeviceNames}, nextKeyRequested : BOOLEAN,
    nextKeys : Seq(DeviceKeys), virtualDevice : BOOLEAN, elapsed : 0..MaxTimeout,
    sent : Seq(Sendable), told : Seq(Messages), exit : BOOLEAN ]

Fits(at, buffer) == at = Nowhere \/ at \in 0..Len(buffer)

Servers(at, m, d, K) ==
  {sv \in ServerValues : /\ sv.insertAt = at /\ Fits(at, sv.buffer)
                         /\ sv.delayed => sv.flush
                         /\ IsTold(m, d, sv.told, sv.virtualDown, sv.exit)
                         /\ Learned(sv.stages, sv.virtualDown, K)}

LEMMA ServerFields ==
  ASSUME NEW at, NEW m, NEW d, NEW K, NEW sv \in Servers(at, m, d, K)
  PROVE  /\ sv \in ServerValues
         /\ sv.stages \in Seq(AnyKnown) /\ Learned(sv.stages, sv.virtualDown, K) /\ sv.clientContexts \in Seq(Nat) /\ sv.buffer \in Seq(OutEvents)
         /\ sv.insertAt = at /\ Fits(at, sv.buffer) /\ sv.flush \in BOOLEAN /\ sv.delayed \in BOOLEAN
         /\ sv.delayed => sv.flush
         /\ sv.timeout \in EventsOf(AllKeys) /\ sv.virtualDown \in SUBSET VirtualKeys
         /\ sv.devices \in {<< >>, DeviceNames} /\ sv.nextKeys \in Seq(DeviceKeys)
         /\ sv.virtualDevice \in BOOLEAN /\ sv.elapsed \in 0..MaxTimeout
         /\ sv.sent \in Seq(Sendable) /\ sv.told \in Seq(Messages) /\ sv.exit \in BOOLEAN
         /\ IsTold(m, d, sv.told, sv.virtualDown, sv.exit)
BY DEF Servers, ServerValues

(* A server stays one when one of its fields changes. *)

LEMMA SetStages ==
  ASSUME NEW at, NEW m, NEW d, NEW K, NEW sv \in Servers(at, m, d, K), NEW x \in Seq(AnyKnown),
         NEW K2, Learned(x, sv.virtualDown, K2)
  PROVE  [sv EXCEPT !.stages = x] \in Servers(at, m, d, K2)
BY DEF Servers, ServerValues

LEMMA SetClientContexts ==
  ASSUME NEW at, NEW m, NEW d, NEW K, NEW sv \in Servers(at, m, d, K), NEW x \in Seq(Nat)
  PROVE  [sv EXCEPT !.clientContexts = x] \in Servers(at, m, d, K)
BY DEF Servers, ServerValues

LEMMA SetBuffer ==
  ASSUME NEW at, NEW m, NEW d, NEW K, NEW sv \in Servers(at, m, d, K), NEW x \in Seq(OutEvents), Fits(at, x)
  PROVE  [sv EXCEPT !.buffer = x] \in Servers(at, m, d, K)
BY DEF Servers, ServerValues

LEMMA SetInsertAt ==
  ASSUME NEW at, NEW m, NEW d, NEW K, NEW sv \in Servers(at, m, d, K), NEW x \in Int, Fits(x, sv.buffer)
  PROVE  [sv EXCEPT !.insertAt = x] \in Servers(x, m, d, K)
BY DEF Servers, ServerValues

LEMMA SetFlush ==
  ASSUME NEW at, NEW m, NEW d, NEW K, NEW sv \in Servers(at, m, d, K), NEW x \in BOOLEAN, NEW y \in BOOLEAN, y => x
  PROVE  [sv EXCEPT !.flush = x, !.delayed = y] \in Servers(at, m, d, K)
BY DEF Servers, ServerValues

LEMMA SetServerTimeout ==
  ASSUME NEW at, NEW m, NEW d, NEW K, NEW sv \in Servers(at, m, d, K), NEW x \in EventsOf(AllKeys)
  PROVE  [sv EXCEPT !.timeout = x] \in Servers(at, m, d, K)
BY DEF Servers, ServerValues

LEMMA SetServerElapsed ==
  ASSUME NEW at, NEW m, NEW d, NEW K, NEW sv \in Servers(at, m, d, K), NEW x \in 0..MaxTimeout
  PROVE  [sv EXCEPT !.elapsed = x] \in Servers(at, m, d, K)
<1> DEFINE s == [sv EXCEPT !.elapsed = x]
<1>1. s \in ServerValues
  BY Zenon DEF Servers, ServerValues
<1>2. /\ s.insertAt = sv.insertAt /\ s.buffer = sv.buffer /\ s.delayed = sv.delayed /\ s.flush = sv.flush
      /\ s.told = sv.told /\ s.virtualDown = sv.virtualDown /\ s.exit = sv.exit /\ s.stages = sv.stages
  BY DEF Servers, ServerValues
<1> HIDE DEF s
<1>3. s \in Servers(at, m, d, K)
  BY <1>1, <1>2 DEF Servers
<1> QED BY <1>3 DEF s

LEMMA SetLastKey ==
  ASSUME NEW at, NEW m, NEW d, NEW K, NEW sv \in Servers(at, m, d, K), NEW x \in EventsOf(AllKeys)
  PROVE  [sv EXCEPT !.lastKey = x] \in Servers(at, m, d, K)
BY DEF Servers, ServerValues

LEMMA SetServerDevices ==
  ASSUME NEW at, NEW m, NEW d, NEW K, NEW sv \in Servers(at, m, d, K), NEW x \in {<< >>, DeviceNames}
  PROVE  [sv EXCEPT !.devices = x] \in Servers(at, m, d, K)
BY DEF Servers, ServerValues

LEMMA SetVirtualDevice ==
  ASSUME NEW at, NEW m, NEW d, NEW K, NEW sv \in Servers(at, m, d, K), NEW x \in BOOLEAN
  PROVE  [sv EXCEPT !.virtualDevice = x] \in Servers(at, m, d, K)
BY DEF Servers, ServerValues

LEMMA SetNextKeyRequested ==
  ASSUME NEW at, NEW m, NEW d, NEW K, NEW sv \in Servers(at, m, d, K), NEW x \in BOOLEAN
  PROVE  [sv EXCEPT !.nextKeyRequested = x] \in Servers(at, m, d, K)
BY DEF Servers, ServerValues

LEMMA SetNextKeys ==
  ASSUME NEW at, NEW m, NEW d, NEW K, NEW sv \in Servers(at, m, d, K), NEW x \in Seq(DeviceKeys)
  PROVE  [sv EXCEPT !.nextKeys = x] \in Servers(at, m, d, K)
BY DEF Servers, ServerValues

LEMMA SetSent ==
  ASSUME NEW at, NEW m, NEW d, NEW K, NEW sv \in Servers(at, m, d, K), NEW x \in Seq(Sendable)
  PROVE  [sv EXCEPT !.sent = x] \in Servers(at, m, d, K)
BY DEF Servers, ServerValues

\* What the client is told and the virtual keys change together.
WithKeys(sv, messages, down) == [sv EXCEPT !.told = messages, !.virtualDown = down]

LEMMA SetVirtualDown ==
  ASSUME NEW at, NEW m, NEW d, NEW K, NEW sv \in Servers(at, m, d, K),
         NEW m2, NEW d2, NEW x \in Seq(Messages), NEW y \in SUBSET VirtualKeys,
         IsTold(m2, d2, x, y, sv.exit), NEW K2, Learned(sv.stages, y, K2)
  PROVE  WithKeys(sv, x, y) \in Servers(at, m2, d2, K2)
BY DEF Servers, ServerValues, WithKeys

LEMMA AddOthers ==
  ASSUME NEW at, NEW m, NEW d, NEW K, NEW sv \in Servers(at, m, d, K), NEW x \in Seq(OtherMessages)
  PROVE  [sv EXCEPT !.told = @ \o x] \in Servers(at, m, d, K)
<1> DEFINE more == sv.told \o x
<1>1. sv.told \in Seq(Messages) /\ sv.exit \in BOOLEAN /\ IsTold(m, d, sv.told, sv.virtualDown, sv.exit)
  BY ServerFields
<1>2. IsTold(m, d, more, sv.virtualDown, sv.exit)
  BY <1>1, ToldOthers
<1>3. more \in Seq(Messages)
  <2>1. x \in Seq(Messages)
    BY SeqMonotone DEF Messages
  <2> QED BY <1>1, <2>1
<1> HIDE DEF more
<1>4. [sv EXCEPT !.told = more] \in Servers(at, m, d, K)
  BY <1>2, <1>3 DEF Servers, ServerValues
<1> QED BY <1>4 DEF more

-----------------------------------------------------------------------------
(* The operations of the server on its buffer and its timers. *)

LEMMA InsertedIs ==
  ASSUME NEW X, NEW s \in Seq(X), NEW t \in Seq(X), NEW i \in 0..Len(s)
  PROVE  /\ SubSeq(s, 1, i) \o t \o From(s, i + 1) \in Seq(X)
         /\ Len(SubSeq(s, 1, i) \o t \o From(s, i + 1)) >= Len(s)
<1> DEFINE a == SubSeq(s, 1, i)
           b == SubSeq(s, i + 1, Len(s))
<1>1. a \in Seq(X) /\ Len(a) = i
  OBVIOUS
<1>2. b \in Seq(X) /\ Len(b) = Len(s) - i
  OBVIOUS
<1> HIDE DEF a, b
<1>3. a \o t \o b \in Seq(X) /\ Len(a \o t \o b) >= Len(s)
  BY <1>1, <1>2
<1> QED BY <1>3 DEF a, b, From

LEMMA SendKeySequenceIs ==
  ASSUME NEW at, NEW m, NEW d, NEW K, NEW sv \in Servers(at, m, d, K), NEW sequence \in Seq(OutEvents)
  PROVE  SendKeySequence(sv, sequence) \in Servers(at, m, d, K)
<1> DEFINE buffer == sv.buffer
           i == IF sv.insertAt # Nowhere THEN sv.insertAt ELSE Len(buffer)
           next == SubSeq(buffer, 1, i) \o sequence \o From(buffer, i + 1)
<1>1. SendKeySequence(sv, sequence) = [sv EXCEPT !.buffer = next]
  BY DEF SendKeySequence
<1>2. buffer \in Seq(OutEvents) /\ sv.insertAt = at /\ Fits(at, buffer)
  BY ServerFields
<1> HIDE DEF buffer
<1>3. i \in 0..Len(buffer)
  BY <1>2 DEF Fits
<1> HIDE DEF i
<1>4. next \in Seq(OutEvents) /\ Len(next) >= Len(buffer)
  BY <1>2, <1>3, InsertedIs
<1> HIDE DEF next
<1>5. Fits(at, next)
  BY <1>2, <1>4 DEF Fits
<1> QED BY <1>1, <1>4, <1>5, SetBuffer

LEMMA ReleaseAllKeysIs ==
  ASSUME NEW at, NEW m, NEW d, NEW K, NEW sv \in Servers(at, m, d, K)
  PROVE  ReleaseAllKeys(sv) \in Servers(at, m, d, K)
<1> DEFINE keys == StagesOutputKeysDown(sv.stages)
           releases == Map(keys, Release)
           buffer == sv.buffer
           next == buffer \o releases
<1>1. ReleaseAllKeys(sv) = [sv EXCEPT !.buffer = next]
  BY DEF ReleaseAllKeys
<1>2. keys \in Seq(DeviceKeys)
  BY ServerFields, StagesOutputKeysDownIs
<1>3. buffer \in Seq(OutEvents) /\ Fits(at, buffer)
  BY ServerFields
<1> HIDE DEF keys, buffer
<1>4. releases \in Seq(OutEvents)
  <2>1. Len(keys) \in Nat /\ DOMAIN keys = 1..Len(keys) /\ \A i \in DOMAIN keys : keys[i] \in OutputKeys
    BY <1>2 DEF OutputKeys
  <2>2. \A i \in DOMAIN keys : Release(keys[i]) \in OutEvents
    BY <2>1, PressIs DEF OutEvents
  <2>3. [i \in DOMAIN keys |-> Release(keys[i])] \in [1..Len(keys) -> OutEvents]
    BY <2>1, <2>2
  <2> QED BY <2>1, <2>3, MapIs DEF Map
<1> HIDE DEF releases
<1>5. next \in Seq(OutEvents) /\ Len(next) >= Len(buffer)
  BY <1>3, <1>4
<1> HIDE DEF next
<1>6. Fits(at, next)
  BY <1>3, <1>5 DEF Fits
<1> QED BY <1>1, <1>5, <1>6, SetBuffer

LEMMA ScheduleFlushIs ==
  ASSUME NEW at, NEW m, NEW d, NEW K, NEW sv \in Servers(at, m, d, K), NEW delayed \in BOOLEAN
  PROVE  ScheduleFlush(sv, delayed) \in Servers(at, m, d, K)
<1>1. TRUE \in BOOLEAN /\ (delayed => TRUE)
  OBVIOUS
<1>2. [sv EXCEPT !.flush = TRUE, !.delayed = delayed] \in Servers(at, m, d, K)
  BY <1>1, SetFlush
<1> QED BY <1>2 DEF ScheduleFlush

LEMMA NoEventIsAny ==
  NoEvent \in EventsOf(AllKeys)
<1>1. "none" \in AllKeys
  BY DEF AllKeys
<1> QED BY <1>1, PressIs DEF NoEvent

LEMMA CancelTimeoutIs ==
  ASSUME NEW at, NEW m, NEW d, NEW K, NEW sv \in Servers(at, m, d, K)
  PROVE  CancelTimeout(sv) \in Servers(at, m, d, K)
BY NoEventIsAny, SetServerTimeout DEF CancelTimeout

LEMMA OutEventsAre ==
  /\ OutEvents \subseteq EventsOf(AllKeys) /\ SeqEvents \subseteq EventsOf(AllKeys)
BY EventsWiden DEF OutEvents, SeqEvents, OutputKeys, SeqKeys, AllKeys

LEMMA ScheduleTimeoutIs ==
  ASSUME NEW at, NEW m, NEW d, NEW K, NEW sv \in Servers(at, m, d, K), NEW timeout \in OutEvents
  PROVE  ScheduleTimeout(sv, timeout) \in Servers(at, m, d, K)
<1> DEFINE a == [sv EXCEPT !.timeout = timeout]
           b == [a EXCEPT !.elapsed = 0]
<1>1. a \in Servers(at, m, d, K)
  BY OutEventsAre, SetServerTimeout
<1>2. ScheduleTimeout(sv, timeout) = b
  BY DEF ScheduleTimeout
<1> HIDE DEF a
<1>3. 0 \in 0..MaxTimeout
  BY DEF MaxTimeout
<1>4. b \in Servers(at, m, d, K)
  BY <1>1, <1>3, SetServerElapsed
<1> QED BY <1>2, <1>4

LEMMA HandleOutputIs ==
  ASSUME NEW at, NEW m, NEW d, NEW K, NEW sv \in Servers(at, m, d, K), NEW output \in Seq(OutEvents)
  PROVE  HandleOutput(sv, output) \in Servers(at, m, d, K)
<1> DEFINE positions == {j \in DOMAIN output : output[j].key = "timeout"}
           i == FirstOf(positions)
           a == ScheduleTimeout(sv, output[i])
           rest == RemoveAt(output, i)
<1>1. i \in 0..Len(output)
  <2>1. Len(output) \in Nat /\ positions \in SUBSET (1..Len(output))
    OBVIOUS
  <2> HIDE DEF positions
  <2> QED BY <2>1, FirstOfIs
<1>2. HandleOutput(sv, output) = IF i = 0 THEN SendKeySequence(sv, output) ELSE SendKeySequence(a, rest)
  BY DEF HandleOutput
<1> HIDE DEF i
<1>3. rest \in Seq(OutEvents)
  BY <1>1, RemoveAtIs
<1>4. i # 0 => output[i] \in OutEvents
  BY <1>1
<1>5. i # 0 => a \in Servers(at, m, d, K)
  BY <1>4, ScheduleTimeoutIs
<1> HIDE DEF a, rest
<1> QED BY <1>2, <1>3, <1>5, SendKeySequenceIs

LEMMA TranslatedIs ==
  ASSUME NEW at, NEW m, NEW d, NEW K, NEW sv \in Servers(at, m, d, K), NEW event \in SeqEvents,
         NEW updated, updated.stages \in Seq(AnyKnown), NEW K2, Learned(updated.stages, sv.virtualDown, K2)
  PROVE  Translated(sv, event, updated) \in Servers(at, m, d, K2)
<1> DEFINE a == [sv EXCEPT !.stages = updated.stages]
           b == [a EXCEPT !.lastKey = event]
<1>2. a \in Servers(at, m, d, K2)
  BY SetStages
<1>3. Translated(sv, event, updated) \in {a, b}
  BY DEF Translated, Servers, ServerValues
<1> HIDE DEF a
<1>4. b \in Servers(at, m, d, K2)
  BY <1>2, OutEventsAre, SetLastKey
<1> QED BY <1>2, <1>3, <1>4

\* What a reset does to the server before it forgets the virtual keys.
Restarting(sv, stages) ==
  [[[[sv EXCEPT !.stages = stages] EXCEPT !.clientContexts = << >>]
     EXCEPT !.flush = FALSE, !.delayed = FALSE] EXCEPT !.timeout = NoEvent]

LEMMA RestartingIs ==
  ASSUME NEW at, NEW m, NEW d, NEW K, NEW sv \in Servers(at, m, d, K), NEW stages \in Seq(AnyKnown),
         NEW K2, Learned(stages, sv.virtualDown, K2)
  PROVE  /\ Restarting(sv, stages) \in Servers(at, m, d, K2)
         /\ Restarting(sv, stages).stages = stages
         /\ Restarting(sv, stages).exit = sv.exit
         /\ Restart(sv, stages) = WithKeys(Restarting(sv, stages), sv.told, {})
<1> DEFINE a == [sv EXCEPT !.stages = stages]
           b == [a EXCEPT !.clientContexts = << >>]
           c == [b EXCEPT !.flush = FALSE, !.delayed = FALSE]
           e == [c EXCEPT !.timeout = NoEvent]
<1>1. a \in Servers(at, m, d, K2)
  BY SetStages
<1>2. b \in Servers(at, m, d, K2)
  <2>1. << >> \in Seq(Nat)
    OBVIOUS
  <2> HIDE DEF a
  <2> QED BY <1>1, <2>1, SetClientContexts
<1>3. c \in Servers(at, m, d, K2)
  <2> HIDE DEF b
  <2>1. FALSE \in BOOLEAN /\ (FALSE => FALSE)
    OBVIOUS
  <2> QED BY <1>2, <2>1, SetFlush
<1>4. e \in Servers(at, m, d, K2)
  <2> HIDE DEF c
  <2> QED BY <1>3, NoEventIsAny, SetServerTimeout
<1>5. e.exit = sv.exit /\ e.told = sv.told /\ e.stages = stages
  BY DEF Servers, ServerValues
<1>6. Restart(sv, stages) = WithKeys(e, sv.told, {})
  BY DEF Restart, Servers, ServerValues, WithKeys
<1>7. Restarting(sv, stages) = e
  BY DEF Restarting
<1> HIDE DEF e
<1> QED BY <1>4, <1>5, <1>6, <1>7

\* A reset forgets the virtual keys, whatever the client was told and the stages knew.
LEMMA RestartIs ==
  ASSUME NEW at, NEW m, NEW d, NEW K, NEW sv \in Servers(at, m, d, K), NEW stages \in Seq(AnyStage({}))
  PROVE  Restart(sv, stages) \in Servers(at, Len(sv.told), {}, Same)
<1> DEFINE messages == sv.told
           n == Len(messages)
           none == {}
           s == Restarting(sv, stages)
           any == {<<sv.virtualDown, none>>}
<1>1. messages \in Seq(Messages) /\ none \in SUBSET VirtualKeys /\ sv.exit \in BOOLEAN
  BY ServerFields
<1>2. stages \in Seq(AnyKnown)
  BY <1>1, AlikeStages
<1>3. Learned(stages, sv.virtualDown, any) /\ Learned(stages, none, Same)
  <2>1. stages \in Seq(AnyStage(none)) /\ <<sv.virtualDown, none>> \in any
    OBVIOUS
  <2> HIDE DEF none, any
  <2> QED BY <1>1, <2>1, SameIs DEF Learned
<1> HIDE DEF any
<1>4. /\ s \in Servers(at, m, d, any) /\ s.exit = sv.exit /\ s.stages = stages
      /\ Restart(sv, stages) = WithKeys(s, sv.told, {})
  BY <1>2, <1>3, RestartingIs
<1> HIDE DEF s
<1>5. Restart(sv, stages) = WithKeys(s, messages, none)
  BY <1>4
<1> HIDE DEF messages
<1>6. IsTold(n, none, messages, none, s.exit)
  BY <1>1, <1>4, ToldReset
<1> HIDE DEF none, n
<1>7. WithKeys(s, messages, none) \in Servers(at, n, none, Same)
  BY <1>1, <1>3, <1>4, <1>6, SetVirtualDown
<1> QED BY <1>5, <1>7 DEF messages, n, none

LEMMA RestartKeeps ==
  ASSUME NEW sv \in ServerValues, NEW stages
  PROVE  /\ Restart(sv, stages).told = sv.told /\ Restart(sv, stages).exit = sv.exit
         /\ Restart(sv, stages).virtualDown = {} /\ Restart(sv, stages).buffer = sv.buffer
         /\ Restart(sv, stages).stages = stages
BY DEF Restart, ServerValues

LEMMA ExitKeeps ==
  ASSUME NEW sv \in ServerValues
  PROVE  /\ Exit(sv).told = sv.told /\ Exit(sv).exit = TRUE
         /\ Exit(sv).virtualDown = {} /\ Exit(sv).buffer = sv.buffer
BY DEF Exit, Restart, ServerValues

LEMMA ExitIs ==
  ASSUME NEW at, NEW m, NEW d, NEW K, NEW sv \in Servers(at, m, d, K)
  PROVE  Exit(sv) \in Servers(at, m, d, K)
<1> DEFINE messages == sv.told
           n == Len(messages)
           a == Restart(sv, << >>)
<1>1. a \in Servers(at, n, {}, Same)
  <2>1. << >> \in Seq(AnyStage({}))
    OBVIOUS
  <2> QED BY <2>1, RestartIs
<1>2. a.told = messages /\ a.virtualDown = {} /\ Learned(a.stages, {}, K)
  BY ServerFields, RestartKeeps DEF Learned
<1>3. messages \in Seq(Messages)
  BY ServerFields
<1> HIDE DEF messages, a
<1>4. IsTold(m, d, messages, {}, TRUE)
  <2>1. TRUE \in BOOLEAN
    OBVIOUS
  <2> QED BY <1>3, <2>1, ToldReset
<1>5. Exit(sv) = [a EXCEPT !.exit = TRUE]
  BY DEF Exit, a
<1>6. [a EXCEPT !.exit = TRUE] \in Servers(at, m, d, K)
  BY <1>1, <1>2, <1>4 DEF Servers, ServerValues
<1> QED BY <1>5, <1>6

-----------------------------------------------------------------------------
(***************************************************************************)
(* Translating what comes from the server itself. It may read the exit     *)
(* sequence; otherwise it changes no virtual key and tells nothing.        *)
(***************************************************************************)
Quietly(sv) ==
  {s \in ServerValues : /\ s.told = sv.told /\ (sv.exit => s.exit)
                        /\ s.virtualDown = sv.virtualDown \/ (s.exit /\ s.virtualDown = {})}

LEMMA QuietlySelf ==
  ASSUME NEW sv \in ServerValues
  PROVE  sv \in Quietly(sv)
BY DEF Quietly

LEMMA QuietlyThen ==
  ASSUME NEW sv, NEW s \in Quietly(sv), NEW t \in Quietly(s)
  PROVE  t \in Quietly(sv)
<1>1. s.exit \in BOOLEAN /\ t.exit \in BOOLEAN
  BY DEF Quietly, ServerValues
<1> QED BY <1>1 DEF Quietly

\* Without a word, virtual keys stay as they are.
LEMMA QuietlySame ==
  ASSUME NEW sv \in ServerValues, NEW s \in ServerValues,
         s.told = sv.told, s.virtualDown = sv.virtualDown, s.exit = sv.exit
  PROVE  s \in Quietly(sv)
BY DEF Quietly

LEMMA SendKeySequenceKeeps ==
  ASSUME NEW sv \in ServerValues, NEW sequence
  PROVE  /\ SendKeySequence(sv, sequence).told = sv.told
         /\ SendKeySequence(sv, sequence).virtualDown = sv.virtualDown
         /\ SendKeySequence(sv, sequence).exit = sv.exit
BY DEF SendKeySequence, ServerValues

LEMMA ReleaseAllKeysKeeps ==
  ASSUME NEW sv \in ServerValues
  PROVE  /\ ReleaseAllKeys(sv).told = sv.told
         /\ ReleaseAllKeys(sv).virtualDown = sv.virtualDown
         /\ ReleaseAllKeys(sv).exit = sv.exit
BY DEF ReleaseAllKeys, ServerValues

LEMMA TranslatedKeeps ==
  ASSUME NEW sv \in ServerValues, NEW event, NEW updated
  PROVE  /\ Translated(sv, event, updated).told = sv.told
         /\ Translated(sv, event, updated).virtualDown = sv.virtualDown
         /\ Translated(sv, event, updated).exit = sv.exit
BY DEF Translated, ServerValues

LEMMA ScheduleTimeoutKeeps ==
  ASSUME NEW sv \in ServerValues, NEW timeout
  PROVE  /\ ScheduleTimeout(sv, timeout).told = sv.told
         /\ ScheduleTimeout(sv, timeout).virtualDown = sv.virtualDown
         /\ ScheduleTimeout(sv, timeout).exit = sv.exit
BY DEF ScheduleTimeout, ServerValues

LEMMA CancelTimeoutKeeps ==
  ASSUME NEW sv \in ServerValues
  PROVE  /\ CancelTimeout(sv).told = sv.told
         /\ CancelTimeout(sv).virtualDown = sv.virtualDown
         /\ CancelTimeout(sv).exit = sv.exit
BY DEF CancelTimeout, ServerValues

LEMMA HandleOutputKeeps ==
  ASSUME NEW at, NEW m, NEW d, NEW K, NEW sv \in Servers(at, m, d, K), NEW output \in Seq(OutEvents)
  PROVE  /\ HandleOutput(sv, output).told = sv.told
         /\ HandleOutput(sv, output).virtualDown = sv.virtualDown
         /\ HandleOutput(sv, output).exit = sv.exit
<1> DEFINE positions == {j \in DOMAIN output : output[j].key = "timeout"}
           i == FirstOf(positions)
           a == ScheduleTimeout(sv, output[i])
           rest == RemoveAt(output, i)
<1>1. HandleOutput(sv, output) = IF i = 0 THEN SendKeySequence(sv, output) ELSE SendKeySequence(a, rest)
  BY DEF HandleOutput
<1>2. i # 0 => i \in DOMAIN output
  <2>1. Len(output) \in Nat /\ positions \in SUBSET (1..Len(output)) /\ DOMAIN output = 1..Len(output)
    OBVIOUS
  <2> HIDE DEF positions
  <2>2. i \in 0..Len(output)
    BY <2>1, FirstOfIs
  <2> HIDE DEF i
  <2> QED BY <2>1, <2>2
<1> HIDE DEF i
<1>3. sv \in ServerValues
  BY ServerFields
<1>4. i # 0 => output[i] \in OutEvents
  BY <1>2
<1>5. i # 0 => a \in ServerValues
  BY <1>4, ScheduleTimeoutIs, ServerFields
<1>6. a.told = sv.told /\ a.virtualDown = sv.virtualDown /\ a.exit = sv.exit
  BY <1>3, ScheduleTimeoutKeeps
<1> HIDE DEF a, rest
<1>7. CASE i = 0
  BY <1>1, <1>3, <1>7, SendKeySequenceKeeps
<1>8. CASE i # 0
  <2>1. HandleOutput(sv, output) = SendKeySequence(a, rest) /\ a \in ServerValues
    BY <1>1, <1>5, <1>8
  <2> QED BY <1>6, <2>1, SendKeySequenceKeeps
<1> QED BY <1>7, <1>8

LEMMA OwnOutcomeIs ==
  ASSUME NEW at, NEW m, NEW d, NEW K, NEW sv \in Servers(at, m, d, K), NEW event \in SeqEvents,
         NEW updated, updated.stages \in Seq(AnyKnown), updated.output \in Seq(OutEvents),
         NEW K2, Learned(updated.stages, sv.virtualDown, K2)
  PROVE  OwnOutcome(sv, event, updated) \in Servers(at, m, d, K2) \cap Quietly(sv)
<1> DEFINE a == Translated(sv, event, updated)
           b == ReleaseAllKeys(a)
           output == updated.output
           e == Exit(b)
           h == HandleOutput(a, output)
<1>1. OwnOutcome(sv, event, updated) \in {e, h}
  BY DEF OwnOutcome
<1>2. a \in Servers(at, m, d, K2) /\ output \in Seq(OutEvents) /\ sv \in ServerValues
  BY TranslatedIs, ServerFields
<1>3. a.told = sv.told /\ a.virtualDown = sv.virtualDown /\ a.exit = sv.exit
  BY <1>2, TranslatedKeeps
<1> HIDE DEF a, output
<1>4. b \in Servers(at, m, d, K2) /\ a \in ServerValues
  BY <1>2, ReleaseAllKeysIs, ServerFields
<1>5. b.told = sv.told
  BY <1>3, <1>4, ReleaseAllKeysKeeps
<1> HIDE DEF b
<1>6. e \in Servers(at, m, d, K2) /\ e.told = sv.told /\ e.exit = TRUE /\ e.virtualDown = {}
  BY <1>4, <1>5, ExitIs, ExitKeeps, ServerFields
<1>7. h \in Servers(at, m, d, K2) /\ h.told = sv.told /\ h.virtualDown = sv.virtualDown /\ h.exit = sv.exit
  BY <1>2, <1>3, HandleOutputIs, HandleOutputKeeps
<1> HIDE DEF e, h
<1>8. e \in Quietly(sv)
  BY <1>6, ServerFields DEF Quietly
<1>9. h \in Quietly(sv)
  BY <1>2, <1>7, ServerFields, QuietlySame
<1> QED BY <1>1, <1>6, <1>7, <1>8, <1>9

LEMMA UpdateWithOwnIs ==
  ASSUME NEW at, NEW m, NEW d, NEW K, NEW sv \in Servers(at, m, d, K), NEW event \in SeqEvents, Plain(event),
         NEW K2, Teaches(event, K, K2)
  PROVE  UpdateWithOwn(sv, event) \in Servers(at, m, d, K2) \cap Quietly(sv)
<1> DEFINE stages == sv.stages
           elapsed == sv.elapsed
           updated == UpdateStages(stages, event, AnyDevice, elapsed)
<1>1. Learned(stages, sv.virtualDown, K) /\ elapsed \in 0..MaxTimeout /\ AnyDevice \in Int
  BY ServerFields DEF AnyDevice
<1>2. UpdateWithOwn(sv, event) = OwnOutcome(sv, event, updated)
  BY DEF UpdateWithOwn
<1> HIDE DEF stages, elapsed
<1>3. /\ updated.stages \in Seq(AnyKnown) /\ Learned(updated.stages, sv.virtualDown, K2)
      /\ updated.output \in Seq(OutEvents)
  BY <1>1, UpdatedLearn
<1> HIDE DEF updated
<1> QED BY <1>2, <1>3, OwnOutcomeIs

Ins == [event : SeqEvents, ends : {TRUE, FALSE}]

LEMMA InsAre ==
  ASSUME NEW event \in SeqEvents
  PROVE  Before(event) \in Ins /\ Itself(event) \in Ins
BY DEF Before, Itself, Ins

LEMMA InputForIs ==
  ASSUME NEW at, NEW m, NEW d, NEW K, NEW sv \in Servers(at, m, d, K), NEW in \in Ins
  PROVE  /\ InputFor(sv, in) \in SeqEvents
         /\ in.ends => InputFor(sv, in).key \notin VirtualKeys
         /\ ~in.ends => InputFor(sv, in) = in.event
         /\ WithoutEnded(sv, in) \in Servers(at, m, d, K) \cap Quietly(sv)
<1>1. sv.elapsed \in 0..MaxTimeout /\ sv \in ServerValues
  BY ServerFields
<1>2. InputTimeout(sv.elapsed) \in SeqEvents
  <2>1. "timeout" \in SeqKeys /\ "Up" \in KeyStates
    BY DEF SeqKeys, KeyStates
  <2> DEFINE e == sv.elapsed
             values == 0..MaxTimeout
  <2>2. e \in values
    BY <1>1
  <2>3. InputTimeout(sv.elapsed) = [key |-> "timeout", state |-> "Up", value |-> e]
    BY DEF InputTimeout, Timeout
  <2>4. SeqEvents = [key : SeqKeys, state : KeyStates, value : values]
    BY DEF SeqEvents, EventsOf
  <2> HIDE DEF e, values
  <2> QED BY <2>1, <2>2, <2>3, <2>4
<1>3. InputFor(sv, in) \in SeqEvents
  BY <1>2 DEF InputFor, Ins
<1>3a. in.ends => InputFor(sv, in).key = "timeout"
  BY DEF InputFor, InputTimeout, Timeout
<1>3b. ~in.ends => InputFor(sv, in) = in.event
  BY DEF InputFor
<1>4. CancelTimeout(sv) \in Servers(at, m, d, K) /\ CancelTimeout(sv) \in ServerValues
  BY CancelTimeoutIs, ServerFields
<1>5. CancelTimeout(sv) \in Quietly(sv)
  BY <1>1, <1>4, CancelTimeoutKeeps, QuietlySame
<1>6. sv \in Quietly(sv)
  BY <1>1, QuietlySelf
<1>7. WithoutEnded(sv, in) \in {CancelTimeout(sv), sv}
  BY DEF WithoutEnded
<1> QED BY <1>3, <1>3a, <1>3b, <1>4, <1>5, <1>6, <1>7, KeyKindsAreDisjoint

LEMMA TranslateOwnStays ==
  ASSUME NEW sv, NEW event, NEW U, NEW T, NEW n \in Nat, DOMAIN <<Before(event), Itself(event)>> = 1..n, n = Len(<<Before(event), Itself(event)>>),
         sv \in U[0], sv \in T[0],
         \A i \in 1..n : U[i - 1] \subseteq U[i],
         \A i \in 1..n : \A x \in U[i - 1] : (IF IsInput(x, <<Before(event), Itself(event)>>[i]) THEN UpdateWithOwn(WithoutEnded(x, <<Before(event), Itself(event)>>[i]), InputFor(x, <<Before(event), Itself(event)>>[i])) ELSE x) \in U[i],
         \A i \in 1..n : \A x \in T[i - 1] : (IF IsInput(x, <<Before(event), Itself(event)>>[i]) THEN UpdateWithOwn(WithoutEnded(x, <<Before(event), Itself(event)>>[i]), InputFor(x, <<Before(event), Itself(event)>>[i])) ELSE x) \in T[i]
  PROVE  TranslateOwn(sv, event) \in T[n]
<1> DEFINE seq == <<Before(event), Itself(event)>>
           base == sv
           Op(x, i) == (IF IsInput(x, <<Before(event), Itself(event)>>[i]) THEN UpdateWithOwn(WithoutEnded(x, <<Before(event), Itself(event)>>[i]), InputFor(x, <<Before(event), Itself(event)>>[i])) ELSE x)
           Step(x, e) == (IF IsInput(x, e) THEN UpdateWithOwn(WithoutEnded(x, e), InputFor(x, e)) ELSE x)
           G == [i \in 1..n |-> [x \in U[i - 1] |-> Op(x, i)]]
           Is(f) == f = [s \in SUBSET (1..n) |->
                           IF s = {} THEN base ELSE Step(f[s \ {Max(s)}], seq[Max(s)])]
<1>1. Len(seq) = n /\ \A i \in 1..n : \A x : Step(x, seq[i]) = Op(x, i)
  <2>1. Len(seq) = n /\ \A i \in 1..n : seq[i] = <<Before(event), Itself(event)>>[i]
    OBVIOUS
  <2> HIDE DEF seq
  <2> QED BY <2>1
<1>2. base \in U[0] /\ \A i \in 1..n : \A x \in U[i - 1] : Op(x, i) \in U[i]
  OBVIOUS
<1>2a. base \in T[0] /\ \A i \in 1..n : \A x \in T[i - 1] : Op(x, i) \in T[i]
  OBVIOUS
<1>3. TranslateOwn(sv, event) = (CHOOSE f : Is(f))[1..n]
  <2>1. TranslateOwn(sv, event) = (CHOOSE f : f = [s \in SUBSET (1..Len(seq)) |->
                           IF s = {} THEN base ELSE Step(f[s \ {Max(s)}], seq[Max(s)])])[1..Len(seq)]
    BY DEF TranslateOwn, FoldLeft, MapThenFoldSet
  <2> HIDE DEF seq, base, Step
  <2> QED BY <1>1, <2>1
<1> HIDE DEF seq, base, Op, Step
<1>4. \A i \in 1..n : \A x \in U[i - 1] : G[i][x] = Op(x, i) /\ G[i][x] \in U[i]
  BY <1>2
<1> HIDE DEF G
<1>5. \E f : Is(f)
  <2>1. PICK f : IsFold(f, n, base, U, G)
    BY <1>2, <1>4, FoldExists
  <2>2. ASSUME NEW s \in SUBSET (1..n), s # {}
        PROVE  G[Max(s)][f[s \ {Max(s)}]] = Step(f[s \ {Max(s)}], seq[Max(s)])
    <3>1. Max(s) \in 1..n
      BY <2>2, LastOfPositions
    <3>2. f[s \ {Max(s)}] \in U[Max(s) - 1]
      BY <2>1, <2>2 DEF IsFold
    <3> QED BY <1>1, <1>4, <3>1, <3>2
  <2>3. f = [s \in SUBSET (1..n) |->
                IF s = {} THEN base ELSE G[Max(s)][f[s \ {Max(s)}]]]
    BY <2>1 DEF IsFold
  <2>4. Is(f)
    BY <2>2, <2>3
  <2> QED BY <2>4
<1>6. ASSUME NEW f, Is(f) PROVE f[1..n] \in T[n]
  <2> DEFINE a == [k \in 0..n |-> f[1..k]]
  <2>1. 1..0 = {} /\ 0 \in 0..n /\ n \in 0..n /\ \A k \in 1..n : k \in 0..n /\ k - 1 \in 0..n
    OBVIOUS
  <2>2. \A k \in 0..n : a[k] = f[1..k]
    OBVIOUS
  <2> HIDE DEF a
  <2>3. a[0] = base
    <3>1. f[{}] = base
      BY <1>6
    <3> QED BY <2>1, <2>2, <3>1
  <2>4. ASSUME NEW k \in 1..n PROVE a[k] = Op(a[k - 1], k)
    <3>1. /\ 1..k \in SUBSET (1..n) /\ 1..k # {} /\ Max(1..k) = k
          /\ (1..k) \ {Max(1..k)} = 1..(k - 1)
      BY FoldStep
    <3>2. f[1..k] = Step(f[(1..k) \ {Max(1..k)}], seq[Max(1..k)])
      BY <1>6, <3>1
    <3> QED BY <1>1, <2>1, <2>2, <3>1, <3>2
  <2>5. ASSUME NEW k \in 1..n, a[k - 1] \in T[k - 1] PROVE a[k] \in T[k]
    BY <1>2a, <2>4, <2>5
  <2>6. \A k \in 0..n : a[k] \in T[k]
    BY <1>2a, <2>3, <2>5, ChainStays
  <2> QED BY <2>1, <2>2, <2>6
<1> HIDE DEF Is
<1> QED BY <1>3, <1>5, <1>6

LEMMA TranslateOwnIs ==
  ASSUME NEW at, NEW m, NEW d, NEW K, NEW sv \in Servers(at, m, d, K), NEW event \in SeqEvents, Plain(event),
         NEW K2, Teaches(event, K, K2)
  PROVE  TranslateOwn(sv, event) \in Servers(at, m, d, K2) \cap Quietly(sv)
<1> DEFINE S == Servers(at, m, d, K) \cap Quietly(sv)
           S2 == Servers(at, m, d, K2) \cap Quietly(sv)
           before == Before(event)
           itself == Itself(event)
           ins == <<before, itself>>
           Step(x, e) == IF IsInput(x, e) THEN UpdateWithOwn(WithoutEnded(x, e), InputFor(x, e)) ELSE x
           U == [i \in 0..2 |-> IF i = 2 THEN S \cup S2 ELSE S]
           T == [i \in 0..2 |-> IF i = 2 THEN S2 ELSE S]
<1>1. sv \in S
  BY ServerFields, QuietlySelf
<1>2. /\ before \in Ins /\ before.ends = TRUE
      /\ itself \in Ins /\ itself.ends = FALSE /\ itself.event = event
  BY InsAre DEF Before, Itself
<1> HIDE DEF before, itself
<1>3. ASSUME NEW x \in S, NEW e \in Ins, NEW K3, Plain(InputFor(x, e)), Teaches(InputFor(x, e), K, K3)
      PROVE  UpdateWithOwn(WithoutEnded(x, e), InputFor(x, e)) \in Servers(at, m, d, K3) \cap Quietly(sv)
  <2> DEFINE y == WithoutEnded(x, e)
             z == UpdateWithOwn(y, InputFor(x, e))
  <2>1. y \in Servers(at, m, d, K) /\ y \in Quietly(x) /\ InputFor(x, e) \in SeqEvents
    BY InputForIs
  <2> HIDE DEF y
  <2>2. z \in Servers(at, m, d, K3) /\ z \in Quietly(y)
    BY <1>3, <2>1, UpdateWithOwnIs
  <2> HIDE DEF z
  <2>3. z \in Quietly(sv)
    BY <2>1, <2>2, QuietlyThen
  <2> QED BY <2>2, <2>3 DEF y, z
<1>4. ASSUME NEW x \in S PROVE Step(x, before) \in S
  <2>1. InputFor(x, before).key \notin VirtualKeys
    BY <1>2, InputForIs
  <2>2. Plain(InputFor(x, before)) /\ Teaches(InputFor(x, before), K, K)
    BY <2>1, TeachesNothing DEF Plain
  <2>3. UpdateWithOwn(WithoutEnded(x, before), InputFor(x, before)) \in S
    BY <1>2, <1>3, <2>2
  <2> QED BY <2>3
<1>5. ASSUME NEW x \in S PROVE Step(x, itself) \in S2
  <2>1. InputFor(x, itself) = event
    BY <1>2, InputForIs
  <2>2. UpdateWithOwn(WithoutEnded(x, itself), InputFor(x, itself)) \in S2
    BY <1>2, <1>3, <2>1
  <2>3. IsInput(x, itself)
    BY <1>2 DEF IsInput
  <2> QED BY <2>2, <2>3
<1> HIDE DEF Step, S, S2
<1>6. /\ 2 \in Nat /\ DOMAIN ins = 1..2 /\ 2 = Len(ins) /\ ins[1] = before /\ ins[2] = itself
      /\ \A i \in 1..2 : i = 1 \/ i = 2
  OBVIOUS
<1>7. /\ U[0] = S /\ U[1] = S /\ U[2] = S \cup S2
      /\ T[0] = S /\ T[1] = S /\ T[2] = S2
  OBVIOUS
<1> HIDE DEF U, T, ins
<1>8. 1 - 1 = 0 /\ 2 - 1 = 1
  OBVIOUS
<1>9. \A i \in 1..2 : U[i - 1] \subseteq U[i]
  BY <1>6, <1>7, <1>8
<1>10. \A i \in 1..2 : \A x \in U[i - 1] : Step(x, ins[i]) \in U[i]
  BY <1>4, <1>5, <1>6, <1>7, <1>8
<1>11. \A i \in 1..2 : \A x \in T[i - 1] : Step(x, ins[i]) \in T[i]
  BY <1>4, <1>5, <1>6, <1>7, <1>8
<1>12. TranslateOwn(sv, event) \in T[2]
  BY <1>1, <1>6, <1>7, <1>9, <1>10, <1>11, TranslateOwnStays DEF ins, before, itself, Step
<1> QED BY <1>7, <1>12 DEF S2

-----------------------------------------------------------------------------
(* Virtual keys: one changes, the stages are updated and the client is told. *)

LEMMA IsToldFurther ==
  ASSUME NEW m, NEW d, NEW messages, NEW down, NEW exit, NEW further, exit => further,
         IsTold(m, d, messages, down, exit)
  PROVE  IsTold(m, d, messages, down, further)
BY DEF IsTold

LEMMA ChangeVirtualKeyIs ==
  ASSUME NEW at, NEW m, NEW d, NEW sv \in Servers(at, m, d, Same), NEW key \in VirtualKeys,
         NEW state \in {"Up", "Down"}
  PROVE  ChangeVirtualKey(sv, Event(key, state)) \in Servers(at, m, d, Same)
<1> DEFINE event == Event(key, state)
           messages == sv.told
           old == sv.virtualDown
           down == IF state = "Down" THEN old \cup {key} ELSE old \ {key}
           message == [type |-> "virtual_key_state", key |-> key, state |-> state]
           a == WithKeys(sv, messages, down)
           K == {<<down, old>>}
           t == TranslateOwn(a, event)
           more == Append(messages, message)
           now == t.virtualDown
<1>1. /\ messages \in Seq(Messages) /\ old \in SUBSET VirtualKeys /\ sv.exit \in BOOLEAN
      /\ IsTold(m, d, messages, old, sv.exit) /\ sv \in ServerValues
  BY ServerFields
<1>2. message \in Messages /\ event.key = key /\ event.state = state
  BY DEF Messages, KeyMessages, Event
<1>3. down = MirrorStep(old, message)
  BY DEF MirrorStep
<1>4. [sv EXCEPT !.virtualDown = IF event.state = "Down" THEN @ \cup {event.key} ELSE @ \ {event.key}] = a
  BY <1>1, <1>2 DEF WithKeys, ServerValues
<1>5. ChangeVirtualKey(sv, event) = TellVirtualKey(t, event)
  BY <1>4 DEF ChangeVirtualKey
<1>6. event \in SeqEvents
  <2>1. key \in SeqKeys /\ state \in KeyStates
    BY DEF SeqKeys, KeyStates
  <2> QED BY <2>1, EventIs DEF SeqEvents
<1>7. down \in SUBSET VirtualKeys /\ down = After(old, event) /\ Plain(event)
  BY <1>1, <1>2 DEF After, Plain
<1>7a. Learned(sv.stages, down, K)
  <2> HIDE DEF down
  <2>1. sv.stages = << >> \/ sv.stages \in Seq(AnyStage(old))
    BY <1>1, ServerFields, SameIs
  <2> QED BY <1>1, <2>1 DEF Learned
<1>7b. Teaches(event, K, Same)
  <2> HIDE DEF down, old, event
  <2> QED BY <1>1, <1>7, TeachesChange
<1>8. a.told = messages /\ a.virtualDown = down /\ a.exit = sv.exit
  BY <1>1 DEF WithKeys, ServerValues
<1> HIDE DEF message, event, old, down, K
<1> DEFINE n == Len(messages)
<1>9. a \in Servers(at, n, down, K)
  <2> HIDE DEF messages, n
  <2>1. IsTold(n, down, messages, down, sv.exit)
    BY <1>1, MirrorsNothing DEF IsTold, n
  <2> QED BY <1>1, <1>7, <1>7a, <2>1, SetVirtualDown
<1> HIDE DEF a, n
<1>10. t \in Servers(at, n, down, Same) /\ t \in Quietly(a)
  BY <1>6, <1>7, <1>7b, <1>9, TranslateOwnIs
<1> HIDE DEF t
<1>11. /\ t \in ServerValues /\ t.told = messages /\ (sv.exit => t.exit) /\ t.exit \in BOOLEAN
       /\ now \in SUBSET VirtualKeys
       /\ now = down \/ (t.exit = TRUE /\ now = {})
       /\ Learned(t.stages, now, Same)
  BY <1>8, <1>10, ServerFields DEF Quietly
<1>12. TellVirtualKey(t, event) = WithKeys(t, more, now)
  <2>1. event.key \in VirtualKeys /\ message = [type |-> "virtual_key_state", key |-> event.key, state |-> event.state]
    BY <1>2 DEF message
  <2>2. TellVirtualKey(t, event) = [t EXCEPT !.told = Append(t.told, message)]
    BY <2>1 DEF TellVirtualKey, Tell
  <2> QED BY <1>11, <2>2 DEF WithKeys, ServerValues
<1> HIDE DEF messages, now
<1>13. more \in Seq(Messages)
  BY <1>1, <1>2
<1>14. IsTold(m, d, more, now, t.exit)
  <2>1. CASE now = down
    <3>1. IsTold(m, d, more, MirrorStep(old, message), sv.exit)
      BY <1>1, <1>2, ToldMessage
    <3> QED BY <1>3, <1>11, <2>1, <3>1, IsToldFurther
  <2>2. CASE t.exit = TRUE /\ now = {}
    <3> HIDE DEF more
    <3>1. IsTold(m, d, more, {}, TRUE)
      BY <1>13, ToldReset
    <3> QED BY <2>2, <3>1
  <2> QED BY <1>11, <2>1, <2>2
<1> HIDE DEF more
<1>15. WithKeys(t, more, now) \in Servers(at, m, d, Same)
  BY <1>10, <1>11, <1>13, <1>14, SetVirtualDown
<1> QED BY <1>5, <1>12, <1>15 DEF event

LEMMA SetVirtualKeyStateIs ==
  ASSUME NEW at, NEW m, NEW d, NEW sv \in Servers(at, m, d, Same), NEW key \in VirtualKeys, NEW state
  PROVE  SetVirtualKeyState(sv, key, state) \in Servers(at, m, d, Same)
<1> DEFINE changed == IF key \in sv.virtualDown THEN "Up" ELSE "Down"
<1>1. changed \in {"Up", "Down"}
  OBVIOUS
<1>2. SetVirtualKeyState(sv, key, state) \in {ChangeVirtualKey(sv, Event(key, changed)), sv}
  BY DEF SetVirtualKeyState
<1> HIDE DEF changed
<1> QED BY <1>1, <1>2, ChangeVirtualKeyIs

-----------------------------------------------------------------------------
(* The flush: the server and where in the buffer the flush goes on. *)

LEMMA PassOverIs ==
  ASSUME NEW at, NEW m, NEW d, NEW K, NEW sv \in Servers(at, m, d, K), NEW events \in Seq(OutEvents)
  PROVE  /\ PassOver(sv, events) \in Servers(at, m, d, K)
         /\ PassOver(sv, events).buffer = sv.buffer
<1> DEFINE sendable == {i \in DOMAIN events : IsSendable(events[i])}
           actions == {i \in DOMAIN events : IsAction(events[i])}
           pass == ElementsAt(events, sendable)
           triggers == ElementsAt(events, actions)
           messages == Map(triggers, LAMBDA ev : [type |-> "triggered_action", key |-> ev.key])
           out == sv.sent \o pass
           a == [sv EXCEPT !.sent = out]
<1>1. PassOver(sv, events) = [a EXCEPT !.told = @ \o messages]
  BY ServerFields DEF PassOver, Select, ServerValues
<1>2. \A i \in DOMAIN events : events[i] \in OutEvents
  OBVIOUS
<1>3. pass \in Seq(Sendable)
  <2>1. \A i \in DOMAIN events : i \in sendable => events[i] \in Sendable
    BY <1>2 DEF IsSendable, Sendable, OutEvents, OutputKeys, EventsOf
  <2> HIDE DEF sendable
  <2> QED BY <2>1, ElementsAtIs
<1>4. triggers \in Seq({ev \in OutEvents : ev.key \in ActionKeys})
  <2>1. \A i \in DOMAIN events : i \in actions => events[i] \in {ev \in OutEvents : ev.key \in ActionKeys}
    BY <1>2 DEF IsAction
  <2> HIDE DEF actions
  <2> QED BY <2>1, ElementsAtIs
<1> HIDE DEF pass, triggers
<1>5. messages \in Seq(OtherMessages)
  <2>1. /\ Len(triggers) \in Nat /\ DOMAIN triggers = 1..Len(triggers)
        /\ \A i \in DOMAIN triggers : triggers[i].key \in ActionKeys
    BY <1>4
  <2>2. \A i \in DOMAIN triggers : [type |-> "triggered_action", key |-> triggers[i].key] \in OtherMessages
    BY <2>1 DEF OtherMessages
  <2>3. [i \in DOMAIN triggers |-> [type |-> "triggered_action", key |-> triggers[i].key]]
          \in [1..Len(triggers) -> OtherMessages]
    BY <2>1, <2>2
  <2> QED BY <2>1, <2>3, MapIs DEF Map
<1> HIDE DEF messages
<1>6. sv.sent \in Seq(Sendable) /\ sv \in ServerValues
  BY ServerFields
<1>7. out \in Seq(Sendable)
  BY <1>3, <1>6
<1> HIDE DEF out
<1>8. a \in Servers(at, m, d, K) /\ a.buffer = sv.buffer
  BY <1>6, <1>7, SetSent DEF ServerValues
<1> HIDE DEF a
<1>9. [a EXCEPT !.told = @ \o messages].buffer = a.buffer
  BY <1>8 DEF Servers, ServerValues
<1>10. [a EXCEPT !.told = @ \o messages] \in Servers(at, m, d, K)
  BY <1>5, <1>8, AddOthers
<1> QED BY <1>1, <1>8, <1>9, <1>10

Flushings(m, d) ==
  {f \in [sv : Servers(Nowhere, m, d, Same), next : Nat] : f.next <= Len(f.sv.buffer) + 1}

LEMMA NotInserting ==
  ASSUME NEW m, NEW d, NEW sv \in Servers(Nowhere, m, d, Same), NEW buffer \in Seq(OutEvents)
  PROVE  [sv EXCEPT !.buffer = buffer] \in Servers(Nowhere, m, d, Same)
BY SetBuffer DEF Fits

LEMMA FlushUntilIs ==
  ASSUME NEW m, NEW d, NEW f \in Flushings(m, d), f.next # 0, NEW stop \in 0..Len(f.sv.buffer),
         stop = 0 \/ stop >= f.next
  PROVE  FlushUntil(f, stop) \in Flushings(m, d)
<1> DEFINE old == f.sv
           buffer == old.buffer
           end == IF stop = 0 THEN Len(buffer) ELSE stop - 1
           events == SubSeq(buffer, f.next, end)
           sv == PassOver(old, events)
           event == buffer[stop]
           over == [sv EXCEPT !.buffer = << >>]
           waiting == ScheduleFlush(sv, TRUE)
           later == [waiting EXCEPT !.buffer = From(@, stop + 1)]
           inserting == [sv EXCEPT !.insertAt = stop]
           toggled == ToggleVirtualKey(inserting, event.key)
           after == [toggled EXCEPT !.insertAt = Nowhere]
           kept == [sv EXCEPT !.buffer = From(@, stop)]
<1>1. old \in Servers(Nowhere, m, d, Same) /\ f.next \in Nat /\ f.next <= Len(buffer) + 1
  BY DEF Flushings
<1>2. buffer \in Seq(OutEvents)
  BY <1>1, ServerFields
<1>3. events \in Seq(OutEvents)
  <2>1. f.next \in 1..(Len(buffer) + 1) /\ end \in 0..Len(buffer)
    BY <1>1, <1>2
  <2> HIDE DEF buffer, end
  <2> DEFINE i == f.next - 1
  <2>2. i \in 0..Len(buffer) /\ f.next = i + 1
    BY <1>2, <2>1
  <2> HIDE DEF i
  <2>3. SubSeq(buffer, i + 1, end) \in Seq(OutEvents)
    BY <1>2, <2>1, <2>2
  <2> QED BY <2>2, <2>3
<1>4. FlushUntil(f, stop) =
        IF stop = 0 THEN [sv |-> over, next |-> 0]
        ELSE IF event.key = "timeout" THEN [sv |-> later, next |-> 0]
        ELSE IF IsToggle(event) THEN [sv |-> after, next |-> stop + 1]
        ELSE [sv |-> kept, next |-> 0]
  BY Zenon DEF FlushUntil
<1> HIDE DEF end, events
<1>5. sv \in Servers(Nowhere, m, d, Same) /\ sv.buffer = buffer
  <2> HIDE DEF old
  <2> QED BY <1>1, <1>3, PassOverIs DEF buffer
<1> HIDE DEF sv, old, buffer
<1>6. over \in Servers(Nowhere, m, d, Same)
  <2>1. << >> \in Seq(OutEvents)
    OBVIOUS
  <2> QED BY <1>5, <2>1, NotInserting
<1>7. waiting \in Servers(Nowhere, m, d, Same) /\ waiting.buffer = buffer
  <2>1. TRUE \in BOOLEAN
    OBVIOUS
  <2>2. waiting.buffer = sv.buffer
    BY <1>5 DEF ScheduleFlush, Servers, ServerValues
  <2> QED BY <1>5, <2>1, <2>2, ScheduleFlushIs
<1>8. stop # 0 => later \in Servers(Nowhere, m, d, Same)
  <2> HIDE DEF waiting
  <2>1. later = [waiting EXCEPT !.buffer = From(buffer, stop + 1)]
    BY <1>7
  <2>2. stop \in 0..Len(buffer)
    BY DEF buffer, old
  <2>3. stop # 0 => stop + 1 \in 1..(Len(buffer) + 1)
    BY <1>2, <2>2
  <2>4. stop # 0 => From(buffer, stop + 1) \in Seq(OutEvents)
    BY <1>2, <2>3, FromIs
  <2>5. stop # 0 => [waiting EXCEPT !.buffer = From(buffer, stop + 1)] \in Servers(Nowhere, m, d, Same)
    BY <1>7, <2>4, NotInserting
  <2> QED BY <2>1, <2>5
<1>9. stop # 0 => kept \in Servers(Nowhere, m, d, Same)
  <2>1. kept = [sv EXCEPT !.buffer = From(buffer, stop)]
    BY <1>5
  <2>2. stop \in 0..Len(buffer)
    BY DEF buffer, old
  <2>3. stop # 0 => stop \in 1..(Len(buffer) + 1)
    BY <1>2, <2>2
  <2>4. stop # 0 => From(buffer, stop) \in Seq(OutEvents)
    BY <1>2, <2>3, FromIs
  <2>5. stop # 0 => [sv EXCEPT !.buffer = From(buffer, stop)] \in Servers(Nowhere, m, d, Same)
    BY <1>5, <2>4, NotInserting
  <2> QED BY <2>1, <2>5
<1>10. IsToggle(event) =>
         after \in Servers(Nowhere, m, d, Same) /\ stop + 1 \in Nat /\ stop + 1 <= Len(after.buffer) + 1
  <2> SUFFICES ASSUME IsToggle(event)
               PROVE  after \in Servers(Nowhere, m, d, Same) /\ stop + 1 \in Nat /\ stop + 1 <= Len(after.buffer) + 1
    OBVIOUS
  <2>1. event.key \in VirtualKeys
    BY DEF IsToggle
  <2>2. stop \in 0..Len(buffer) /\ stop \in Int /\ Nowhere \in Int
    BY DEF buffer, old, Nowhere
  <2>3. inserting \in Servers(stop, m, d, Same)
    <3>1. Fits(stop, sv.buffer)
      BY <1>5, <2>2 DEF Fits
    <3> QED BY <1>5, <2>2, <3>1, SetInsertAt
  <2> HIDE DEF inserting
  <2>4. toggled \in Servers(stop, m, d, Same)
    BY <2>1, <2>3, SetVirtualKeyStateIs DEF ToggleVirtualKey
  <2> HIDE DEF toggled
  <2>5. toggled.buffer \in Seq(OutEvents) /\ Fits(stop, toggled.buffer)
    BY <2>4, ServerFields
  <2>6. stop \in 0..Len(toggled.buffer)
    BY <1>2, <2>2, <2>5 DEF Fits, Nowhere
  <2>7. after \in Servers(Nowhere, m, d, Same)
    <3>1. Fits(Nowhere, toggled.buffer)
      BY DEF Fits
    <3> QED BY <2>2, <2>4, <3>1, SetInsertAt
  <2>8. after.buffer = toggled.buffer
    BY <2>4 DEF Servers, ServerValues
  <2> QED BY <2>5, <2>6, <2>7, <2>8
<1> HIDE DEF over, later, after, kept
<1>11. \A s \in Servers(Nowhere, m, d, Same) : [sv |-> s, next |-> 0] \in Flushings(m, d)
  <2>1. ASSUME NEW s \in Servers(Nowhere, m, d, Same) PROVE 0 <= Len(s.buffer) + 1
    BY ServerFields
  <2> QED BY <2>1 DEF Flushings
<1>12. IsToggle(event) => [sv |-> after, next |-> stop + 1] \in Flushings(m, d)
  BY <1>10 DEF Flushings
<1> HIDE DEF event
<1> QED BY <1>4, <1>6, <1>8, <1>9, <1>11, <1>12

LEMMA FlushOnIs ==
  ASSUME NEW m, NEW d, NEW f \in Flushings(m, d), NEW toggles
  PROVE  FlushOn(f, toggles) \in Flushings(m, d)
<1> DEFINE buffer == f.sv.buffer
           positions == {i \in f.next..Len(buffer) : Stops(f.sv, buffer[i], toggles)}
           stop == FirstOf(positions)
<1>1. f.sv \in Servers(Nowhere, m, d, Same) /\ f.next \in Nat
  BY DEF Flushings
<1>2. buffer \in Seq(OutEvents) /\ Len(buffer) \in Nat
  BY <1>1, ServerFields
<1>3. CASE f.next = 0
  BY <1>3 DEF FlushOn
<1>4. CASE f.next # 0
  <2>1. FlushOn(f, toggles) = FlushUntil(f, stop)
    BY <1>4 DEF FlushOn
  <2>2. positions \in SUBSET (1..Len(buffer)) /\ \A i \in positions : i >= f.next
    BY <1>1, <1>2, <1>4
  <2> HIDE DEF positions
  <2>3. stop \in 0..Len(buffer) /\ (stop = 0 \/ stop >= f.next)
    <3> HIDE DEF buffer
    <3>1. stop \in 0..Len(buffer) /\ (positions = {} => stop = 0) /\ (positions # {} => stop \in positions)
      BY <1>2, <2>2, FirstOfIs
    <3> QED BY <2>2, <3>1
  <2> HIDE DEF stop
  <2> QED BY <1>4, <2>1, <2>3, FlushUntilIs
<1> QED BY <1>3, <1>4

Flushed(sv) == FoldLeft(FlushOn, [sv |-> sv, next |-> 1], [i \in 1..(MaxToggles + 1) |-> i - 1])

LEMMA FlushedStays ==
  ASSUME NEW sv, NEW S, NEW E,
         [sv |-> sv, next |-> 1] \in S, [i \in 1..(MaxToggles + 1) |-> i - 1] \in Seq(E),
         \A x \in S : \A e \in E : FlushOn(x, e) \in S
  PROVE  Flushed(sv) \in S
<1> DEFINE seq == [i \in 1..(MaxToggles + 1) |-> i - 1]
           n == Len(seq)
           base == [sv |-> sv, next |-> 1]
           Op(x, e) == FlushOn(x, e)
           G == [i \in 1..n |-> [x \in S |-> Op(x, seq[i])]]
           Is(f) == f = [s \in SUBSET (1..n) |->
                           IF s = {} THEN base ELSE Op(f[s \ {Max(s)}], seq[Max(s)])]
<1>0. seq \in Seq(E)
  OBVIOUS
<1> HIDE DEF seq
<1>1. n \in Nat /\ DOMAIN seq = 1..n /\ \A i \in 1..n : seq[i] \in E
  BY <1>0
<1>2. \A i \in 1..n : \A x \in S : G[i][x] = Op(x, seq[i]) /\ G[i][x] \in S
  <2>1. \A x \in S : \A e \in E : Op(x, e) \in S
    OBVIOUS
  <2> HIDE DEF Op
  <2> QED BY <1>1, <2>1
<1>3. Flushed(sv) = (CHOOSE f : Is(f))[1..n]
  BY <1>1 DEF Flushed, seq, FoldLeft, MapThenFoldSet
<1>4. base \in S
  OBVIOUS
<1> HIDE DEF G, Op, base
<1>5. \E f : Is(f)
  <2>1. PICK f : FoldsIn(f, n, S, base, G)
    BY <1>1, <1>2, <1>4, FoldIn
  <2>2. Is(f)
    BY <1>2, <2>1 DEF FoldsIn
  <2> QED BY <2>2
<1>6. ASSUME NEW f, Is(f) PROVE f[1..n] \in S
  <2>1. f[{}] = base
    BY <1>6
  <2>2. ASSUME NEW k \in 1..n PROVE f[1..k] = Op(f[1..(k - 1)], seq[k])
    <3>1. /\ 1..k \in SUBSET (1..n) /\ 1..k # {} /\ Max(1..k) = k
          /\ (1..k) \ {Max(1..k)} = 1..(k - 1)
      BY <1>1, FoldStep
    <3>2. f[1..k] = Op(f[(1..k) \ {Max(1..k)}], seq[Max(1..k)])
      BY <1>6, <3>1
    <3> QED BY <3>1, <3>2
  <2>3. ASSUME NEW k \in 1..n, f[1..(k - 1)] \in S PROVE f[1..k] \in S
    <3>1. Op(f[1..(k - 1)], seq[k]) \in S
      BY <1>2, <2>3
    <3> QED BY <2>2, <3>1
  <2> QED BY <1>1, <1>4, <2>1, <2>3, FoldStays
<1> HIDE DEF Is
<1> QED BY <1>3, <1>5, <1>6

LEMMA FlushAllIs ==
  ASSUME NEW m, NEW d, NEW sv \in Servers(Nowhere, m, d, Same)
  PROVE  FlushAll(sv) \in Servers(Nowhere, m, d, Same)
<1>1. [sv |-> sv, next |-> 1] \in Flushings(m, d)
  <2>1. 1 <= Len(sv.buffer) + 1
    BY ServerFields
  <2> QED BY <2>1 DEF Flushings
<1>2. [i \in 1..(MaxToggles + 1) |-> i - 1] \in Seq(Int)
  BY DEF MaxToggles
<1>3. \A f \in Flushings(m, d) : \A e \in Int : FlushOn(f, e) \in Flushings(m, d)
  BY FlushOnIs
<1>4. Flushed(sv) \in Flushings(m, d)
  BY <1>1, <1>2, <1>3, FlushedStays
<1>5. FlushAll(sv) = Flushed(sv).sv
  BY DEF FlushAll, Flushed
<1> QED BY <1>4, <1>5 DEF Flushings

LEMMA FlushSendBufferIs ==
  ASSUME NEW m, NEW d, NEW sv \in Servers(Nowhere, m, d, Same)
  PROVE  /\ FlushSendBuffer(sv) \in Servers(Nowhere, m, d, Same)
         /\ FlushUnlessScheduled(sv) \in Servers(Nowhere, m, d, Same)
<1>1. FALSE \in BOOLEAN /\ (FALSE => FALSE)
  OBVIOUS
<1>2. [sv EXCEPT !.flush = FALSE, !.delayed = FALSE] \in Servers(Nowhere, m, d, Same)
  BY <1>1, SetFlush
<1>3. FlushSendBuffer(sv) \in Servers(Nowhere, m, d, Same)
  BY <1>2, FlushAllIs DEF FlushSendBuffer
<1> QED BY <1>3 DEF FlushUnlessScheduled

-----------------------------------------------------------------------------
(* Contexts, device filters and a new configuration. *)

LEMMA SetActiveContextsIs ==
  ASSUME NEW m, NEW d, NEW sv \in Servers(Nowhere, m, d, Same), NEW indices \in Seq(Nat)
  PROVE  SetActiveContexts(sv, indices) \in Servers(Nowhere, m, d, Same)
<1> DEFINE stages == sv.stages
           elapsed == sv.elapsed
           result == StagesSetActiveContexts(stages, indices, elapsed)
           a == [sv EXCEPT !.clientContexts = indices]
           resultStages == result.stages
           b == [a EXCEPT !.stages = resultStages]
           output == result.output
           c == SendKeySequence(b, output)
<1>1. Learned(stages, sv.virtualDown, Same) /\ elapsed \in 0..MaxTimeout
  BY ServerFields
<1>2. SetActiveContexts(sv, indices) = FlushUnlessScheduled(c)
  BY DEF SetActiveContexts, StagesBecome
<1> HIDE DEF stages, elapsed
<1>3. /\ resultStages \in Seq(AnyKnown) /\ Learned(resultStages, sv.virtualDown, Same)
      /\ output \in Seq(OutEvents)
  BY <1>1, ActivatedLearn
<1> HIDE DEF result
<1>4. a.virtualDown = sv.virtualDown
  BY DEF Servers, ServerValues
<1>5. a \in Servers(Nowhere, m, d, Same)
  BY SetClientContexts
<1> HIDE DEF a, resultStages, output
<1>6. b \in Servers(Nowhere, m, d, Same)
  BY <1>3, <1>4, <1>5, SetStages
<1> HIDE DEF b
<1>7. c \in Servers(Nowhere, m, d, Same)
  BY <1>3, <1>6, SendKeySequenceIs
<1> HIDE DEF c
<1> QED BY <1>2, <1>7, FlushSendBufferIs

LEMMA EvaluateFiltersIs ==
  ASSUME NEW m, NEW d, NEW sv \in Servers(Nowhere, m, d, Same)
  PROVE  EvaluateFilters(sv) \in Servers(Nowhere, m, d, Same)
<1> DEFINE stages == StagesEvaluateDeviceFilters(sv.stages, sv.devices)
           a == [sv EXCEPT !.stages = stages]
           b == SetActiveContexts(a, sv.clientContexts)
<1>1. /\ sv.stages = << >> \/ sv.stages \in Seq(AnyStage(sv.virtualDown))
      /\ sv.virtualDown \in SUBSET VirtualKeys /\ sv.devices \in {<< >>, DeviceNames} /\ sv.clientContexts \in Seq(Nat)
  BY ServerFields, SameIs
<1>2. EvaluateFilters(sv) \in {sv, b}
  BY DEF EvaluateFilters
<1>3. stages \in Seq(AnyKnown) /\ Learned(stages, sv.virtualDown, Same)
  <2> DEFINE down == sv.virtualDown
  <2>1. << >> \in Seq(AnyStage(down))
    OBVIOUS
  <2>2. stages \in Seq(AnyStage(down))
    BY <1>1, <2>1, StagesEvaluateDeviceFiltersIs
  <2> HIDE DEF stages, down
  <2> QED BY <1>1, <2>2, AlikeStages, SameIs DEF down
<1> HIDE DEF stages
<1>4. a \in Servers(Nowhere, m, d, Same)
  BY <1>3, SetStages
<1> HIDE DEF a
<1>5. b \in Servers(Nowhere, m, d, Same)
  BY <1>1, <1>4, SetActiveContextsIs
<1> QED BY <1>2, <1>5

\* What the client is told before the reset no longer counts.
LEMMA ResetIs ==
  ASSUME NEW m, NEW d, NEW sv \in Servers(Nowhere, m, d, Same), NEW stages \in Seq(AnyStage({}))
  PROVE  \E n \in Nat : /\ Reset(sv, stages) \in Servers(Nowhere, n, {}, Same)
                        /\ ResetConfiguration(sv, stages) \in Servers(Nowhere, n, {}, Same)
<1> DEFINE a == FlushSendBuffer(ReleaseAllKeys(sv))
           n == Len(a.told)
           b == Restart(a, stages)
<1>1. a \in Servers(Nowhere, m, d, Same)
  BY ReleaseAllKeysIs, FlushSendBufferIs
<1>2. Reset(sv, stages) = b /\ ResetConfiguration(sv, stages) = EvaluateFilters(b)
  BY DEF Reset, ResetConfiguration
<1> HIDE DEF a
<1>3. n \in Nat
  BY <1>1, ServerFields
<1>4. b \in Servers(Nowhere, n, {}, Same)
  BY <1>1, RestartIs
<1> HIDE DEF b, n
<1>5. EvaluateFilters(b) \in Servers(Nowhere, n, {}, Same)
  BY <1>4, EvaluateFiltersIs
<1> QED BY <1>2, <1>3, <1>4, <1>5

-----------------------------------------------------------------------------
(* The input of the devices: no stage learns of a virtual key. *)

DeviceEvents == {event \in SeqEvents : event.key \notin VirtualKeys}

LEMMA OutcomeIs ==
  ASSUME NEW m, NEW d, NEW sv \in Servers(Nowhere, m, d, Same), NEW event \in SeqEvents,
         NEW updated, updated.stages \in Seq(AnyKnown), updated.output \in Seq(OutEvents),
         Learned(updated.stages, sv.virtualDown, Same)
  PROVE  Outcome(sv, event, updated) \in Servers(Nowhere, m, d, Same)
<1> DEFINE a == Translated(sv, event, updated)
           output == updated.output
           b == FlushSendBuffer(ReleaseAllKeys(a))
           e == Exit(b)
           h == HandleOutput(a, output)
<1>1. Outcome(sv, event, updated) \in {e, h}
  BY DEF Outcome
<1>2. a \in Servers(Nowhere, m, d, Same) /\ output \in Seq(OutEvents)
  BY TranslatedIs
<1> HIDE DEF a, output
<1>3. b \in Servers(Nowhere, m, d, Same)
  BY <1>2, ReleaseAllKeysIs, FlushSendBufferIs
<1> HIDE DEF b
<1>4. e \in Servers(Nowhere, m, d, Same)
  BY <1>3, ExitIs
<1>5. h \in Servers(Nowhere, m, d, Same)
  BY <1>2, HandleOutputIs
<1> HIDE DEF e, h
<1> QED BY <1>1, <1>4, <1>5

LEMMA UpdateServerIs ==
  ASSUME NEW m, NEW d, NEW sv \in Servers(Nowhere, m, d, Same), NEW event \in DeviceEvents, NEW device \in Int
  PROVE  UpdateServer(sv, event, device) \in Servers(Nowhere, m, d, Same)
<1> DEFINE stages == sv.stages
           elapsed == sv.elapsed
           updated == UpdateStages(stages, event, device, elapsed)
<1>1. Learned(stages, sv.virtualDown, Same) /\ elapsed \in 0..MaxTimeout
  BY ServerFields
<1>2. UpdateServer(sv, event, device) = Outcome(sv, event, updated)
  BY DEF UpdateServer
<1> HIDE DEF stages, elapsed
<1>3. event \in SeqEvents /\ event.key \notin VirtualKeys /\ Plain(event) /\ Teaches(event, Same, Same)
  BY TeachesNothing DEF DeviceEvents, Plain
<1>4. /\ updated.stages \in Seq(AnyKnown) /\ Learned(updated.stages, sv.virtualDown, Same)
      /\ updated.output \in Seq(OutEvents)
  BY <1>1, <1>3, UpdatedLearn
<1> HIDE DEF updated
<1> QED BY <1>2, <1>3, <1>4, OutcomeIs

LEMMA CollectNextKeyIs ==
  ASSUME NEW m, NEW d, NEW sv \in Servers(Nowhere, m, d, Same), NEW event, event.key \in DeviceKeys
  PROVE  CollectNextKey(sv, event) \in Servers(Nowhere, m, d, Same)
<1> DEFINE keys == sv.nextKeys
           more == IF Contains(keys, event.key) THEN keys ELSE Append(keys, event.key)
           a == [sv EXCEPT !.nextKeys = more]
           message == [type |-> "next_key_info", keys |-> keys]
           b == [sv EXCEPT !.told = @ \o <<message>>]
           c == [b EXCEPT !.nextKeys = << >>]
           e == [c EXCEPT !.nextKeyRequested = FALSE]
<1>1. keys \in Seq(DeviceKeys) /\ sv \in ServerValues /\ sv.told \in Seq(Messages)
  BY ServerFields
<1>2. a \in Servers(Nowhere, m, d, Same)
  <2>1. more \in Seq(DeviceKeys)
    BY <1>1
  <2> HIDE DEF more
  <2> QED BY <2>1, SetNextKeys
<1>3. <<message>> \in Seq(OtherMessages) /\ message \in OtherMessages
  BY <1>1 DEF OtherMessages
<1>4. b \in Servers(Nowhere, m, d, Same)
  <2> HIDE DEF message
  <2> QED BY <1>3, AddOthers
<1>5. Tell(sv, message) = b
  <2> HIDE DEF message
  <2>1. Append(sv.told, message) = sv.told \o <<message>>
    BY <1>1
  <2>2. Tell(sv, message) = [sv EXCEPT !.told = Append(sv.told, message)]
    BY DEF Tell
  <2> QED BY <2>1, <2>2
<1>6. CollectNextKey(sv, event) \in {a, sv, [Tell(sv, message) EXCEPT !.nextKeys = << >>, !.nextKeyRequested = FALSE]}
  BY DEF CollectNextKey
<1>7. [b EXCEPT !.nextKeys = << >>, !.nextKeyRequested = FALSE] = e
  OBVIOUS
<1> HIDE DEF a, b
<1>8. c \in Servers(Nowhere, m, d, Same)
  <2>1. << >> \in Seq(DeviceKeys)
    OBVIOUS
  <2> QED BY <1>4, <2>1, SetNextKeys
<1> HIDE DEF c
<1>9. e \in Servers(Nowhere, m, d, Same)
  BY <1>8, SetNextKeyRequested
<1> HIDE DEF e
<1> QED BY <1>2, <1>5, <1>6, <1>7, <1>9

DeviceIns == {in \in Ins : in.event.key \notin VirtualKeys}

LEMMA InputsForIs ==
  ASSUME NEW event \in DeviceEvents
  PROVE  InputsFor(event) \in Seq(DeviceIns)
<1> DEFINE e1 == Before(event)
           e2 == Itself(event)
           e3 == Before(Press(event.key))
           e4 == Itself(Press(event.key))
<1>1. e1 \in DeviceIns /\ e2 \in DeviceIns
  BY InsAre DEF DeviceEvents, DeviceIns, Before, Itself
<1>2. e3 \in DeviceIns /\ e4 \in DeviceIns
  <2>1. event.key \in SeqKeys
    BY DEF DeviceEvents, SeqEvents, EventsOf
  <2>2. Press(event.key) \in SeqEvents
    BY <2>1, PressIs DEF SeqEvents
  <2>3. Press(event.key).key \notin VirtualKeys
    BY DEF Press, Event, DeviceEvents
  <2> QED BY <2>2, <2>3, InsAre DEF DeviceIns, Before, Itself
<1>3. InputsFor(event) \in {<<e1, e3, e4, e2>>, <<e1, e2>>}
  BY DEF InputsFor
<1> HIDE DEF e1, e2, e3, e4
<1>4. <<e1, e2>> \in Seq(DeviceIns)
  BY <1>1
<1>5. <<e1, e3, e4, e2>> \in Seq(DeviceIns)
  BY <1>1, <1>2
<1> QED BY <1>3, <1>4, <1>5

\* The input is neither a repeat to ignore nor asked for.
TranslatedInputs(sv, event, device) ==
  FoldLeft(LAMBDA s, in : IF IsInput(s, in)
                          THEN UpdateServer(WithoutEnded(s, in), InputFor(s, in), device) ELSE s,
           sv, InputsFor(event))

LEMMA TranslatedInputsStays ==
  ASSUME NEW sv, NEW event, NEW device, NEW S, NEW E,
         sv \in S, InputsFor(event) \in Seq(E),
         \A x \in S : \A e \in E : (IF IsInput(x, e) THEN UpdateServer(WithoutEnded(x, e), InputFor(x, e), device) ELSE x) \in S
  PROVE  TranslatedInputs(sv, event, device) \in S
<1> DEFINE seq == InputsFor(event)
           n == Len(seq)
           Op(x, e) == (IF IsInput(x, e) THEN UpdateServer(WithoutEnded(x, e), InputFor(x, e), device) ELSE x)
           G == [i \in 1..n |-> [x \in S |-> Op(x, seq[i])]]
           Is(f) == f = [s \in SUBSET (1..n) |->
                           IF s = {} THEN sv ELSE Op(f[s \ {Max(s)}], seq[Max(s)])]
<1>0. seq \in Seq(E)
  OBVIOUS
<1> HIDE DEF seq
<1>1. n \in Nat /\ DOMAIN seq = 1..n /\ \A i \in 1..n : seq[i] \in E
  BY <1>0
<1>2. \A i \in 1..n : \A x \in S : G[i][x] = Op(x, seq[i]) /\ G[i][x] \in S
  <2>1. \A x \in S : \A e \in E : Op(x, e) \in S
    OBVIOUS
  <2> HIDE DEF Op
  <2> QED BY <1>1, <2>1
<1>3. TranslatedInputs(sv, event, device) = (CHOOSE f : Is(f))[1..n]
  BY <1>1 DEF TranslatedInputs, seq, FoldLeft, MapThenFoldSet
<1>4. sv \in S
  OBVIOUS
<1> HIDE DEF G, Op
<1>5. \E f : Is(f)
  <2>1. PICK f : FoldsIn(f, n, S, sv, G)
    BY <1>1, <1>2, <1>4, FoldIn
  <2>2. Is(f)
    BY <1>2, <2>1 DEF FoldsIn
  <2> QED BY <2>2
<1>6. ASSUME NEW f, Is(f) PROVE f[1..n] \in S
  <2>1. f[{}] = sv
    BY <1>6
  <2>2. ASSUME NEW k \in 1..n PROVE f[1..k] = Op(f[1..(k - 1)], seq[k])
    <3>1. /\ 1..k \in SUBSET (1..n) /\ 1..k # {} /\ Max(1..k) = k
          /\ (1..k) \ {Max(1..k)} = 1..(k - 1)
      BY <1>1, FoldStep
    <3>2. f[1..k] = Op(f[(1..k) \ {Max(1..k)}], seq[Max(1..k)])
      BY <1>6, <3>1
    <3> QED BY <3>1, <3>2
  <2>3. ASSUME NEW k \in 1..n, f[1..(k - 1)] \in S PROVE f[1..k] \in S
    <3>1. Op(f[1..(k - 1)], seq[k]) \in S
      BY <1>2, <2>3
    <3> QED BY <2>2, <3>1
  <2> QED BY <1>1, <1>4, <2>1, <2>3, FoldStays
<1> HIDE DEF Is
<1> QED BY <1>3, <1>5, <1>6

LEMMA TranslateInputIs ==
  ASSUME NEW m, NEW d, NEW sv \in Servers(Nowhere, m, d, Same), NEW event \in DeviceEvents, NEW device \in Int
  PROVE  TranslateInput(sv, event, device) \in Servers(Nowhere, m, d, Same)
<1>1. TranslatedInputs(sv, event, device) \in Servers(Nowhere, m, d, Same)
  <2>1. ASSUME NEW x \in Servers(Nowhere, m, d, Same), NEW e \in DeviceIns
        PROVE  (IF IsInput(x, e) THEN UpdateServer(WithoutEnded(x, e), InputFor(x, e), device) ELSE x)
                 \in Servers(Nowhere, m, d, Same)
    <3> DEFINE y == WithoutEnded(x, e)
               z == UpdateServer(y, InputFor(x, e), device)
    <3>1. y \in Servers(Nowhere, m, d, Same) /\ InputFor(x, e) \in DeviceEvents
      <4>1. e \in Ins /\ e.event.key \notin VirtualKeys
        BY DEF DeviceIns
      <4> QED BY <4>1, InputForIs DEF DeviceEvents
    <3> HIDE DEF y
    <3>2. z \in Servers(Nowhere, m, d, Same)
      BY <3>1, UpdateServerIs
    <3>3. (IF IsInput(x, e) THEN UpdateServer(WithoutEnded(x, e), InputFor(x, e), device) ELSE x) \in {x, z}
      BY DEF y
    <3> HIDE DEF z
    <3> QED BY <3>2, <3>3
  <2>2. InputsFor(event) \in Seq(DeviceIns)
    BY InputsForIs
  <2> QED BY <2>1, <2>2, TranslatedInputsStays
<1>2. IsAskedFor(sv, event) => CollectNextKey(sv, event) \in Servers(Nowhere, m, d, Same)
  BY CollectNextKeyIs DEF IsAskedFor
<1>3. TranslateInput(sv, event, device) =
        IF SameEvent(event, sv.lastKey) /\ (sv.flush \/ TimeoutPending(sv)) THEN sv
        ELSE IF IsAskedFor(sv, event) THEN CollectNextKey(sv, event)
        ELSE TranslatedInputs(sv, event, device)
  BY Zenon DEF TranslateInput, TranslatedInputs
<1> QED BY <1>1, <1>2, <1>3

-----------------------------------------------------------------------------
(* The messages of the client and the steps of the main loop. *)

LEMMA OnDirectivesIs ==
  ASSUME NEW m, NEW d, NEW sv \in Servers(Nowhere, m, d, Same), NEW disable
  PROVE  OnDirectives(sv, disable) \in Servers(Nowhere, m, d, Same)
<1> DEFINE stages == Map(sv.stages, LAMBDA st : [st EXCEPT !.toggle = FALSE])
<1>1. stages \in Seq(AnyKnown) /\ Learned(stages, sv.virtualDown, Same)
  <2> DEFINE down == sv.virtualDown
             old == sv.stages
  <2>1. down \in SUBSET VirtualKeys /\ (old = << >> \/ old \in Seq(AnyStage(down)))
    BY ServerFields, SameIs
  <2>2. << >> \in Seq(AnyStage(down))
    OBVIOUS
  <2>3. stages \in Seq(AnyStage(down))
    <3> HIDE DEF down, old
    <3> QED BY <2>1, <2>2, TogglesDisabled DEF old
  <2> HIDE DEF stages, down
  <2> QED BY <2>1, <2>3, AlikeStages, SameIs DEF down
<1>2. OnDirectives(sv, disable) \in {sv, [sv EXCEPT !.stages = stages]}
  BY DEF OnDirectives
<1> HIDE DEF stages
<1> QED BY <1>1, <1>2, SetStages

LEMMA OnSetVirtualKeyStateIs ==
  ASSUME NEW m, NEW d, NEW sv \in Servers(Nowhere, m, d, Same), NEW key \in VirtualKeys, NEW state
  PROVE  OnSetVirtualKeyState(sv, key, state) \in Servers(Nowhere, m, d, Same)
BY SetVirtualKeyStateIs, FlushSendBufferIs DEF OnSetVirtualKeyState

LEMMA OnValidateStateIs ==
  ASSUME NEW m, NEW d, NEW sv \in Servers(Nowhere, m, d, Same), NEW down
  PROVE  OnValidateState(sv, down) \in Servers(Nowhere, m, d, Same)
<1> DEFINE stages == StagesValidateState(sv.stages, down, sv.elapsed)
<1>1. /\ sv.virtualDown \in SUBSET VirtualKeys /\ sv.elapsed \in 0..MaxTimeout
      /\ sv.stages = << >> \/ sv.stages \in Seq(AnyStage(sv.virtualDown))
  BY ServerFields, SameIs
<1>2. stages \in Seq(AnyKnown) /\ Learned(stages, sv.virtualDown, Same)
  <2> DEFINE now == sv.virtualDown
  <2>1. << >> \in Seq(AnyStage(now))
    OBVIOUS
  <2>2. stages \in Seq(AnyStage(now))
    BY <1>1, <2>1, StagesValidateStateIs
  <2> HIDE DEF stages, now
  <2> QED BY <1>1, <2>2, AlikeStages, SameIs DEF now
<1> HIDE DEF stages
<1>3. [sv EXCEPT !.stages = stages] \in Servers(Nowhere, m, d, Same)
  BY <1>2, SetStages
<1>4. OnValidateState(sv, down) = [sv EXCEPT !.stages = stages]
  BY DEF OnValidateState, stages
<1> QED BY <1>3, <1>4

LEMMA OnRequestNextKeyInfoIs ==
  ASSUME NEW m, NEW d, NEW sv \in Servers(Nowhere, m, d, Same)
  PROVE  OnRequestNextKeyInfo(sv) \in Servers(Nowhere, m, d, Same)
<1>1. TRUE \in BOOLEAN
  OBVIOUS
<1> QED BY <1>1, ReleaseAllKeysIs, SetNextKeyRequested DEF OnRequestNextKeyInfo

InjectedInput(sv, sequence) ==
  FoldLeft(LAMBDA s, ev : TranslateInput(s, ev, NoDevice), sv,
           Select(sequence, LAMBDA ev : ev.state \in {"Up", "Down"} /\ ev.key \in DeviceKeys))

LEMMA InjectedInputStays ==
  ASSUME NEW sv, NEW sequence, NEW S, NEW E,
         sv \in S, ElementsAt(sequence, {i \in DOMAIN sequence : sequence[i].state \in {"Up", "Down"} /\ sequence[i].key \in DeviceKeys}) \in Seq(E),
         \A x \in S : \A e \in E : TranslateInput(x, e, NoDevice) \in S
  PROVE  InjectedInput(sv, sequence) \in S
<1> DEFINE seq == ElementsAt(sequence, {i \in DOMAIN sequence : sequence[i].state \in {"Up", "Down"} /\ sequence[i].key \in DeviceKeys})
           n == Len(seq)
           Op(x, e) == TranslateInput(x, e, NoDevice)
           G == [i \in 1..n |-> [x \in S |-> Op(x, seq[i])]]
           Is(f) == f = [s \in SUBSET (1..n) |->
                           IF s = {} THEN sv ELSE Op(f[s \ {Max(s)}], seq[Max(s)])]
<1>0. seq \in Seq(E)
  OBVIOUS
<1> HIDE DEF seq
<1>1. n \in Nat /\ DOMAIN seq = 1..n /\ \A i \in 1..n : seq[i] \in E
  BY <1>0
<1>2. \A i \in 1..n : \A x \in S : G[i][x] = Op(x, seq[i]) /\ G[i][x] \in S
  <2>1. \A x \in S : \A e \in E : Op(x, e) \in S
    OBVIOUS
  <2> HIDE DEF Op
  <2> QED BY <1>1, <2>1
<1>3. InjectedInput(sv, sequence) = (CHOOSE f : Is(f))[1..n]
  BY <1>1 DEF InjectedInput, Select, seq, FoldLeft, MapThenFoldSet
<1>4. sv \in S
  OBVIOUS
<1> HIDE DEF G, Op
<1>5. \E f : Is(f)
  <2>1. PICK f : FoldsIn(f, n, S, sv, G)
    BY <1>1, <1>2, <1>4, FoldIn
  <2>2. Is(f)
    BY <1>2, <2>1 DEF FoldsIn
  <2> QED BY <2>2
<1>6. ASSUME NEW f, Is(f) PROVE f[1..n] \in S
  <2>1. f[{}] = sv
    BY <1>6
  <2>2. ASSUME NEW k \in 1..n PROVE f[1..k] = Op(f[1..(k - 1)], seq[k])
    <3>1. /\ 1..k \in SUBSET (1..n) /\ 1..k # {} /\ Max(1..k) = k
          /\ (1..k) \ {Max(1..k)} = 1..(k - 1)
      BY <1>1, FoldStep
    <3>2. f[1..k] = Op(f[(1..k) \ {Max(1..k)}], seq[Max(1..k)])
      BY <1>6, <3>1
    <3> QED BY <3>1, <3>2
  <2>3. ASSUME NEW k \in 1..n, f[1..(k - 1)] \in S PROVE f[1..k] \in S
    <3>1. Op(f[1..(k - 1)], seq[k]) \in S
      BY <1>2, <2>3
    <3> QED BY <2>2, <3>1
  <2> QED BY <1>1, <1>4, <2>1, <2>3, FoldStays
<1> HIDE DEF Is
<1> QED BY <1>3, <1>5, <1>6

LEMMA OnInjectInputIs ==
  ASSUME NEW m, NEW d, NEW sv \in Servers(Nowhere, m, d, Same), NEW sequence \in Seq(OutEvents)
  PROVE  OnInjectInput(sv, sequence) \in Servers(Nowhere, m, d, Same)
<1> DEFINE positions == {i \in DOMAIN sequence : sequence[i].state \in {"Up", "Down"} /\ sequence[i].key \in DeviceKeys}
<1>1. ElementsAt(sequence, positions) \in Seq(DeviceEvents)
  <2>1. \A i \in DOMAIN sequence : sequence[i] \in OutEvents
    OBVIOUS
  <2>2. \A i \in DOMAIN sequence : i \in positions => sequence[i] \in DeviceEvents
    <3>1. DeviceKeys \cap VirtualKeys = {}
      BY KeyKindsAreDisjoint DEF DeviceKeys
    <3> QED BY <2>1, <3>1 DEF OutEvents, DeviceEvents, SeqEvents, EventsOf, SeqKeys
  <2> HIDE DEF positions
  <2> QED BY <2>2, ElementsAtIs
<1>2. \A x \in Servers(Nowhere, m, d, Same) : \A e \in DeviceEvents : TranslateInput(x, e, NoDevice) \in Servers(Nowhere, m, d, Same)
  BY TranslateInputIs DEF NoDevice
<1>3. InjectedInput(sv, sequence) \in Servers(Nowhere, m, d, Same)
  BY <1>1, <1>2, InjectedInputStays
<1>4. OnInjectInput(sv, sequence) = ScheduleFlush(InjectedInput(sv, sequence), FALSE)
  BY DEF OnInjectInput, InjectedInput
<1>5. FALSE \in BOOLEAN
  OBVIOUS
<1> QED BY <1>3, <1>4, <1>5, ScheduleFlushIs

LEMMA OnInjectOutputIs ==
  ASSUME NEW m, NEW d, NEW sv \in Servers(Nowhere, m, d, Same), NEW sequence \in Seq(OutEvents)
  PROVE  OnInjectOutput(sv, sequence) \in Servers(Nowhere, m, d, Same)
<1>1. FALSE \in BOOLEAN
  OBVIOUS
<1> QED BY <1>1, SendKeySequenceIs, ScheduleFlushIs DEF OnInjectOutput

LEMMA SetDeviceDescsIs ==
  ASSUME NEW m, NEW d, NEW sv \in Servers(Nowhere, m, d, Same)
  PROVE  SetDeviceDescs(sv, DeviceNames) \in Servers(Nowhere, m, d, Same)
BY SetServerDevices, EvaluateFiltersIs DEF SetDeviceDescs

LEMMA ExpireTimeoutIs ==
  ASSUME NEW m, NEW d, NEW sv \in Servers(Nowhere, m, d, Same)
  PROVE  ExpireTimeout(sv) \in Servers(Nowhere, m, d, Same)
<1> DEFINE e == sv.timeout.value
           values == 0..MaxTimeout
           event == InputTimeout(e)
<1>1. event \in SeqEvents
  <2>1. "timeout" \in SeqKeys /\ "Up" \in KeyStates
    BY DEF SeqKeys, KeyStates
  <2>2. e \in values
    BY ServerFields DEF EventsOf
  <2>3. event = [key |-> "timeout", state |-> "Up", value |-> e]
    BY DEF InputTimeout, Timeout
  <2>4. SeqEvents = [key : SeqKeys, state : KeyStates, value : values]
    BY DEF SeqEvents, EventsOf
  <2> HIDE DEF e, values
  <2> QED BY <2>1, <2>2, <2>3, <2>4
<1> HIDE DEF e
<1>1a. Plain(event) /\ Teaches(event, Same, Same)
  <2>1. event.key = "timeout" /\ "timeout" \notin VirtualKeys
    BY KeyKindsAreDisjoint DEF InputTimeout, Timeout
  <2> HIDE DEF event
  <2> QED BY <2>1, TeachesNothing DEF Plain
<1>2. UpdateWithOwn(CancelTimeout(sv), event) \in Servers(Nowhere, m, d, Same)
  <2> HIDE DEF event
  <2> QED BY <1>1, <1>1a, CancelTimeoutIs, UpdateWithOwnIs
<1> QED BY <1>2 DEF ExpireTimeout, e

-----------------------------------------------------------------------------
(* What the system has down: the keys of devices. *)

LEMMA SystemDownStays ==
  ASSUME NEW down, NEW events, NEW S, NEW E,
         down \in S, events \in Seq(E),
         \A x \in S : \A e \in E : (IF e.key \in WheelKeys THEN x ELSE IF e.state = "Up" THEN x \ {e.key} ELSE x \cup {e.key}) \in S
  PROVE  SystemDown(down, events) \in S
<1> DEFINE n == Len(events)
           Op(x, e) == (IF e.key \in WheelKeys THEN x ELSE IF e.state = "Up" THEN x \ {e.key} ELSE x \cup {e.key})
           G == [i \in 1..n |-> [x \in S |-> Op(x, events[i])]]
           Is(f) == f = [s \in SUBSET (1..n) |->
                           IF s = {} THEN down ELSE Op(f[s \ {Max(s)}], events[Max(s)])]
<1>1. n \in Nat /\ DOMAIN events = 1..n /\ \A i \in 1..n : events[i] \in E
  OBVIOUS
<1>2. \A i \in 1..n : \A x \in S : G[i][x] = Op(x, events[i]) /\ G[i][x] \in S
  <2>1. \A x \in S : \A e \in E : Op(x, e) \in S
    OBVIOUS
  <2> HIDE DEF Op
  <2> QED BY <1>1, <2>1
<1>3. SystemDown(down, events) = (CHOOSE f : Is(f))[1..n]
  BY <1>1 DEF SystemDown, FoldLeft, MapThenFoldSet
<1>4. down \in S
  OBVIOUS
<1> HIDE DEF G, Op
<1>5. \E f : Is(f)
  <2>1. PICK f : FoldsIn(f, n, S, down, G)
    BY <1>1, <1>2, <1>4, FoldIn
  <2>2. Is(f)
    BY <1>2, <2>1 DEF FoldsIn
  <2> QED BY <2>2
<1>6. ASSUME NEW f, Is(f) PROVE f[1..n] \in S
  <2>1. f[{}] = down
    BY <1>6
  <2>2. ASSUME NEW k \in 1..n PROVE f[1..k] = Op(f[1..(k - 1)], events[k])
    <3>1. /\ 1..k \in SUBSET (1..n) /\ 1..k # {} /\ Max(1..k) = k
          /\ (1..k) \ {Max(1..k)} = 1..(k - 1)
      BY <1>1, FoldStep
    <3>2. f[1..k] = Op(f[(1..k) \ {Max(1..k)}], events[Max(1..k)])
      BY <1>6, <3>1
    <3> QED BY <3>1, <3>2
  <2>3. ASSUME NEW k \in 1..n, f[1..(k - 1)] \in S PROVE f[1..k] \in S
    <3>1. Op(f[1..(k - 1)], events[k]) \in S
      BY <1>2, <2>3
    <3> QED BY <2>2, <3>1
  <2> QED BY <1>1, <1>4, <2>1, <2>3, FoldStays
<1> HIDE DEF Is
<1> QED BY <1>3, <1>5, <1>6

LEMMA SystemDownIs ==
  ASSUME NEW down \in SUBSET DeviceKeys, NEW events \in Seq(Sendable)
  PROVE  SystemDown(down, events) \in SUBSET DeviceKeys
<1>1. ASSUME NEW x \in SUBSET DeviceKeys, NEW e \in Sendable
      PROVE  (IF e.key \in WheelKeys THEN x ELSE IF e.state = "Up" THEN x \ {e.key} ELSE x \cup {e.key})
               \in SUBSET DeviceKeys
  BY DEF Sendable, EventsOf
<1> QED BY <1>1, SystemDownStays

-----------------------------------------------------------------------------
(***************************************************************************)
(* The process. Between two steps nothing was sent and told, and the       *)
(* server is one of what no message has been told about yet.               *)
(***************************************************************************)
Idle == server.told = << >> /\ server.sent = << >>
ServerTypes == server \in Servers(Nowhere, 0, server.virtualDown, Same) /\ Idle
ProcessTypes ==
  /\ client \in {"nothing", "configuration", "contexts"} /\ grabbed \in BOOLEAN
  /\ pressed \subseteq Keys /\ repeating \subseteq pressed
  /\ systemDown \subseteq DeviceKeys

\* What is kept, and what holds of a step with the server sv in between: it
\* tells of the changes from the virtual keys d, beginning with message m + 1.
LoopInv == ServerTypes /\ ProcessTypes
Ends(m, d, sv) == /\ sv \in Servers(Nowhere, m, d, Same)
                  /\ server'.virtualDown = sv.virtualDown /\ server'.exit = sv.exit
                  /\ told' = sv.told /\ sent' = sv.sent

LEMMA DeliveredIs ==
  ASSUME NEW m, NEW d, NEW sv \in Servers(Nowhere, m, d, Same)
  PROVE  /\ Delivered(sv) \in Servers(Nowhere, 0, sv.virtualDown, Same)
         /\ Delivered(sv).told = << >> /\ Delivered(sv).sent = << >>
         /\ Delivered(sv).virtualDown = sv.virtualDown /\ Delivered(sv).exit = sv.exit
<1> DEFINE a == [sv EXCEPT !.sent = << >>]
           b == [a EXCEPT !.elapsed = 0]
           c == WithKeys(b, << >>, sv.virtualDown)
           down == sv.virtualDown
           nothing == << >>
<1>1. a \in Servers(Nowhere, m, d, Same)
  <2>1. << >> \in Seq(Sendable)
    OBVIOUS
  <2> QED BY <2>1, SetSent
<1>2. b \in Servers(Nowhere, m, d, Same)
  <2> HIDE DEF a
  <2>1. 0 \in 0..MaxTimeout
    BY DEF MaxTimeout
  <2> QED BY <1>1, <2>1, SetServerElapsed
<1>3. Delivered(sv) = c
  BY DEF Delivered, WithKeys, Servers, ServerValues
<1>4. /\ c.told = << >> /\ c.sent = << >> /\ c.virtualDown = down /\ c.exit = sv.exit
      /\ b.stages = sv.stages
  BY DEF WithKeys, Servers, ServerValues
<1>5. down \in SUBSET VirtualKeys /\ b.exit \in BOOLEAN /\ Learned(b.stages, down, Same)
  BY <1>2, <1>4, ServerFields
<1>6. nothing \in Seq(Messages) /\ Len(nothing) = 0
  OBVIOUS
<1> HIDE DEF b, down, nothing
<1>7. IsTold(0, down, nothing, down, b.exit)
  BY <1>6, MirrorsNothing DEF IsTold
<1>8. WithKeys(b, nothing, down) \in Servers(Nowhere, 0, down, Same)
  BY <1>2, <1>5, <1>6, <1>7, SetVirtualDown
<1> QED BY <1>3, <1>4, <1>8 DEF nothing, down

LEMMA BecomesIs ==
  ASSUME LoopInv, NEW m, NEW d, NEW sv \in Servers(Nowhere, m, d, Same), Becomes(sv)
  PROVE  ServerTypes' /\ systemDown' \subseteq DeviceKeys /\ Ends(m, d, sv)
<1>1. server' = Delivered(sv) /\ sent' = sv.sent /\ told' = sv.told /\ systemDown' = SystemDown(systemDown, sv.sent)
  BY DEF Becomes
<1>2. /\ server' \in Servers(Nowhere, 0, sv.virtualDown, Same) /\ server'.told = << >> /\ server'.sent = << >>
      /\ server'.virtualDown = sv.virtualDown /\ server'.exit = sv.exit
  BY <1>1, DeliveredIs
<1>3. sv.sent \in Seq(Sendable) /\ systemDown \in SUBSET DeviceKeys
  BY ServerFields DEF LoopInv, ProcessTypes
<1>4. systemDown' \in SUBSET DeviceKeys
  BY <1>1, <1>3, SystemDownIs
<1> QED BY <1>1, <1>2, <1>4 DEF ServerTypes, Idle, Ends

LEMMA AtIs ==
  ASSUME LoopInv, NEW elapsed \in Elapsed
  PROVE  At(elapsed) \in Servers(Nowhere, 0, server.virtualDown, Same)
<1>1. elapsed \in 0..MaxTimeout
  BY InputIsOfDevices
<1> QED BY <1>1, SetServerElapsed DEF At, LoopInv, ServerTypes

LEMMA InputsAre ==
  ASSUME NEW input \in Inputs
  PROVE  input = NoInput \/ (input.event \in DeviceEvents /\ input.device \in Int)
<1>1. ASSUME NEW k \in Keys PROVE Press(k[2]) \in DeviceEvents /\ Release(k[2]) \in DeviceEvents /\ k[1] \in Int
  <2>1. k[1] \in 0..63 /\ k[2] \in SeqKeys
    BY InputIsOfDevices DEF SeqKeys
  <2>2. k[2] \notin VirtualKeys
    <3>1. DeviceKeys \cap VirtualKeys = {}
      BY KeyKindsAreDisjoint DEF DeviceKeys
    <3> QED BY <3>1, InputIsOfDevices
  <2>3. Press(k[2]) \in SeqEvents /\ Release(k[2]) \in SeqEvents
    BY <2>1, PressIs DEF SeqEvents
  <2>4. Press(k[2]).key = k[2] /\ Release(k[2]).key = k[2]
    BY DEF Press, Release, Event
  <2> QED BY <2>1, <2>2, <2>3, <2>4 DEF DeviceEvents
<1>2. SUFFICES ASSUME input # NoInput PROVE input.event \in DeviceEvents /\ input.device \in Int
  OBVIOUS
<1>3. input \in [event : {Press(k[2]) : k \in Keys} \cup {Release(k[2]) : k \in Keys}, device : {k[1] : k \in Keys}]
  BY <1>2 DEF Inputs
<1>4. input.event \in {Press(k[2]) : k \in Keys} \cup {Release(k[2]) : k \in Keys} /\ input.device \in {k[1] : k \in Keys}
  BY <1>3
<1> QED BY <1>1, <1>4

\* An iteration of the loop.
LEMMA IterationIs ==
  ASSUME LoopInv, NEW input \in Inputs, NEW elapsed \in Elapsed, NEW due, Iteration(input, elapsed, due)
  PROVE  /\ ServerTypes' /\ systemDown' \subseteq DeviceKeys /\ UNCHANGED connection
         /\ \E sv : Ends(0, server.virtualDown, sv)
<1> DEFINE d == server.virtualDown
           a == Read(At(elapsed), input)
           b == Expire(a)
           c == Flush(b, due)
<1>1. a \in Servers(Nowhere, 0, d, Same)
  <2> DEFINE s == At(elapsed)
  <2>1. s \in Servers(Nowhere, 0, d, Same)
    BY AtIs
  <2> HIDE DEF s, d
  <2>2. CASE input = NoInput
    BY <2>1, <2>2 DEF Read, s
  <2>3. CASE input # NoInput
    <3>1. TranslateInput(s, input.event, input.device) \in Servers(Nowhere, 0, d, Same)
      BY <2>1, <2>3, InputsAre, TranslateInputIs
    <3> QED BY <2>3, <3>1 DEF Read, s
  <2> QED BY <2>2, <2>3
<1>2. Becomes(c) /\ UNCHANGED connection
  BY DEF Iteration
<1> HIDE DEF a, d
<1>3. b \in Servers(Nowhere, 0, d, Same)
  BY <1>1, ExpireTimeoutIs DEF Expire
<1> HIDE DEF b
<1>4. c \in Servers(Nowhere, 0, d, Same)
  BY <1>3, FlushSendBufferIs DEF Flush
<1> HIDE DEF c
<1> QED BY <1>2, <1>4, BecomesIs DEF d

\* What is pressed is of the devices, and only that repeats.
LEMMA PressedIs ==
  ASSUME LoopInv, NEW input,
         PressKey(input) \/ ReleaseKey(input) \/ RepeatKey(input) \/ TurnWheel(input) \/ UNCHANGED keyState
  PROVE  pressed' \subseteq Keys /\ repeating' \subseteq pressed'
<1>1. pressed \subseteq Keys /\ repeating \subseteq pressed /\ OthersRepeating(input.device) \subseteq repeating
  BY DEF LoopInv, ProcessTypes, OthersRepeating
<1>2. CASE PressKey(input)
  BY <1>1, <1>2 DEF PressKey
<1>3. CASE ReleaseKey(input)
  <2>1. \A k \in OthersRepeating(input.device) : k # Pressed(input)
    BY DEF OthersRepeating, Pressed
  <2> QED BY <1>1, <1>3, <2>1 DEF ReleaseKey
<1>4. CASE RepeatKey(input) \/ TurnWheel(input) \/ UNCHANGED keyState
  BY <1>1, <1>4 DEF RepeatKey, TurnWheel, keyState
<1> QED BY <1>2, <1>3, <1>4

-----------------------------------------------------------------------------
(* Every action keeps the invariant and tells of the virtual keys. *)

\* The client is told of what changes, or the step is a reset.
TellsAll ==
  \/ \E sv : Ends(0, server.virtualDown, sv)
  \/ client' # "contexts" /\ \E n \in Nat : \E sv : Ends(n, {}, sv)

LEMMA MainLoopIs ==
  ASSUME LoopInv, MainLoop
  PROVE  LoopInv' /\ TellsAll
<1>1. PICK input \in Inputs, elapsed \in Elapsed, due \in MayBeDue :
        /\ \/ PressKey(input) \/ ReleaseKey(input) \/ RepeatKey(input) \/ TurnWheel(input)
           \/ Wake(input, elapsed, due)
        /\ Iteration(input, elapsed, due)
  BY DEF MainLoop
<1>2. /\ ServerTypes' /\ systemDown' \subseteq DeviceKeys /\ UNCHANGED connection
      /\ \E sv : Ends(0, server.virtualDown, sv)
  BY <1>1, IterationIs
<1>3. Wake(input, elapsed, due) => UNCHANGED keyState
  BY DEF Wake
<1>4. pressed' \subseteq Keys /\ repeating' \subseteq pressed'
  BY <1>1, <1>3, PressedIs
<1> QED BY <1>2, <1>4 DEF LoopInv, ProcessTypes, TellsAll, connection

\* A step with the server sv in between that leaves the rest as it is, or
\* changes it to something of its type.
LEMMA MessageIs ==
  ASSUME LoopInv, NEW sv \in Servers(Nowhere, 0, server.virtualDown, Same), Becomes(sv),
         client' \in {"nothing", "configuration", "contexts"}, grabbed' \in BOOLEAN,
         pressed' \subseteq Keys, repeating' \subseteq pressed'
  PROVE  LoopInv' /\ TellsAll
<1>1. ServerTypes' /\ systemDown' \subseteq DeviceKeys /\ Ends(0, server.virtualDown, sv)
  BY BecomesIs
<1> QED BY <1>1 DEF LoopInv, ProcessTypes, TellsAll

LEMMA UnchangedTypes ==
  ASSUME LoopInv
  PROVE  /\ client \in {"nothing", "configuration", "contexts"} /\ grabbed \in BOOLEAN
         /\ pressed \subseteq Keys /\ repeating \subseteq pressed
         /\ server \in Servers(Nowhere, 0, server.virtualDown, Same)
BY DEF LoopInv, ProcessTypes, ServerTypes

LEMMA ConfigureIs ==
  ASSUME LoopInv, Configure
  PROVE  LoopInv' /\ TellsAll
<1>1. PICK configuration \in Configurations, elapsed \in Elapsed :
        Becomes(OnDirectives(OnConfiguration(At(elapsed), NewStages(configuration)), ToggleDisabled))
  BY DEF Configure
<1> DEFINE a == OnConfiguration(At(elapsed), NewStages(configuration))
           b == OnDirectives(a, ToggleDisabled)
<1>2. At(elapsed) \in Servers(Nowhere, 0, server.virtualDown, Same)
  BY AtIs
<1>3. PICK n \in Nat : a \in Servers(Nowhere, n, {}, Same)
  BY <1>2, NewStagesAre, ResetIs DEF OnConfiguration
<1> HIDE DEF a
<1>4. b \in Servers(Nowhere, n, {}, Same)
  BY <1>3, OnDirectivesIs
<1>5. Becomes(b)
  BY <1>1 DEF a
<1> HIDE DEF b
<1>6. ServerTypes' /\ systemDown' \subseteq DeviceKeys /\ Ends(n, {}, b)
  BY <1>4, <1>5, BecomesIs
<1>7. client' = "configuration" /\ UNCHANGED <<grabbed, reconnected, keyState>>
  BY DEF Configure
<1> QED BY <1>6, <1>7, UnchangedTypes DEF LoopInv, ProcessTypes, TellsAll, keyState

LEMMA ActiveContextsIs ==
  ASSUME LoopInv, ActiveContexts
  PROVE  LoopInv' /\ TellsAll
<1>1. PICK indices \in IF client = "contexts" THEN ContextChanges ELSE {InitialContexts},
           elapsed \in Elapsed :
        Becomes(OnActiveContexts(At(elapsed), indices))
  BY DEF ActiveContexts
<1> DEFINE sv == OnActiveContexts(At(elapsed), indices)
<1>2. At(elapsed) \in Servers(Nowhere, 0, server.virtualDown, Same)
  BY AtIs
<1>3. indices \in Seq(Nat)
  BY ClientSendsWhatFits
<1>4. sv \in Servers(Nowhere, 0, server.virtualDown, Same)
  BY <1>2, <1>3, SetActiveContextsIs DEF OnActiveContexts
<1> HIDE DEF sv
<1>5. client' = "contexts" /\ UNCHANGED <<grabbed, reconnected, keyState>>
  BY DEF ActiveContexts
<1>6. Becomes(sv)
  BY <1>1 DEF sv
<1> QED BY <1>4, <1>5, <1>6, UnchangedTypes, MessageIs DEF keyState

LEMMA GrabIs ==
  ASSUME LoopInv, Grab
  PROVE  LoopInv' /\ TellsAll
<1> DEFINE a == [server EXCEPT !.virtualDevice = TRUE]
           sv == SetDeviceDescs(a, DeviceNames)
<1>1. a \in Servers(Nowhere, 0, server.virtualDown, Same)
  BY UnchangedTypes, SetVirtualDevice
<1>2. Becomes(sv) /\ grabbed' = TRUE /\ UNCHANGED <<client, reconnected, keyState>>
  BY DEF Grab
<1> HIDE DEF a
<1>3. sv \in Servers(Nowhere, 0, server.virtualDown, Same)
  BY <1>1, SetDeviceDescsIs
<1> HIDE DEF sv
<1> QED BY <1>2, <1>3, UnchangedTypes, MessageIs DEF keyState

\* The messages that only concern the server.
LEMMA ServerMessageIs ==
  ASSUME LoopInv, NEW sv \in Servers(Nowhere, 0, server.virtualDown, Same), Message(sv)
  PROVE  LoopInv' /\ TellsAll
BY UnchangedTypes, MessageIs DEF Message, connection, keyState

LEMMA SetVirtualKeyIs ==
  ASSUME LoopInv, SetVirtualKey
  PROVE  LoopInv' /\ TellsAll
<1>1. PICK key \in SettableKeys, state \in {"Up", "Down", "Not"}, elapsed \in Elapsed :
        Message(OnSetVirtualKeyState(At(elapsed), key, state))
  BY DEF SetVirtualKey
<1>2. key \in VirtualKeys
  BY ClientSendsWhatFits
<1>3. OnSetVirtualKeyState(At(elapsed), key, state) \in Servers(Nowhere, 0, server.virtualDown, Same)
  BY <1>2, AtIs, OnSetVirtualKeyStateIs
<1> QED BY <1>1, <1>3, ServerMessageIs

LEMMA InjectInputIs ==
  ASSUME LoopInv, InjectInput
  PROVE  LoopInv' /\ TellsAll
<1>1. PICK sequence \in InjectedSequences, elapsed \in Elapsed : Message(OnInjectInput(At(elapsed), sequence))
  BY DEF InjectInput
<1>2. sequence \in Seq(OutEvents)
  BY ClientSendsWhatFits DEF OutEvents
<1>3. OnInjectInput(At(elapsed), sequence) \in Servers(Nowhere, 0, server.virtualDown, Same)
  BY <1>2, AtIs, OnInjectInputIs
<1> QED BY <1>1, <1>3, ServerMessageIs

LEMMA InjectOutputIs ==
  ASSUME LoopInv, InjectOutput
  PROVE  LoopInv' /\ TellsAll
<1>1. PICK sequence \in InjectedSequences : Message(OnInjectOutput(server, sequence))
  BY DEF InjectOutput
<1>2. sequence \in Seq(OutEvents)
  BY ClientSendsWhatFits DEF OutEvents
<1>3. OnInjectOutput(server, sequence) \in Servers(Nowhere, 0, server.virtualDown, Same)
  BY <1>2, UnchangedTypes, OnInjectOutputIs
<1> QED BY <1>1, <1>3, ServerMessageIs

LEMMA RequestNextKeyInfoIs ==
  ASSUME LoopInv, RequestNextKeyInfo
  PROVE  LoopInv' /\ TellsAll
<1>1. OnRequestNextKeyInfo(server) \in Servers(Nowhere, 0, server.virtualDown, Same)
  BY UnchangedTypes, OnRequestNextKeyInfoIs
<1>2. Message(OnRequestNextKeyInfo(server))
  BY DEF RequestNextKeyInfo
<1> QED BY <1>1, <1>2, ServerMessageIs

LEMMA ValidateIs ==
  ASSUME LoopInv, Validate
  PROVE  LoopInv' /\ TellsAll
<1>1. PICK down \in SUBSET pressed, elapsed \in Elapsed :
        /\ pressed' = down /\ repeating' = repeating \cap down
        /\ Becomes(OnValidateState(At(elapsed), {k[2] : k \in down}))
  BY DEF Validate
<1> DEFINE keys == {k[2] : k \in down}
           sv == OnValidateState(At(elapsed), keys)
<1>2. sv \in Servers(Nowhere, 0, server.virtualDown, Same)
  <2> HIDE DEF keys
  <2> QED BY AtIs, OnValidateStateIs
<1>3. Becomes(sv)
  BY <1>1
<1> HIDE DEF sv
<1>4. pressed' \subseteq Keys /\ repeating' \subseteq pressed'
  BY <1>1, UnchangedTypes
<1>5. UNCHANGED connection
  BY DEF Validate
<1> QED BY <1>2, <1>3, <1>4, <1>5, UnchangedTypes, MessageIs DEF connection

LEMMA DisconnectIs ==
  ASSUME LoopInv, Disconnect
  PROVE  LoopInv' /\ TellsAll
<1> DEFINE sv == Reset(server, << >>)
           a == Delivered(sv)
<1>1. /\ server' = [a EXCEPT !.virtualDevice = FALSE] /\ sent' = sv.sent /\ told' = sv.told
      /\ client' = "nothing" /\ grabbed' = FALSE /\ pressed' = {} /\ repeating' = {} /\ systemDown' = {}
  BY DEF Disconnect
<1>2. PICK n \in Nat : sv \in Servers(Nowhere, n, {}, Same)
  <2>1. << >> \in Seq(AnyStage({}))
    OBVIOUS
  <2> QED BY <2>1, UnchangedTypes, ResetIs
<1> HIDE DEF sv
<1>3. /\ a \in Servers(Nowhere, 0, sv.virtualDown, Same) /\ a.told = << >> /\ a.sent = << >>
      /\ a.virtualDown = sv.virtualDown /\ a.exit = sv.exit
  BY <1>2, DeliveredIs
<1> HIDE DEF a
<1>4. server' \in Servers(Nowhere, 0, sv.virtualDown, Same)
  BY <1>1, <1>3, SetVirtualDevice
<1>5. /\ server'.told = << >> /\ server'.sent = << >>
      /\ server'.virtualDown = sv.virtualDown /\ server'.exit = sv.exit
  BY <1>1, <1>3 DEF Servers, ServerValues
<1>6. Ends(n, {}, sv)
  BY <1>1, <1>2, <1>5 DEF Ends
<1>7. ServerTypes'
  BY <1>4, <1>5 DEF ServerTypes, Idle
<1> QED BY <1>1, <1>6, <1>7 DEF LoopInv, ProcessTypes, TellsAll

LEMMA NextIs ==
  ASSUME LoopInv, Next
  PROVE  LoopInv' /\ TellsAll
BY MainLoopIs, ConfigureIs, ActiveContextsIs, GrabIs, DisconnectIs, SetVirtualKeyIs, InjectInputIs,
   InjectOutputIs, RequestNextKeyInfoIs, ValidateIs DEF Next

LEMMA LoopInvInit == Init => LoopInv
<1> SUFFICES ASSUME Init PROVE LoopInv
  OBVIOUS
<1> DEFINE sv == NewServer
<1>1. /\ server = sv /\ client = "nothing" /\ grabbed = FALSE /\ pressed = {} /\ repeating = {} /\ systemDown = {}
  BY DEF Init
<1>2. sv \in ServerValues
  <2>1. /\ << >> \in Seq(AnyKnown) /\ << >> \in Seq(Nat) /\ << >> \in Seq(OutEvents) /\ Nowhere \in Int
        /\ << >> \in Seq(DeviceKeys) /\ << >> \in Seq(Sendable) /\ << >> \in Seq(Messages)
        /\ NoEvent \in EventsOf(AllKeys) /\ {} \in SUBSET VirtualKeys /\ << >> \in {<< >>, DeviceNames}
    BY NoEventIsAny DEF Nowhere
  <2> DEFINE values == 0..MaxTimeout
  <2>2. 0 \in values
    BY DEF MaxTimeout
  <2>3. ServerValues = [ stages : Seq(AnyKnown), clientContexts : Seq(Nat), buffer : Seq(OutEvents), insertAt : Int,
    flush : BOOLEAN, delayed : BOOLEAN, timeout : EventsOf(AllKeys), virtualDown : SUBSET VirtualKeys,
    lastKey : EventsOf(AllKeys), devices : {<< >>, DeviceNames}, nextKeyRequested : BOOLEAN,
    nextKeys : Seq(DeviceKeys), virtualDevice : BOOLEAN, elapsed : values,
    sent : Seq(Sendable), told : Seq(Messages), exit : BOOLEAN ]
    BY DEF ServerValues
  <2> HIDE DEF values
  <2> QED BY <2>1, <2>2, <2>3 DEF NewServer
<1>3. /\ sv.insertAt = Nowhere /\ sv.delayed = FALSE /\ sv.told = << >> /\ sv.sent = << >> /\ sv.virtualDown = {}
      /\ Learned(sv.stages, {}, Same)
  BY DEF NewServer, Learned
<1> HIDE DEF sv
<1>4. IsTold(0, {}, << >>, {}, sv.exit)
  <2>1. << >> \in Seq(Messages) /\ Len(<< >>) = 0
    OBVIOUS
  <2> DEFINE nothing == << >>
             none == {}
  <2>2. nothing \in Seq(Messages) /\ Len(nothing) = 0
    OBVIOUS
  <2> HIDE DEF nothing, none
  <2>3. IsTold(0, none, nothing, none, sv.exit)
    BY <2>2, MirrorsNothing DEF IsTold
  <2> QED BY <2>3 DEF nothing, none
<1>5. sv \in Servers(Nowhere, 0, {}, Same)
  BY <1>2, <1>3, <1>4 DEF Servers, Fits
<1> QED BY <1>1, <1>3, <1>5 DEF LoopInv, ServerTypes, Idle, ProcessTypes

LEMMA StutterIs ==
  ASSUME LoopInv, UNCHANGED vars
  PROVE  LoopInv'
BY DEF LoopInv, ServerTypes, Idle, ProcessTypes, vars, connection, keyState

-----------------------------------------------------------------------------
(* What the invariant and the messages of a step mean. *)

LEMMA EventTypeIs ==
  SeqEvents \subseteq EventType /\ OutEvents \subseteq EventType
<1>1. SeqKeys \subseteq AllKeys \ {"ContextActive"} /\ OutputKeys \subseteq AllKeys \ {"ContextActive"}
  BY KeyKindsAreDisjoint DEF SeqKeys, OutputKeys, AllKeys, DeviceKeys
<1> QED BY <1>1, EventsWiden DEF SeqEvents, OutEvents, EventType

LEMMA LoopInvTypes ==
  ASSUME LoopInv
  PROVE  TypeOK
<1>1. server \in Servers(Nowhere, 0, server.virtualDown, Same)
  BY DEF LoopInv, ServerTypes
<1>2. /\ server.flush \in BOOLEAN /\ server.delayed \in {FALSE, server.flush}
      /\ server.exit \in BOOLEAN /\ server.insertAt = Nowhere
      /\ server.virtualDown \subseteq VirtualKeys
  <2> DEFINE sv == server
             flush == sv.flush
             delayed == sv.delayed
  <2>1. sv \in Servers(Nowhere, 0, sv.virtualDown, Same)
    BY <1>1
  <2> HIDE DEF sv
  <2>2. /\ flush \in BOOLEAN /\ delayed \in BOOLEAN /\ (delayed => flush)
        /\ sv.exit \in BOOLEAN /\ sv.insertAt = Nowhere /\ sv.virtualDown \in SUBSET VirtualKeys
    BY <2>1, ServerFields
  <2> HIDE DEF flush, delayed
  <2>3. delayed \in {FALSE, flush}
    BY <2>2
  <2> QED BY <2>2, <2>3 DEF sv, flush, delayed
<1>3. Elements(server.buffer) \subseteq EventType
  <2>1. server.buffer \in Seq(OutEvents)
    BY <1>1, ServerFields
  <2> QED BY <2>1, EventTypeIs DEF Elements
<1>4. ASSUME NEW st \in Elements(Stages)
      PROVE  Elements(st.buf) \cup Elements(st.seq) \cup Elements(st.history) \subseteq EventType
  <2>1. server.stages \in Seq(AnyKnown)
    BY <1>1, ServerFields
  <2>2. st \in AnyKnown
    BY <2>1 DEF Elements, Stages
  <2>3. PICK n \in DOMAIN Contexts, W \in SUBSET VirtualKeys : st \in StageOf(n, Both(W))
    BY <2>2 DEF AnyKnown, AnyStage
  <2>4. st.buf \in Seq(OutEvents) /\ st.seq \in Seq(SeqEvents) /\ st.history \in Seq(SeqEvents)
    BY <2>3, StageFields
  <2>5. Elements(st.buf) \subseteq OutEvents /\ Elements(st.seq) \subseteq SeqEvents
        /\ Elements(st.history) \subseteq SeqEvents
    BY <2>4 DEF Elements
  <2> QED BY <2>5, EventTypeIs
<1> QED BY <1>2, <1>3, <1>4 DEF TypeOK, LoopInv, ProcessTypes

LEMMA LoopInvKnows ==
  ASSUME LoopInv
  PROVE  StagesKnowVirtualKeys
<1> DEFINE sv == server
           down == sv.virtualDown
           stages == sv.stages
<1>1. down \in SUBSET VirtualKeys /\ (stages = << >> \/ stages \in Seq(AnyStage(down)))
  <2>1. sv \in Servers(Nowhere, 0, down, Same)
    BY DEF LoopInv, ServerTypes
  <2>2. down \in SUBSET VirtualKeys /\ Learned(stages, down, Same)
    BY <2>1, ServerFields
  <2> QED BY <2>2, SameIs
<1> HIDE DEF sv, down, stages
<1>2. ASSUME NEW st \in AnyStage(down), NEW key \in VirtualKeys
      PROVE  key \in down <=> IsPhysicallyPressed(st, key)
  <2>1. Knows(st.seq, down) /\ st.seq \in Seq(SeqEvents)
    BY AnyStageIs
  <2>2. IsPhysicallyPressed(st, key) <=> Holds(st.seq, key)
    BY <2>1, PressedIsHeld
  <2>3. key \in down <=> Holds(st.seq, key)
    BY <2>1 DEF Knows
  <2> QED BY <2>2, <2>3
<1> DEFINE X == AnyStage(down)
<1>3. stages = << >> \/ stages \in Seq(X)
  BY <1>1
<1> HIDE DEF X
<1>4. \A i \in DOMAIN stages : stages[i] \in X
  BY <1>3
<1> QED BY <1>2, <1>4 DEF StagesKnowVirtualKeys, Stages, X, sv, down, stages

\* A chain of virtual keys that every message leads on in is what the messages
\* mirror.
LEMMA MirroredIs ==
  ASSUME NEW messages \in Seq(Messages), NEW a,
         \A i \in 1..Len(messages) : a[i] = MirrorStep(a[i - 1], messages[i])
  PROVE  Mirrored(a[0], messages) = a[Len(messages)]
<1> DEFINE n == Len(messages)
           base == a[0]
           U == base \cup VirtualKeys
           S == SUBSET U
           Op(x, e) == IF e.type # "virtual_key_state" THEN x
                       ELSE IF e.state = "Up" THEN x \ {e.key} ELSE x \cup {e.key}
           G == [i \in 1..n |-> [x \in S |-> Op(x, messages[i])]]
           Is(f) == f = [s \in SUBSET (1..n) |->
                           IF s = {} THEN base ELSE Op(f[s \ {Max(s)}], messages[Max(s)])]
<1>1. n \in Nat /\ DOMAIN messages = 1..n /\ \A i \in 1..n : messages[i] \in Messages
  OBVIOUS
<1>2. \A x \in S : \A e \in Messages : Op(x, e) \in S
  <2>1. ASSUME NEW x \in S, NEW e \in Messages PROVE Op(x, e) \in S
    <3>1. e.type = "virtual_key_state" => e.key \in U
      BY DEF Messages, KeyMessages, OtherMessages
    <3> HIDE DEF U
    <3> QED BY <3>1
  <2> QED BY <2>1
<1>3. Mirrored(base, messages) = (CHOOSE f : Is(f))[1..n]
  BY <1>1 DEF Mirrored, FoldLeft, MapThenFoldSet
<1>4. base \in S
  OBVIOUS
<1>5. \A i \in 1..n : a[i] = Op(a[i - 1], messages[i])
  BY DEF MirrorStep
<1> HIDE DEF Op, base, S, U
<1>6. \A i \in 1..n : \A x \in S : G[i][x] = Op(x, messages[i]) /\ G[i][x] \in S
  BY <1>1, <1>2
<1> HIDE DEF G
<1>7. \E f : Is(f)
  <2>1. PICK f : FoldsIn(f, n, S, base, G)
    BY <1>1, <1>4, <1>6, FoldIn
  <2>2. Is(f)
    BY <1>6, <2>1 DEF FoldsIn
  <2> QED BY <2>2
<1>8. ASSUME NEW f, Is(f) PROVE f[1..n] = a[n]
  <2> DEFINE b == [k \in 0..n |-> f[1..k]]
             T == [k \in 0..n |-> {a[k]}]
  <2>1. 1..0 = {} /\ 0 \in 0..n /\ n \in 0..n /\ \A k \in 1..n : k \in 0..n /\ k - 1 \in 0..n
    BY <1>1
  <2>2. \A k \in 0..n : b[k] = f[1..k] /\ T[k] = {a[k]}
    OBVIOUS
  <2> HIDE DEF b, T, n
  <2>3. b[0] \in T[0]
    <3>1. f[{}] = base
      BY <1>8
    <3> QED BY <2>1, <2>2, <3>1 DEF base
  <2>4. ASSUME NEW k \in 1..n, b[k - 1] \in T[k - 1] PROVE b[k] \in T[k]
    <3>1. /\ 1..k \in SUBSET (1..n) /\ 1..k # {} /\ Max(1..k) = k
          /\ (1..k) \ {Max(1..k)} = 1..(k - 1)
      BY <1>1, FoldStep
    <3>2. f[1..k] = Op(f[(1..k) \ {Max(1..k)}], messages[Max(1..k)])
      BY <1>8, <3>1
    <3>3. b[k - 1] = a[k - 1] /\ b[k - 1] = f[1..(k - 1)]
      BY <2>1, <2>2, <2>4
    <3>4. f[1..k] = Op(a[k - 1], messages[k])
      BY <3>1, <3>2, <3>3
    <3>5. b[k] = a[k]
      BY <1>5, <2>1, <2>2, <3>4
    <3> QED BY <2>1, <2>2, <3>5
  <2>5. \A k \in 0..n : b[k] \in T[k]
    BY <1>1, <2>3, <2>4, ChainStays
  <2> QED BY <2>1, <2>2, <2>5
<1> HIDE DEF Is
<1>9. Mirrored(base, messages) = a[n]
  BY <1>3, <1>7, <1>8
<1> QED BY <1>9 DEF base

\* What follows the first `m' elements of a sequence.
LEMMA RestIs ==
  ASSUME NEW X, NEW s \in Seq(X), NEW m \in 0..Len(s)
  PROVE  /\ From(s, m + 1) \in Seq(X)
         /\ Len(From(s, m + 1)) = Len(s) - m
         /\ \A i \in 1..(Len(s) - m) : From(s, m + 1)[i] = s[m + i]
<1>1. Len(s) \in Nat /\ m \in Nat /\ m <= Len(s)
  OBVIOUS
<1>2. SubSeq(s, m + 1, Len(s)) \in Seq(X)
  BY <1>1
<1>3. Len(SubSeq(s, m + 1, Len(s))) = Len(s) - m
  BY <1>1
<1>4. ASSUME NEW i \in 1..(Len(s) - m) PROVE SubSeq(s, m + 1, Len(s))[i] = s[m + i]
  BY <1>1
<1> QED BY <1>2, <1>3, <1>4 DEF From

LEMMA MirrorsMirrored ==
  ASSUME NEW messages \in Seq(Messages), NEW m, NEW d, NEW down, Mirrors(m, d, messages, down)
  PROVE  m \in 0..Len(messages) /\ down = Mirrored(d, From(messages, m + 1))
<1>1. PICK a : /\ a[m] = d /\ a[Len(messages)] = down
               /\ \A i \in (m + 1)..Len(messages) : a[i] = MirrorStep(a[i - 1], messages[i])
  BY DEF Mirrors
<1>2. m \in 0..Len(messages)
  BY DEF Mirrors
<1> DEFINE n == Len(messages)
           rest == From(messages, m + 1)
           k == n - m
           b == [i \in 0..k |-> a[m + i]]
<1>3. n \in Nat /\ m \in Nat /\ k \in Nat /\ m + k = n /\ m + 0 = m
  BY <1>2
<1>4. rest \in Seq(Messages) /\ Len(rest) = k /\ \A i \in 1..k : rest[i] = messages[m + i]
  BY <1>2, RestIs
<1>5. \A i \in 0..k : b[i] = a[m + i]
  OBVIOUS
<1> HIDE DEF rest, b, k, n
<1>6. ASSUME NEW i \in 1..k PROVE b[i] = MirrorStep(b[i - 1], rest[i])
  <2>1. i \in 0..k /\ i - 1 \in 0..k /\ m + (i - 1) = (m + i) - 1 /\ m + i \in (m + 1)..n
    BY <1>3
  <2>2. a[m + i] = MirrorStep(a[(m + i) - 1], messages[m + i])
    BY <1>1, <2>1 DEF n
  <2> QED BY <1>4, <1>5, <2>1, <2>2
<1>7. Mirrored(b[0], rest) = b[Len(rest)]
  BY <1>4, <1>6, MirroredIs
<1>8. 0 \in 0..k /\ k \in 0..k
  BY <1>3
<1>9. b[0] = d /\ b[k] = down
  BY <1>1, <1>3, <1>5, <1>8 DEF n
<1> QED BY <1>2, <1>4, <1>7, <1>9 DEF rest

LEMMA IsToldMirrored ==
  ASSUME NEW messages \in Seq(Messages), NEW m, NEW d, NEW down, NEW exit, IsTold(m, d, messages, down, exit)
  PROVE  \/ m \in 0..Len(messages) /\ down = Mirrored(d, From(messages, m + 1))
         \/ exit /\ \E n \in 0..Len(messages) : down = Mirrored({}, From(messages, n + 1))
BY MirrorsMirrored DEF IsTold

\* The client is told of every virtual key that changes in a step.
StepIsTold ==
  \/ server'.virtualDown = Mirrored(server.virtualDown, told')
  \/ /\ server'.exit \/ client' # "contexts"
     /\ \E n \in 0..Len(told') : server'.virtualDown = Mirrored({}, From(told', n + 1))

LEMMA TellsAllMirrored ==
  ASSUME TellsAll
  PROVE  StepIsTold
<1>1. ASSUME NEW m, NEW d, NEW sv, Ends(m, d, sv)
      PROVE  /\ told' \in Seq(Messages)
             /\ \/ m \in 0..Len(told') /\ server'.virtualDown = Mirrored(d, From(told', m + 1))
                \/ /\ server'.exit
                   /\ \E n \in 0..Len(told') : server'.virtualDown = Mirrored({}, From(told', n + 1))
  <2>1. /\ sv \in Servers(Nowhere, m, d, Same) /\ server'.virtualDown = sv.virtualDown
        /\ server'.exit = sv.exit /\ told' = sv.told
    BY <1>1 DEF Ends
  <2>2. sv.told \in Seq(Messages) /\ IsTold(m, d, sv.told, sv.virtualDown, sv.exit)
    BY <2>1, ServerFields
  <2>3. \/ m \in 0..Len(sv.told) /\ sv.virtualDown = Mirrored(d, From(sv.told, m + 1))
        \/ sv.exit /\ \E n \in 0..Len(sv.told) : sv.virtualDown = Mirrored({}, From(sv.told, n + 1))
    BY <2>2, IsToldMirrored
  <2> QED BY <2>1, <2>2, <2>3
<1>2. ASSUME NEW sv, Ends(0, server.virtualDown, sv) PROVE StepIsTold
  <2> DEFINE d == server.virtualDown
  <2>1. /\ told' \in Seq(Messages)
        /\ \/ server'.virtualDown = Mirrored(d, From(told', 0 + 1))
           \/ /\ server'.exit
              /\ \E n \in 0..Len(told') : server'.virtualDown = Mirrored({}, From(told', n + 1))
    <3> HIDE DEF d
    <3>1. Ends(0, d, sv)
      BY <1>2 DEF d
    <3> QED BY <1>1, <3>1
  <2>2. From(told', 0 + 1) = told'
    BY <2>1 DEF From
  <2> QED BY <2>1, <2>2 DEF StepIsTold
<1>3. ASSUME client' # "contexts", NEW m \in Nat, NEW sv, Ends(m, {}, sv) PROVE StepIsTold
  BY <1>1, <1>3 DEF StepIsTold
<1> QED BY <1>2, <1>3 DEF TellsAll

-----------------------------------------------------------------------------
(* The server: main_loop around the ServerState, whatever the keymap is. *)

LEMMA LoopInvHolds == Spec => []LoopInv
<1>1. LoopInv /\ [Next]_vars => LoopInv'
  BY NextIs, StutterIs
<1> QED BY <1>1, LoopInvInit, PTL DEF Spec

\* The values of the server are of their types in every state: no mapping,
\* message or timer puts into a buffer what does not belong there, output is
\* only inserted while a flush toggles a virtual key, only a flush that is
\* scheduled is delayed, what repeats is pressed, and the system only gets
\* keys of a device (TypeOK).
THEOREM ServerTypeCorrect == Spec => []TypeOK
<1>1. LoopInv => TypeOK
  BY LoopInvTypes
<1> QED BY <1>1, LoopInvHolds, PTL

\* The client is told of every virtual key that changes, in order, but of
\* those that a reset forgets (toggle_virtual_key and set_virtual_key_state
\* notify the client whatever the stages make of the change).
THEOREM ClientIsAlwaysTold == Spec => ClientIsTold
<1>1. LoopInv /\ [Next]_vars => [StepIsTold]_vars
  <2>1. LoopInv /\ Next => StepIsTold
    BY NextIs, TellsAllMirrored
  <2> QED BY <2>1
<1>2. Spec => [][StepIsTold]_vars
  BY <1>1, LoopInvHolds, PTL DEF Spec
<1> QED BY <1>2 DEF ClientIsTold, StepIsTold

\* Every stage knows the virtual keys that are down, and no other (a key that
\* is toggled or set goes through all of them, MultiStage::update, and neither
\* a mapping that reapplies its input, a cancelled sequence nor a comparison
\* with the keyboard makes a stage forget one).
THEOREM StagesAlwaysKnow == Spec => []StagesKnowVirtualKeys
<1>1. LoopInv => StagesKnowVirtualKeys
  BY LoopInvKnows
<1> QED BY <1>1, LoopInvHolds, PTL

=============================================================================
