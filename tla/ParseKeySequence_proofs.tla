----------------------- MODULE ParseKeySequence_proofs -----------------------
(***************************************************************************)
(* Theorems about the parser of expressions, for all keys, vocabularies    *)
(* and lengths: its variables have their types, and what an expression     *)
(* presses it releases, however groups, literals, timeouts and keys that   *)
(* must not be pressed follow each other, and whatever was parsed before.  *)
(***************************************************************************)
EXTENDS ParseKeySequence, KeyEvents_proofs

ModKeys == {"Shift", "AltLeft", "AltRight", "Control"}
EventKeys == NamedKeys \cup ActionKeys \cup ModKeys \cup {"timeout", "none"}

ParserType == [sequence : Seq(EventType), buffer : Seq(NamedKeys), pressed : Seq(NamedKeys)]

-----------------------------------------------------------------------------
(***************************************************************************)
(* The types of events and of what the member functions make of a parser.  *)
(***************************************************************************)
LEMMA ModifierKeysAre == ModifierKeys \in Seq(ModKeys) /\ Len(ModifierKeys) = 4 /\ ToSet(ModifierKeys) = ModKeys
<1>1. ModifierKeys \in Seq(ModKeys) /\ Len(ModifierKeys) = 4 /\ DOMAIN ModifierKeys = 1..4
  BY DEF ModifierKeys, ModKeys
<1>2. /\ ModifierKeys[1] = "Shift" /\ ModifierKeys[2] = "AltLeft"
      /\ ModifierKeys[3] = "AltRight" /\ ModifierKeys[4] = "Control"
  BY DEF ModifierKeys
<1>3. \A k : k \in ModKeys <=> \E i \in 1..4 : ModifierKeys[i] = k
  BY <1>2 DEF ModKeys
<1> HIDE DEF ModKeys
<1>4. ToSet(ModifierKeys) = ModKeys
  BY <1>1, <1>3 DEF ToSet
<1> QED BY <1>1, <1>4

LEMMA ShortSets ==
  /\ ToSet(<< >>) = {}
  /\ \A a : ToSet(<<a>>) = {a}
<1>1. DOMAIN << >> = {} /\ \A a : DOMAIN <<a>> = {1} /\ <<a>>[1] = a
  OBVIOUS
<1> QED BY <1>1 DEF ToSet

\* The elements of two sequences, one behind the other.
LEMMA ElementsAppended ==
  ASSUME NEW X, NEW a \in Seq(X), NEW b \in Seq(X)
  PROVE  ToSet(a \o b) = ToSet(a) \cup ToSet(b)
<1> DEFINE c == a \o b
<1>1. /\ c \in Seq(X) /\ Len(c) = Len(a) + Len(b) /\ \A k \in 1..Len(a) : c[k] = a[k]
      /\ \A k \in 1..Len(b) : c[Len(a) + k] = b[k]
  BY Concatenation
<1> HIDE DEF c
<1>2. /\ DOMAIN a = 1..Len(a) /\ DOMAIN b = 1..Len(b) /\ DOMAIN c = 1..Len(c)
      /\ Len(a) \in Nat /\ Len(b) \in Nat
  BY <1>1
<1>3. ASSUME NEW k \in DOMAIN c PROVE c[k] \in ToSet(a) \cup ToSet(b)
  <2>1. k \in 1..Len(a) \/ (k - Len(a) \in 1..Len(b) /\ Len(a) + (k - Len(a)) = k)
    BY <1>1, <1>2
  <2> QED BY <1>1, <1>2, <2>1 DEF ToSet
<1>4. \A k \in DOMAIN a : a[k] \in ToSet(c)
  BY <1>1, <1>2 DEF ToSet
<1>5. ASSUME NEW k \in DOMAIN b PROVE b[k] \in ToSet(c)
  <2>1. Len(a) + k \in DOMAIN c /\ c[Len(a) + k] = b[k]
    BY <1>1, <1>2
  <2> QED BY <2>1 DEF ToSet
<1>6. ToSet(c) = ToSet(a) \cup ToSet(b)
  BY <1>3, <1>4, <1>5 DEF ToSet
<1> QED BY <1>6 DEF c

LEMMA EventTypeIs == EventType = [key : EventKeys, state : KeyStates, value : 0..MaxTimeout]
BY ModifierKeysAre DEF EventType, EventKeys

LEMMA ZeroIsValue == MaxTimeout \in Nat /\ 0 \in 0..MaxTimeout
BY DEF MaxTimeout

LEMMA EventHasType ==
  ASSUME NEW key \in EventKeys, NEW state \in KeyStates
  PROVE  Event(key, state) \in EventType
BY EventTypeIs, ZeroIsValue DEF Event

LEMMA NamedAreEventKeys == NamedKeys \subseteq EventKeys /\ ModKeys \subseteq EventKeys /\ CommandKey \in EventKeys
BY VocabulariesAreTokens DEF EventKeys

LEMMA StatesAre ==
  {"Up", "Down", "Not", "UpAsync", "DownAsync", "NoMightMatch", "OutputOnRelease", "NotTimeout"} \subseteq KeyStates
BY DEF KeyStates

\* Some keys in the same state.
LEMMA EventsAre ==
  ASSUME NEW keys \in Seq(EventKeys), NEW state \in KeyStates
  PROVE  /\ Events(keys, state) \in Seq(EventType) /\ Len(Events(keys, state)) = Len(keys)
         /\ \A i \in 1..Len(keys) : Events(keys, state)[i] = Event(keys[i], state)
<1> DEFINE f == [i \in 1..Len(keys) |-> Event(keys[i], state)]
<1>1. Len(keys) \in Nat /\ DOMAIN keys = 1..Len(keys) /\ \A i \in 1..Len(keys) : keys[i] \in EventKeys
  OBVIOUS
<1>2. f \in [1..Len(keys) -> EventType]
  BY <1>1, EventHasType
<1>3. Events(keys, state) = SubSeq(f, 1, Len(keys))
  BY <1>1 DEF Events, Map
<1>4. \A i \in 1..Len(keys) : f[i] = Event(keys[i], state)
  OBVIOUS
<1> HIDE DEF f
<1>5. f \in Seq(EventType) /\ Len(f) = Len(keys) /\ SubSeq(f, 1, Len(keys)) = f
  BY <1>1, <1>2, MapIs
<1> QED BY <1>3, <1>4, <1>5

\* remove_from_pressed_keys
LEMMA ForgetIs ==
  ASSUME NEW p \in ParserType, NEW keys
  PROVE  \E q \in Seq(NamedKeys) : /\ ToSet(q) = ToSet(p.pressed) \ keys
                                   /\ Forget(p, keys) = [p EXCEPT !.pressed = q]
<1> DEFINE n == Len(p.pressed)
           f == [i \in 1..n |-> IF p.pressed[i] \in keys THEN << >> ELSE <<p.pressed[i]>>]
<1>1. n \in Nat /\ p.pressed \in Seq(NamedKeys) /\ DOMAIN p.pressed = 1..n
      /\ \A i \in 1..n : p.pressed[i] \in NamedKeys
  BY DEF ParserType
<1>2. f \in [1..n -> Seq(NamedKeys)]
  BY <1>1
<1>3. Forget(p, keys) = [p EXCEPT !.pressed = FlattenSeq(SubSeq(f, 1, n))]
  BY <1>1 DEF Forget, Map
<1>4. \A i \in 1..n : f[i] = IF p.pressed[i] \in keys THEN << >> ELSE <<p.pressed[i]>>
  OBVIOUS
<1> HIDE DEF f, n
<1>5. f \in Seq(Seq(NamedKeys)) /\ Len(f) = n /\ SubSeq(f, 1, n) = f
  BY <1>1, <1>2, MapIs
<1> DEFINE q == FlattenSeq(f)
<1>6. q \in Seq(NamedKeys) /\ \A e : e \in ToSet(q) <=> \E i \in 1..n : e \in ToSet(f[i])
  BY <1>5, FlattenElements
<1>7. \A i \in 1..n : \A e : e \in ToSet(f[i]) <=> p.pressed[i] \notin keys /\ e = p.pressed[i]
  BY <1>4, ShortSets
<1> HIDE DEF q
<1>8. ToSet(p.pressed) = {p.pressed[i] : i \in 1..n}
  BY <1>1 DEF ToSet
<1>9. ASSUME NEW e PROVE e \in ToSet(q) <=> e \in ToSet(p.pressed) \ keys
  <2>1. e \in ToSet(q) => \E i \in 1..n : p.pressed[i] \notin keys /\ e = p.pressed[i]
    BY <1>6, <1>7
  <2>2. ASSUME NEW i \in 1..n, p.pressed[i] \notin keys, e = p.pressed[i] PROVE e \in ToSet(q)
    BY <1>6, <1>7, <2>2
  <2> QED BY <1>8, <2>1, <2>2
<1>10. ToSet(q) = ToSet(p.pressed) \ keys
  BY <1>9
<1>11. Forget(p, keys) = [p EXCEPT !.pressed = q]
  BY <1>3, <1>5 DEF q
<1> QED BY <1>6, <1>10, <1>11

-----------------------------------------------------------------------------
(***************************************************************************)
(* Pressing and releasing. A sequence is paired, while keys are held and   *)
(* some may be released anyway (they were named as !K): a key that is      *)
(* pressed is held or released later, what is held was pressed, and what   *)
(* is released was pressed before. A key that must not be pressed is one   *)
(* of those that may be released, or something is pressed behind it.       *)
(***************************************************************************)
Ends(event) == IsRelease(event) \/ event.state = "Not"

DownKeys(s) == {k \in EventKeys : \E i \in DOMAIN s : s[i].key = k /\ s[i].state = "Down"}

Presses(s, held) ==
  \A i \in DOMAIN s : IsPress(s[i]) =>
    \/ s[i].key \in held
    \/ \E j \in DOMAIN s : j > i /\ s[j].key = s[i].key /\ Ends(s[j])

Releases(s, not) ==
  \A i \in DOMAIN s : IsRelease(s[i]) =>
    \/ s[i].key \in not
    \/ \E j \in DOMAIN s : j < i /\ s[j].key = s[i].key /\ s[j].state = "Down"

Nots(s, not) ==
  \A i \in DOMAIN s : s[i].state = "Not" /\ s[i].key # "timeout" =>
    \/ s[i].key \in not
    \/ \E j \in DOMAIN s : j > i /\ s[j].state = "Down" /\ s[j].key # "timeout"

Paired(s, held, not) == Presses(s, held) /\ held \subseteq DownKeys(s) /\ Releases(s, not)

\* Each element of a is at its place in a \o b, each of b behind a.
LEMMA Appended ==
  ASSUME NEW a \in Seq(EventType), NEW b \in Seq(EventType)
  PROVE  /\ a \o b \in Seq(EventType)
         /\ \A i \in DOMAIN a : i \in DOMAIN (a \o b) /\ (a \o b)[i] = a[i]
         /\ \A i \in DOMAIN b : /\ Len(a) + i \in DOMAIN (a \o b) /\ (a \o b)[Len(a) + i] = b[i]
                                /\ \A j \in DOMAIN a : j < Len(a) + i
         /\ \A i \in DOMAIN (a \o b) : i \in DOMAIN a \/ \E k \in DOMAIN b : i = Len(a) + k
         /\ DOMAIN a \subseteq Nat /\ DOMAIN b \subseteq Nat /\ Len(a) \in Nat
<1> DEFINE c == a \o b
<1>1. /\ c \in Seq(EventType) /\ Len(c) = Len(a) + Len(b)
      /\ \A k \in 1..Len(a) : c[k] = a[k]
      /\ \A k \in 1..Len(b) : c[Len(a) + k] = b[k]
  BY Concatenation
<1> HIDE DEF c
<1>2. Len(a) \in Nat /\ Len(b) \in Nat /\ DOMAIN a = 1..Len(a) /\ DOMAIN b = 1..Len(b) /\ DOMAIN c = 1..Len(c)
  BY <1>1
<1>3. ASSUME NEW i \in DOMAIN c PROVE i \in DOMAIN a \/ \E k \in DOMAIN b : i = Len(a) + k
  <2>1. i \in 1..Len(a) \/ (i - Len(a) \in 1..Len(b) /\ i = Len(a) + (i - Len(a)))
    BY <1>1, <1>2
  <2> QED BY <1>2, <2>1
<1>4. \A i \in DOMAIN a : i \in DOMAIN c /\ c[i] = a[i]
  BY <1>1, <1>2
<1>5. \A i \in DOMAIN b : /\ Len(a) + i \in DOMAIN c /\ c[Len(a) + i] = b[i]
                          /\ \A j \in DOMAIN a : j < Len(a) + i
  BY <1>1, <1>2
<1> QED BY <1>1, <1>2, <1>3, <1>4, <1>5 DEF c

\* What is down in either is down in both together.
LEMMA DownAppended ==
  ASSUME NEW a \in Seq(EventType), NEW b \in Seq(EventType)
  PROVE  DownKeys(a \o b) = DownKeys(a) \cup DownKeys(b)
<1> DEFINE c == a \o b
<1>1. /\ \A i \in DOMAIN a : i \in DOMAIN c /\ c[i] = a[i]
      /\ \A i \in DOMAIN b : Len(a) + i \in DOMAIN c /\ c[Len(a) + i] = b[i]
      /\ \A i \in DOMAIN c : i \in DOMAIN a \/ \E k \in DOMAIN b : i = Len(a) + k
  BY Appended
<1> HIDE DEF c
<1>2. ASSUME NEW k \in DownKeys(a) PROVE k \in DownKeys(c)
  <2>1. PICK i \in DOMAIN a : a[i].key = k /\ a[i].state = "Down"
    BY DEF DownKeys
  <2> QED BY <1>1, <2>1 DEF DownKeys
<1>3. ASSUME NEW k \in DownKeys(b) PROVE k \in DownKeys(c)
  <2>1. PICK i \in DOMAIN b : b[i].key = k /\ b[i].state = "Down"
    BY DEF DownKeys
  <2>2. Len(a) + i \in DOMAIN c /\ c[Len(a) + i] = b[i]
    BY <1>1
  <2> QED BY <2>1, <2>2 DEF DownKeys
<1>4. ASSUME NEW k \in DownKeys(c) PROVE k \in DownKeys(a) \/ k \in DownKeys(b)
  <2>1. PICK i \in DOMAIN c : c[i].key = k /\ c[i].state = "Down" /\ k \in EventKeys
    BY DEF DownKeys
  <2>2. CASE i \in DOMAIN a
    BY <1>1, <2>1, <2>2 DEF DownKeys
  <2>3. ASSUME NEW j \in DOMAIN b, i = Len(a) + j PROVE k \in DownKeys(b)
    <3>1. c[i] = b[j]
      BY <1>1, <2>3
    <3> QED BY <2>1, <3>1 DEF DownKeys
  <2> QED BY <1>1, <2>2, <2>3
<1> QED BY <1>2, <1>3, <1>4 DEF c

\* Some events are put behind a paired sequence, when they release or hold
\* what they press, end what is no longer held and release what was down.
LEMMA PairedAppended ==
  ASSUME NEW s \in Seq(EventType), NEW e \in Seq(EventType), NEW held, NEW held2, NEW not,
         Paired(s, held, not), Presses(e, held2), Releases(e, not \cup DownKeys(s)),
         \A k \in held \ held2 : \E j \in DOMAIN e : e[j].key = k /\ Ends(e[j]),
         held2 \subseteq held \cup DownKeys(e)
  PROVE  Paired(s \o e, held2, not)
<1> DEFINE c == s \o e
           n == Len(s)
<1>1. /\ c \in Seq(EventType)
      /\ \A i \in DOMAIN s : i \in DOMAIN c /\ c[i] = s[i]
      /\ \A i \in DOMAIN e : n + i \in DOMAIN c /\ c[n + i] = e[i] /\ \A j \in DOMAIN s : j < n + i
      /\ \A i \in DOMAIN c : i \in DOMAIN s \/ \E k \in DOMAIN e : i = n + k
      /\ DOMAIN s \subseteq Nat /\ DOMAIN e \subseteq Nat /\ n \in Nat
  BY Appended
<1>2. held2 \subseteq DownKeys(c)
  BY DownAppended DEF Paired
<1> HIDE DEF c, n
<1>3. ASSUME NEW i \in DOMAIN c, IsPress(c[i])
      PROVE  \/ c[i].key \in held2
             \/ \E j \in DOMAIN c : j > i /\ c[j].key = c[i].key /\ Ends(c[j])
  <2>1. CASE i \in DOMAIN s
    <3>1. c[i] = s[i] /\ IsPress(s[i])
      BY <1>1, <1>3, <2>1
    <3>2. CASE s[i].key \in held
      <4>1. CASE s[i].key \in held2
        BY <3>1, <4>1
      <4>2. CASE s[i].key \notin held2
        <5>1. PICK j \in DOMAIN e : e[j].key = s[i].key /\ Ends(e[j])
          BY <3>2, <4>2
        <5>2. n + j \in DOMAIN c /\ c[n + j] = e[j] /\ i < n + j
          BY <1>1, <2>1
        <5> QED BY <3>1, <5>1, <5>2, <1>1
      <4> QED BY <4>1, <4>2
    <3>3. CASE s[i].key \notin held
      <4>1. PICK j \in DOMAIN s : j > i /\ s[j].key = s[i].key /\ Ends(s[j])
        BY <3>1, <3>3, <2>1 DEF Paired, Presses
      <4> QED BY <1>1, <3>1, <4>1
    <3> QED BY <3>2, <3>3
  <2>2. ASSUME NEW k \in DOMAIN e, i = n + k
        PROVE  \/ c[i].key \in held2
               \/ \E j \in DOMAIN c : j > i /\ c[j].key = c[i].key /\ Ends(c[j])
    <3>1. c[i] = e[k] /\ IsPress(e[k])
      BY <1>1, <1>3, <2>2
    <3>2. \/ e[k].key \in held2
          \/ \E j \in DOMAIN e : j > k /\ e[j].key = e[k].key /\ Ends(e[j])
      BY <3>1 DEF Presses
    <3>3. ASSUME NEW j \in DOMAIN e, j > k PROVE n + j \in DOMAIN c /\ c[n + j] = e[j] /\ n + j > i
      BY <1>1, <2>2, <3>3
    <3> QED BY <3>1, <3>2, <3>3
  <2> QED BY <1>1, <2>1, <2>2
<1>4. ASSUME NEW i \in DOMAIN c, IsRelease(c[i])
      PROVE  \/ c[i].key \in not
             \/ \E j \in DOMAIN c : j < i /\ c[j].key = c[i].key /\ c[j].state = "Down"
  <2>1. CASE i \in DOMAIN s
    <3>1. c[i] = s[i] /\ IsRelease(s[i])
      BY <1>1, <1>4, <2>1
    <3>2. \/ s[i].key \in not
          \/ \E j \in DOMAIN s : j < i /\ s[j].key = s[i].key /\ s[j].state = "Down"
      BY <2>1, <3>1 DEF Paired, Releases
    <3> QED BY <1>1, <3>1, <3>2
  <2>2. ASSUME NEW k \in DOMAIN e, i = n + k
        PROVE  \/ c[i].key \in not
               \/ \E j \in DOMAIN c : j < i /\ c[j].key = c[i].key /\ c[j].state = "Down"
    <3>1. c[i] = e[k] /\ IsRelease(e[k])
      BY <1>1, <1>4, <2>2
    <3>2. \/ e[k].key \in not \/ e[k].key \in DownKeys(s)
          \/ \E j \in DOMAIN e : j < k /\ e[j].key = e[k].key /\ e[j].state = "Down"
      BY <3>1 DEF Releases
    <3>3. ASSUME NEW j \in DOMAIN e, j < k PROVE n + j \in DOMAIN c /\ c[n + j] = e[j] /\ n + j < i
      BY <1>1, <2>2, <3>3
    <3>4. ASSUME e[k].key \in DownKeys(s)
          PROVE  \E j \in DOMAIN c : j < i /\ c[j].key = c[i].key /\ c[j].state = "Down"
      <4>1. PICK j \in DOMAIN s : s[j].key = e[k].key /\ s[j].state = "Down"
        BY <3>4 DEF DownKeys
      <4> QED BY <1>1, <2>2, <3>1, <4>1
    <3> QED BY <3>1, <3>2, <3>3, <3>4
  <2> QED BY <1>1, <2>1, <2>2
<1>5. Paired(c, held2, not)
  BY <1>2, <1>3, <1>4 DEF Paired, Presses, Releases
<1> QED BY <1>5 DEF c

LEMMA NotsAppended ==
  ASSUME NEW s \in Seq(EventType), NEW e \in Seq(EventType), NEW not, Nots(s, not), Nots(e, not)
  PROVE  Nots(s \o e, not)
<1> DEFINE c == s \o e
           n == Len(s)
<1>1. /\ c \in Seq(EventType)
      /\ \A i \in DOMAIN s : i \in DOMAIN c /\ c[i] = s[i]
      /\ \A i \in DOMAIN e : n + i \in DOMAIN c /\ c[n + i] = e[i] /\ \A j \in DOMAIN s : j < n + i
      /\ \A i \in DOMAIN c : i \in DOMAIN s \/ \E k \in DOMAIN e : i = n + k
      /\ DOMAIN s \subseteq Nat /\ DOMAIN e \subseteq Nat /\ n \in Nat
  BY Appended
<1> HIDE DEF c, n
<1>2. ASSUME NEW i \in DOMAIN c, c[i].state = "Not", c[i].key # "timeout"
      PROVE  \/ c[i].key \in not
             \/ \E j \in DOMAIN c : j > i /\ c[j].state = "Down" /\ c[j].key # "timeout"
  <2>1. CASE i \in DOMAIN s
    <3>1. c[i] = s[i]
      BY <1>1, <2>1
    <3>2. \/ s[i].key \in not
          \/ \E j \in DOMAIN s : j > i /\ s[j].state = "Down" /\ s[j].key # "timeout"
      BY <1>2, <2>1, <3>1 DEF Nots
    <3> QED BY <1>1, <3>1, <3>2
  <2>2. ASSUME NEW k \in DOMAIN e, i = n + k
        PROVE  \/ c[i].key \in not
               \/ \E j \in DOMAIN c : j > i /\ c[j].state = "Down" /\ c[j].key # "timeout"
    <3>1. c[i] = e[k]
      BY <1>1, <2>2
    <3>2. \/ e[k].key \in not
          \/ \E j \in DOMAIN e : j > k /\ e[j].state = "Down" /\ e[j].key # "timeout"
      BY <1>2, <3>1 DEF Nots
    <3>3. ASSUME NEW j \in DOMAIN e, j > k PROVE n + j \in DOMAIN c /\ c[n + j] = e[j] /\ n + j > i
      BY <1>1, <2>2, <3>3
    <3> QED BY <3>1, <3>2, <3>3
  <2> QED BY <1>1, <2>1, <2>2
<1> QED BY <1>2 DEF Nots, c

\* More keys may be named, and fewer of those that are released be held.
LEMMA PairedMore ==
  ASSUME NEW s, NEW held, NEW not, NEW not2, not \subseteq not2
  PROVE  /\ Paired(s, held, not) => Paired(s, held, not2)
         /\ Nots(s, not) => Nots(s, not2)
BY DEF Paired, Releases, Nots

-----------------------------------------------------------------------------
(***************************************************************************)
(* What each member function adds is paired with what is there.            *)
(***************************************************************************)
Fine(p, not) ==
  Paired(p.sequence, ToSet(p.pressed), not) /\ (isInput => Nots(p.sequence, not))

\* Keys that are held later are held or pressed, those no longer held end.
Fits(p, e, pressed, not) ==
  /\ Presses(e, ToSet(pressed)) /\ Releases(e, not \cup DownKeys(p.sequence))
  /\ isInput => Nots(e, not)
  /\ \A k \in ToSet(p.pressed) \ ToSet(pressed) : \E j \in DOMAIN e : e[j].key = k /\ Ends(e[j])
  /\ ToSet(pressed) \subseteq ToSet(p.pressed) \cup DownKeys(e)

LEMMA FineAppended ==
  ASSUME NEW p \in ParserType, NEW e \in Seq(EventType), NEW q \in ParserType, NEW not,
         q.sequence = p.sequence \o e, Fits(p, e, q.pressed, not), Fine(p, not)
  PROVE  Fine(q, not)
<1>1. p.sequence \in Seq(EventType)
  BY DEF ParserType
<1>2. Paired(p.sequence \o e, ToSet(q.pressed), not)
  BY <1>1, PairedAppended DEF Fine, Fits
<1>3. isInput => Nots(p.sequence \o e, not)
  BY <1>1, NotsAppended DEF Fine, Fits
<1> QED BY <1>2, <1>3 DEF Fine

\* What is down is held by a parser that is fine.
LEMMA HeldIsDown ==
  ASSUME NEW p, NEW not, Fine(p, not)
  PROVE  ToSet(p.pressed) \subseteq DownKeys(p.sequence)
BY DEF Fine, Paired

LEMMA EventIs == \A key, state : Event(key, state).key = key /\ Event(key, state).state = state
BY DEF Event

\* A parser with another sequence, buffer or keys that are held.
LEMMA ParserIs ==
  ASSUME NEW p \in ParserType
  PROVE  /\ p.sequence \in Seq(EventType) /\ p.buffer \in Seq(NamedKeys) /\ p.pressed \in Seq(NamedKeys)
         /\ p.buffer \in Seq(EventKeys) /\ p.pressed \in Seq(EventKeys)
         /\ ToSet(p.buffer) \subseteq NamedKeys /\ ToSet(p.pressed) \subseteq NamedKeys
BY NamedAreEventKeys DEF ParserType, ToSet

LEMMA WithSequence ==
  ASSUME NEW p \in ParserType, NEW s \in Seq(EventType), NEW q, q = [p EXCEPT !.sequence = s]
  PROVE  q \in ParserType /\ q.sequence = s /\ q.buffer = p.buffer /\ q.pressed = p.pressed
BY DEF ParserType

LEMMA RestOf ==
  ASSUME NEW X, NEW s \in Seq(X), NEW last \in Nat, last < Len(s)
  PROVE  /\ Len(SubSeq(s, last + 1, Len(s))) = Len(s) - last
         /\ \A i \in 1..(Len(s) - last) : SubSeq(s, last + 1, Len(s))[i] = s[last + i]
OBVIOUS

LEMMA WithBuffer ==
  ASSUME NEW p \in ParserType, NEW b \in Seq(NamedKeys), NEW q, q = [p EXCEPT !.buffer = b]
  PROVE  q \in ParserType /\ q.sequence = p.sequence /\ q.buffer = b /\ q.pressed = p.pressed
BY DEF ParserType

LEMMA WithPressed ==
  ASSUME NEW p \in ParserType, NEW h \in Seq(NamedKeys), NEW q, q = [p EXCEPT !.pressed = h]
  PROVE  q \in ParserType /\ q.sequence = p.sequence /\ q.buffer = p.buffer /\ q.pressed = h
BY DEF ParserType

LEMMA PutIs ==
  ASSUME NEW p \in ParserType, NEW e \in Seq(EventType), NEW q, q = Put(p, e)
  PROVE  q \in ParserType /\ q.sequence = p.sequence \o e /\ q.buffer = p.buffer /\ q.pressed = p.pressed
<1>1. p.sequence \o e \in Seq(EventType)
  BY ParserIs, Concatenation
<1>2. q = [p EXCEPT !.sequence = p.sequence \o e]
  BY DEF Put
<1>3. q \in ParserType /\ q.sequence = p.sequence \o e /\ q.buffer = p.buffer /\ q.pressed = p.pressed
  BY <1>1, <1>2 DEF ParserType
<1> QED BY <1>3

\* Keys that are pressed and released again.
LEMMA StrokesArePaired ==
  ASSUME NEW keys \in Seq(EventKeys), NEW up \in {"Up", "UpAsync"}, NEW e,
         e = Events(keys, "Down") \o Events(keys, up)
  PROVE  /\ e \in Seq(EventType) /\ Presses(e, {}) /\ Releases(e, {}) /\ Nots(e, {})
         /\ \A k \in ToSet(keys) \ {"timeout"} : \E j \in DOMAIN e : e[j].key = k /\ Ends(e[j])
<1> DEFINE d == Events(keys, "Down")
           u == Events(keys, up)
           n == Len(keys)
<1>1. /\ d \in Seq(EventType) /\ Len(d) = n /\ \A i \in 1..n : d[i] = Event(keys[i], "Down")
      /\ u \in Seq(EventType) /\ Len(u) = n /\ \A i \in 1..n : u[i] = Event(keys[i], up)
  BY EventsAre, StatesAre
<1>2. n \in Nat /\ DOMAIN keys = 1..n /\ e = d \o u
  OBVIOUS
<1> HIDE DEF d, u, n
<1>3. /\ e \in Seq(EventType) /\ DOMAIN e \subseteq Nat
      /\ \A i \in 1..n : /\ i \in DOMAIN e /\ e[i] = Event(keys[i], "Down")
                         /\ n + i \in DOMAIN e /\ e[n + i] = Event(keys[i], up) /\ i < n + i
      /\ \A i \in DOMAIN e : i \in 1..n \/ \E k \in 1..n : i = n + k
  <2>1. DOMAIN d = 1..n /\ DOMAIN u = 1..n
    BY <1>1
  <2>2. /\ e \in Seq(EventType)
        /\ \A i \in DOMAIN d : i \in DOMAIN e /\ e[i] = d[i]
        /\ \A i \in DOMAIN u : /\ Len(d) + i \in DOMAIN e /\ e[Len(d) + i] = u[i]
                              /\ \A j \in DOMAIN d : j < Len(d) + i
        /\ \A i \in DOMAIN e : i \in DOMAIN d \/ \E k \in DOMAIN u : i = Len(d) + k
    <3>1. d \in Seq(EventType) /\ u \in Seq(EventType)
      BY <1>1
    <3>2. /\ d \o u \in Seq(EventType)
          /\ \A i \in DOMAIN d : i \in DOMAIN (d \o u) /\ (d \o u)[i] = d[i]
          /\ \A i \in DOMAIN u : /\ Len(d) + i \in DOMAIN (d \o u) /\ (d \o u)[Len(d) + i] = u[i]
                                /\ \A j \in DOMAIN d : j < Len(d) + i
          /\ \A i \in DOMAIN (d \o u) : i \in DOMAIN d \/ \E k \in DOMAIN u : i = Len(d) + k
      BY <3>1, Appended, Zenon
    <3> QED BY <3>2, <1>2
  <2>3. DOMAIN e \subseteq Nat
    BY <2>2
  <2>4. /\ \A i \in 1..n : i \in DOMAIN e /\ e[i] = d[i]
        /\ \A i \in 1..n : n + i \in DOMAIN e /\ e[n + i] = u[i] /\ \A j \in 1..n : j < n + i
        /\ \A i \in DOMAIN e : i \in 1..n \/ \E k \in 1..n : i = n + k
    BY <1>1, <2>1, <2>2
  <2> QED BY <1>1, <2>2, <2>3, <2>4
<1>4. \A i \in 1..n : /\ e[i].key = keys[i] /\ e[i].state = "Down"
                      /\ e[n + i].key = keys[i] /\ e[n + i].state = up
  BY <1>3, EventIs
<1>5. Presses(e, {})
  <2> SUFFICES ASSUME NEW i \in DOMAIN e, IsPress(e[i])
               PROVE  \E j \in DOMAIN e : j > i /\ e[j].key = e[i].key /\ Ends(e[j])
    BY DEF Presses
  <2>1. i \in 1..n /\ e[i].key # "timeout"
    BY <1>3, <1>4 DEF IsPress
  <2>2. Ends(e[n + i])
    BY <1>4, <2>1 DEF Ends, IsRelease
  <2>3. n + i \in DOMAIN e /\ n + i > i
    BY <1>2, <1>3, <2>1
  <2> QED BY <1>4, <2>1, <2>2, <2>3
<1>6. Releases(e, {})
  <2> SUFFICES ASSUME NEW i \in DOMAIN e, IsRelease(e[i])
               PROVE  \E j \in DOMAIN e : j < i /\ e[j].key = e[i].key /\ e[j].state = "Down"
    BY DEF Releases
  <2>1. ~ i \in 1..n
    BY <1>4 DEF IsRelease
  <2>2. PICK k \in 1..n : i = n + k
    BY <1>3, <2>1
  <2> QED BY <1>3, <1>4, <2>2
<1>7. Nots(e, {})
  <2>1. ASSUME NEW i \in DOMAIN e PROVE e[i].state # "Not"
    <3>1. CASE i \in 1..n
      BY <1>4, <3>1
    <3>2. CASE i \notin 1..n
      <4>1. PICK k \in 1..n : i = n + k
        BY <1>3, <3>2
      <4> QED BY <1>4, <4>1
    <3> QED BY <3>1, <3>2
  <2> QED BY <2>1 DEF Nots
<1>8. ASSUME NEW k \in ToSet(keys) \ {"timeout"}
      PROVE  \E j \in DOMAIN e : e[j].key = k /\ Ends(e[j])
  <2>1. PICK i \in 1..n : keys[i] = k
    BY <1>2 DEF ToSet
  <2>2. Ends(e[n + i])
    BY <1>4, <2>1 DEF Ends, IsRelease
  <2> QED BY <1>3, <1>4, <2>1, <2>2
<1> QED BY <1>3, <1>5, <1>6, <1>7, <1>8

\* More may be held, and more be released.
LEMMA PairsAreFine ==
  ASSUME NEW e, NEW held, NEW not
  PROVE  /\ Presses(e, {}) => Presses(e, held)
         /\ Releases(e, {}) => Releases(e, not)
         /\ Nots(e, {}) => Nots(e, not)
BY DEF Presses, Releases, Nots

LEMMA NamedAreNoTimeouts == "timeout" \notin NamedKeys
BY KeyKindsAreDisjoint, LogicalKeysAreOthers DEF NamedKeys, DeviceKeys

\* flush_key_buffer
LEMMA FlushUp ==
  ASSUME NEW p \in ParserType, NEW q, q = Flush(p, TRUE)
  PROVE  /\ q \in ParserType /\ q.buffer = << >>
         /\ ToSet(q.pressed) \subseteq ToSet(p.pressed)
         /\ \A not : Fine(p, not) => Fine(q, not)
<1> DEFINE up == IF isInput THEN "UpAsync" ELSE "Up"
           e == Events(p.buffer, "Down") \o Events(p.buffer, up)
           flushed == [Put(p, e) EXCEPT !.buffer = << >>]
<1>1. p.buffer \in Seq(EventKeys) /\ ToSet(p.buffer) \ {"timeout"} = ToSet(p.buffer)
  BY ParserIs, NamedAreNoTimeouts
<1>2. up \in {"Up", "UpAsync"}
  OBVIOUS
<1>3. /\ e \in Seq(EventType) /\ Presses(e, {}) /\ Releases(e, {}) /\ Nots(e, {})
      /\ \A k \in ToSet(p.buffer) : \E j \in DOMAIN e : e[j].key = k /\ Ends(e[j])
  <2> HIDE DEF up
  <2>1. /\ e \in Seq(EventType) /\ Presses(e, {}) /\ Releases(e, {}) /\ Nots(e, {})
        /\ \A k \in ToSet(p.buffer) \ {"timeout"} : \E j \in DOMAIN e : e[j].key = k /\ Ends(e[j])
    BY <1>1, <1>2, StrokesArePaired, Zenon
  <2> QED BY <1>1, <2>1
<1>4. q = IF isInput THEN flushed ELSE Forget(flushed, ToSet(p.buffer))
  BY DEF Flush
<1> HIDE DEF e
<1>5. /\ flushed \in ParserType /\ flushed.buffer = << >>
      /\ flushed.sequence = p.sequence \o e /\ flushed.pressed = p.pressed
  <2>1. << >> \in Seq(NamedKeys)
    OBVIOUS
  <2> DEFINE r == Put(p, e)
  <2>2. r \in ParserType /\ r.sequence = p.sequence \o e /\ r.buffer = p.buffer /\ r.pressed = p.pressed
    BY <1>3, PutIs, Zenon
  <2> HIDE DEF r
  <2>3. flushed = [r EXCEPT !.buffer = << >>]
    BY DEF r
  <2> HIDE DEF flushed
  <2> QED BY <2>1, <2>2, <2>3, WithBuffer, Zenon
<1> HIDE DEF flushed
<1>6. /\ q \in ParserType /\ q.buffer = << >> /\ q.sequence = p.sequence \o e
      /\ ToSet(q.pressed) \subseteq ToSet(p.pressed)
      /\ \A k \in ToSet(p.pressed) \ ToSet(q.pressed) : k \in ToSet(p.buffer)
  <2>1. CASE isInput
    BY <1>4, <1>5, <2>1
  <2>2. CASE ~isInput
    <3>1. PICK r \in Seq(NamedKeys) : /\ ToSet(r) = ToSet(p.pressed) \ ToSet(p.buffer)
                                      /\ q = [flushed EXCEPT !.pressed = r]
      BY <1>4, <1>5, <2>2, ForgetIs
    <3>2. q \in ParserType /\ q.buffer = << >> /\ q.sequence = p.sequence \o e /\ q.pressed = r
      BY <1>5, <3>1 DEF ParserType
    <3> QED BY <3>1, <3>2
  <2> QED BY <2>1, <2>2
<1>7. ASSUME NEW not, Fine(p, not) PROVE Fine(q, not)
  <2>1. Fits(p, e, q.pressed, not)
    BY <1>3, <1>6, PairsAreFine DEF Fits
  <2> QED BY <1>3, <1>6, <1>7, <2>1, FineAppended
<1> QED BY <1>6, <1>7

LEMMA FlushHeld ==
  ASSUME NEW p \in ParserType, NEW q, q = Flush(p, FALSE)
  PROVE  /\ q \in ParserType /\ q.buffer = << >> /\ q.pressed = p.pressed \o p.buffer
         /\ \A not : Fine(p, not) => Fine(q, not)
<1> DEFINE e == Events(p.buffer, "Down")
<1>1. p.buffer \in Seq(NamedKeys) /\ p.pressed \in Seq(NamedKeys)
  BY ParserIs
<1>2. p.buffer \in Seq(EventKeys)
  BY ParserIs
<1>3. /\ e \in Seq(EventType) /\ Len(e) = Len(p.buffer)
      /\ \A i \in 1..Len(p.buffer) : e[i] = Event(p.buffer[i], "Down")
  BY <1>2, EventsAre, StatesAre
<1>4. q = [[Put(p, e \o << >>) EXCEPT !.buffer = << >>] EXCEPT !.pressed = @ \o p.buffer]
  BY DEF Flush
<1> HIDE DEF e
<1>5. e \o << >> = e
  BY <1>3
<1>6. /\ q \in ParserType /\ q.buffer = << >> /\ q.sequence = p.sequence \o e
      /\ q.pressed = p.pressed \o p.buffer
  <2> DEFINE flushed == [Put(p, e) EXCEPT !.buffer = << >>]
  <2>1. << >> \in Seq(NamedKeys) /\ p.pressed \o p.buffer \in Seq(NamedKeys)
    BY <1>1, Concatenation
  <2>2. /\ flushed \in ParserType /\ flushed.buffer = << >>
        /\ flushed.sequence = p.sequence \o e /\ flushed.pressed = p.pressed
    <3> DEFINE r == Put(p, e)
    <3>1. r \in ParserType /\ r.sequence = p.sequence \o e /\ r.buffer = p.buffer /\ r.pressed = p.pressed
      BY <1>3, PutIs, Zenon
    <3> HIDE DEF r
    <3>2. flushed = [r EXCEPT !.buffer = << >>]
      BY DEF r
    <3> HIDE DEF flushed
    <3>3. /\ flushed \in ParserType /\ flushed.buffer = << >>
          /\ flushed.sequence = r.sequence /\ flushed.pressed = r.pressed
      <4>1. r \in ParserType /\ << >> \in Seq(NamedKeys)
        BY <2>1, <3>1
      <4> QED BY <3>2, <4>1 DEF ParserType
    <3> QED BY <3>1, <3>3
  <2>3. q = [flushed EXCEPT !.pressed = flushed.pressed \o p.buffer]
    BY <1>4, <1>5
  <2> HIDE DEF flushed
  <2>4. q = [flushed EXCEPT !.pressed = p.pressed \o p.buffer]
    BY <2>2, <2>3
  <2>5. /\ q \in ParserType /\ q.sequence = flushed.sequence /\ q.buffer = flushed.buffer
        /\ q.pressed = p.pressed \o p.buffer
    BY <2>1, <2>2, <2>4 DEF ParserType
  <2> QED BY <2>2, <2>5
<1>7. ToSet(q.pressed) = ToSet(p.pressed) \cup ToSet(p.buffer)
  <2>1. ToSet(p.pressed \o p.buffer) = ToSet(p.pressed) \cup ToSet(p.buffer)
    BY <1>1, ElementsAppended, Zenon
  <2> QED BY <1>6, <2>1
<1>8. DownKeys(e) = ToSet(p.buffer) /\ \A i \in DOMAIN e : e[i].state = "Down" /\ e[i].key \in ToSet(p.buffer)
  <2>1. DOMAIN e = DOMAIN p.buffer /\ \A i \in DOMAIN e : e[i].key = p.buffer[i] /\ e[i].state = "Down"
    <3>1. DOMAIN e = 1..Len(p.buffer) /\ DOMAIN p.buffer = 1..Len(p.buffer)
      BY <1>1, <1>3
    <3> QED BY <1>3, <3>1, EventIs
  <2>2. \A i \in DOMAIN e : p.buffer[i] \in EventKeys
    BY <1>2, <2>1
  <2> QED BY <2>1, <2>2 DEF DownKeys, ToSet
<1>9. ASSUME NEW not, Fine(p, not) PROVE Fine(q, not)
  <2>1. Presses(e, ToSet(q.pressed)) /\ Releases(e, not \cup DownKeys(p.sequence)) /\ Nots(e, not)
    BY <1>7, <1>8 DEF Presses, Releases, Nots, IsRelease
  <2>2. Fits(p, e, q.pressed, not)
    BY <1>7, <1>8, <2>1 DEF Fits
  <2> QED BY <1>3, <1>6, <1>9, <2>2, FineAppended
<1> QED BY <1>6, <1>9

\* release_pressed_keys: each key is released, and some are marked as not down.
LEMMA ReleaseEventsAre ==
  ASSUME NEW key \in NamedKeys
  PROVE  /\ ReleaseEvents(key) \in Seq(EventType)
         /\ \A event \in ToSet(ReleaseEvents(key)) :
              event.key = key /\ Ends(event) /\ (isInput => IsRelease(event))
         /\ ToSet(ReleaseEvents(key)) # {}
<1>1. key \in EventKeys /\ key # "timeout"
  BY NamedAreEventKeys, NamedAreNoTimeouts
<1>2. Async(key) \in EventType /\ Async(key).key = key /\ Async(key).state = "UpAsync"
  BY <1>1, EventHasType, StatesAre, EventIs DEF Async
<1>3. Release(key) \in EventType /\ Release(key).key = key /\ Release(key).state = "Up"
  BY <1>1, EventHasType, StatesAre, EventIs DEF Release
<1>4. NotKey(key) \in EventType /\ NotKey(key).key = key /\ NotKey(key).state = "Not"
  BY <1>1, EventHasType, StatesAre, EventIs DEF NotKey
<1> DEFINE a == Async(key)
           r == Release(key)
           n == NotKey(key)
<1>5. ReleaseEvents(key) = IF isInput THEN <<a>> ELSE IF key \in VirtualKeys THEN <<r>> \o <<n>> ELSE <<r>> \o << >>
  BY DEF ReleaseEvents
<1>6. IsRelease(a) /\ IsRelease(r) /\ Ends(a) /\ Ends(r) /\ Ends(n)
  BY <1>1, <1>2, <1>3, <1>4 DEF IsRelease, Ends
<1>7. a \in EventType /\ r \in EventType /\ n \in EventType /\ a.key = key /\ r.key = key /\ n.key = key
  BY <1>2, <1>3, <1>4
<1> HIDE DEF a, r, n
<1>8. <<a>> \in Seq(EventType) /\ <<r>> \in Seq(EventType) /\ <<n>> \in Seq(EventType) /\ << >> \in Seq(EventType)
  BY <1>7
<1>9. /\ ToSet(<<a>>) = {a} /\ ToSet(<<r>>) = {r}
      /\ <<r>> \o <<n>> \in Seq(EventType) /\ ToSet(<<r>> \o <<n>>) = {r, n}
      /\ <<r>> \o << >> \in Seq(EventType) /\ ToSet(<<r>> \o << >>) = {r}
  <2>1. ToSet(<<r>> \o <<n>>) = ToSet(<<r>>) \cup ToSet(<<n>>) /\ ToSet(<<r>> \o << >>) = ToSet(<<r>>) \cup ToSet(<< >>)
    BY <1>8, ElementsAppended, Zenon
  <2>2. <<r>> \o <<n>> \in Seq(EventType) /\ <<r>> \o << >> \in Seq(EventType)
    BY <1>8, Concatenation, Zenon
  <2>3. ToSet(<<a>>) = {a} /\ ToSet(<<r>>) = {r} /\ ToSet(<<n>>) = {n} /\ ToSet(<< >>) = {}
    BY ShortSets, Zenon
  <2> QED BY <2>1, <2>2, <2>3
<1>10. CASE isInput
  <2>1. ReleaseEvents(key) = <<a>>
    BY <1>5, <1>10
  <2> QED BY <1>6, <1>7, <1>8, <1>9, <2>1
<1>11. CASE ~isInput /\ key \in VirtualKeys
  <2>1. ReleaseEvents(key) = <<r>> \o <<n>>
    BY <1>5, <1>11
  <2> QED BY <1>6, <1>7, <1>9, <1>11, <2>1
<1>12. CASE ~isInput /\ key \notin VirtualKeys
  <2>1. ReleaseEvents(key) = <<r>> \o << >>
    BY <1>5, <1>12
  <2> QED BY <1>6, <1>7, <1>9, <1>12, <2>1
<1> QED BY <1>10, <1>11, <1>12

\* The keys behind the first ones, the last one first.
LEMMA ReversedRest ==
  ASSUME NEW s \in Seq(NamedKeys), NEW keep \in Nat,
         NEW r, r = Reverse(SubSeq(s, keep + 1, Len(s)))
  PROVE  /\ r \in Seq(NamedKeys)
         /\ ToSet(r) \subseteq ToSet(s)
         /\ \A i \in DOMAIN s : i > keep => s[i] \in ToSet(r)
<1> DEFINE t == SubSeq(s, keep + 1, Len(s))
<1>0. Len(s) \in Nat /\ DOMAIN s = 1..Len(s) /\ (\A i \in DOMAIN s : i \in Int) /\ Len(t) \in Nat
  OBVIOUS
<1>1. /\ t \in Seq(NamedKeys) /\ Len(s) \in Nat /\ DOMAIN s = 1..Len(s)
      /\ Len(t) = IF keep < Len(s) THEN Len(s) - keep ELSE 0
      /\ \A i \in 1..Len(t) : t[i] = s[keep + i]
  OBVIOUS
<1>2. r = [i \in 1..Len(t) |-> t[(Len(t) - i) + 1]]
  BY DEF Reverse
<1> HIDE DEF t
<1>3. PICK m \in Nat : m = Len(t)
  BY <1>0
<1>a. /\ \A i \in 1..m : keep + i \in 1..Len(s) /\ t[i] = s[keep + i] /\ t[i] \in NamedKeys
      /\ \A i \in 1..Len(s) : i > keep => i - keep \in 1..m
  <2>2. CASE keep < Len(s)
    BY <1>1, <1>3, <2>2
  <2>3. CASE ~(keep < Len(s))
    BY <1>1, <1>3, <2>3
  <2> QED BY <2>2, <2>3
<1>4. r = [i \in 1..m |-> t[(m - i) + 1]] /\ \A i \in 1..m : (m - i) + 1 \in 1..m
  <2>1. \A i \in 1..m : (m - i) + 1 \in 1..m
    BY <1>3
  <2> QED BY <1>2, <1>3, <2>1
<1>5. r \in Seq(NamedKeys) /\ DOMAIN r = 1..m
  <2>1. r \in [1..m -> NamedKeys]
    BY <1>a, <1>4
  <2> QED BY <1>3, <2>1, MapIs
<1>6. ASSUME NEW i \in DOMAIN r PROVE r[i] \in ToSet(s)
  <2>1. (m - i) + 1 \in 1..m /\ r[i] = t[(m - i) + 1]
    BY <1>4, <1>5
  <2>2. PICK j \in 1..m : r[i] = t[j]
    BY <2>1
  <2>3. keep + j \in DOMAIN s /\ t[j] = s[keep + j]
    BY <1>1, <1>a, <2>2
  <2> QED BY <2>2, <2>3 DEF ToSet
<1>7. ASSUME NEW i \in DOMAIN s, i > keep PROVE s[i] \in ToSet(r)
  <2>1. PICK d \in 1..m : d = i - keep
    BY <1>1, <1>a, <1>7
  <2>2. keep + d = i
    <3>1. i \in Int /\ keep \in Int
      BY <1>0
    <3> QED BY <2>1, <3>1
  <2>3. t[d] = s[i]
    BY <1>a, <2>1, <2>2
  <2>4. PICK j \in 1..m : (m - j) + 1 = d
    <3>1. (m - d) + 1 \in 1..m /\ (m - ((m - d) + 1)) + 1 = d
      BY <1>3, <2>1
    <3> QED BY <3>1
  <2>5. r[j] = s[i]
    BY <1>4, <2>3, <2>4
  <2> QED BY <1>5, <2>4, <2>5 DEF ToSet
<1>8. ToSet(r) \subseteq ToSet(s)
  BY <1>6 DEF ToSet
<1> QED BY <1>5, <1>7, <1>8

LEMMA ReleaseFine ==
  ASSUME NEW p \in ParserType, NEW keep \in Nat, NEW q, q = ReleasePressed(p, keep)
  PROVE  /\ q \in ParserType /\ q.buffer = p.buffer
         /\ keep = 0 => q.pressed = << >>
         /\ \A not : Fine(p, not) => Fine(q, not)
<1> DEFINE s == p.pressed
           r == Reverse(SubSeq(s, keep + 1, Len(s)))
           n == Len(r)
           f == [i \in 1..n |-> ReleaseEvents(r[i])]
           kept == IF keep < Len(s) THEN SubSeq(s, 1, keep) ELSE s
           e == FlattenSeq(f)
<1>1. s \in Seq(NamedKeys)
  BY ParserIs
<1>2. r \in Seq(NamedKeys) /\ ToSet(r) \subseteq ToSet(s) /\ \A i \in DOMAIN s : i > keep => s[i] \in ToSet(r)
  BY <1>1, ReversedRest
<1>3. q = [Put(p, FlattenSeq(SubSeq(f, 1, n))) EXCEPT !.pressed = kept]
  <2>1. DOMAIN r = 1..n
    BY <1>2
  <2> QED BY <2>1 DEF ReleasePressed, Map, Put
<1> HIDE DEF r
<1>4. n \in Nat /\ DOMAIN r = 1..n /\ \A i \in 1..n : r[i] \in NamedKeys
  BY <1>2
<1>5. f \in [1..n -> Seq(EventType)] /\ \A i \in 1..n : f[i] = ReleaseEvents(r[i])
  BY <1>4, ReleaseEventsAre
<1> HIDE DEF f, n
<1>6. f \in Seq(Seq(EventType)) /\ Len(f) = n /\ SubSeq(f, 1, n) = f
  BY <1>4, <1>5, MapIs
<1>7. e \in Seq(EventType) /\ \A event : event \in ToSet(e) <=> \E i \in 1..n : event \in ToSet(f[i])
  BY <1>6, FlattenElements
<1> HIDE DEF e, s
<1>8. /\ kept \in Seq(NamedKeys)
      /\ keep = 0 => kept = << >>
      /\ ToSet(kept) \subseteq ToSet(s)
      /\ \A k \in ToSet(s) \ ToSet(kept) : k \in ToSet(r)
  <2>0. Len(s) \in Nat /\ DOMAIN s = 1..Len(s)
    BY <1>1
  <2>1. CASE keep < Len(s)
    <3>1. kept = SubSeq(s, 1, keep)
      BY <2>1
    <3> HIDE DEF kept
    <3>2. kept \in Seq(NamedKeys) /\ Len(kept) = keep /\ DOMAIN kept = 1..keep /\ \A i \in 1..keep : kept[i] = s[i]
      BY <1>1, <2>0, <2>1, <3>1
    <3>3. ToSet(kept) \subseteq ToSet(s)
      BY <2>0, <2>1, <3>2 DEF ToSet
    <3>4. ASSUME NEW i \in DOMAIN s, s[i] \notin ToSet(kept) PROVE s[i] \in ToSet(r)
      <4>1. ~ i \in 1..keep
        BY <3>2, <3>4 DEF ToSet
      <4>2. i > keep
        BY <2>0, <4>1
      <4> QED BY <1>2, <4>2
    <3>5. keep = 0 => kept = << >>
      BY <3>2
    <3> QED BY <3>2, <3>3, <3>4, <3>5 DEF ToSet
  <2>2. CASE ~(keep < Len(s))
    <3>1. kept = s
      BY <2>2
    <3>2. keep = 0 => s = << >>
      BY <1>1, <2>0, <2>2
    <3> QED BY <1>1, <3>1, <3>2
  <2> QED BY <2>1, <2>2
<1>9. q \in ParserType /\ q.sequence = p.sequence \o e /\ q.buffer = p.buffer /\ q.pressed = kept
  <2> DEFINE t == Put(p, e)
  <2>1. t \in ParserType /\ t.sequence = p.sequence \o e /\ t.buffer = p.buffer
    BY <1>7, PutIs, Zenon
  <2>2. q = [t EXCEPT !.pressed = kept]
    BY <1>3, <1>6 DEF e
  <2> HIDE DEF t, kept
  <2> QED BY <1>8, <2>1, <2>2 DEF ParserType
<1> HIDE DEF kept
<1>10. \A event \in ToSet(e) : event.key \in ToSet(s) /\ Ends(event) /\ (isInput => IsRelease(event))
  <2> SUFFICES ASSUME NEW event \in ToSet(e)
               PROVE  event.key \in ToSet(s) /\ Ends(event) /\ (isInput => IsRelease(event))
    OBVIOUS
  <2>1. PICK i \in 1..n : event \in ToSet(ReleaseEvents(r[i]))
    BY <1>5, <1>7
  <2>2. event.key = r[i] /\ Ends(event) /\ (isInput => IsRelease(event))
    BY <1>4, <2>1, ReleaseEventsAre
  <2>3. r[i] \in ToSet(r)
    BY <1>4 DEF ToSet
  <2> QED BY <1>2, <2>2, <2>3
<1>11. ASSUME NEW k \in ToSet(s) \ ToSet(kept) PROVE \E j \in DOMAIN e : e[j].key = k /\ Ends(e[j])
  <2>1. PICK i \in 1..n : r[i] = k
    BY <1>4, <1>8 DEF ToSet
  <2>2. PICK event \in ToSet(ReleaseEvents(r[i])) : event.key = k /\ Ends(event)
    BY <1>4, <2>1, ReleaseEventsAre
  <2>3. event \in ToSet(e)
    BY <1>5, <1>7, <2>2
  <2> QED BY <2>2, <2>3 DEF ToSet
<1>12. \A i \in DOMAIN e : e[i] \in ToSet(e)
  BY DEF ToSet
<1>13. ASSUME NEW not, Fine(p, not) PROVE Fine(q, not)
  <2>1. Presses(e, ToSet(kept))
    BY <1>10, <1>12 DEF Presses, IsPress, Ends, IsRelease
  <2>2. Releases(e, not \cup DownKeys(p.sequence))
    <3>1. ToSet(s) \subseteq DownKeys(p.sequence)
      BY <1>13, HeldIsDown DEF s
    <3> QED BY <1>10, <1>12, <3>1 DEF Releases
  <2>3. isInput => Nots(e, not)
    BY <1>10, <1>12 DEF Nots, IsRelease
  <2>4. Fits(p, e, q.pressed, not)
    BY <1>8, <1>9, <1>11, <2>1, <2>2, <2>3 DEF Fits, s
  <2> QED BY <1>7, <1>9, <1>13, <2>4, FineAppended
<1> QED BY <1>8, <1>9, <1>13

-----------------------------------------------------------------------------
(***************************************************************************)
(* Timeouts, and keys that must not be pressed.                            *)
(***************************************************************************)

\* One event that is put behind a sequence.
LEMMA OneMore ==
  ASSUME NEW p \in ParserType, NEW q \in ParserType, NEW event \in EventType, NEW not,
         q.sequence = p.sequence \o <<event>>,
         ToSet(q.pressed) \subseteq ToSet(p.pressed),
         \A k \in ToSet(p.pressed) \ ToSet(q.pressed) : k = event.key /\ Ends(event),
         ~IsPress(event), IsRelease(event) => event.key \in not,
         isInput /\ event.state = "Not" /\ event.key # "timeout" => event.key \in not,
         Fine(p, not)
  PROVE  Fine(q, not)
<1> DEFINE e == <<event>>
<1>1. e \in Seq(EventType) /\ DOMAIN e = {1} /\ e[1] = event
  OBVIOUS
<1>2. q.sequence = p.sequence \o e
  OBVIOUS
<1> HIDE DEF e
<1>3. Presses(e, ToSet(q.pressed)) /\ Releases(e, not \cup DownKeys(p.sequence)) /\ (isInput => Nots(e, not))
  BY <1>1 DEF Presses, Releases, Nots
<1>4. Fits(p, e, q.pressed, not)
  BY <1>1, <1>3 DEF Fits
<1> QED BY <1>1, <1>2, <1>4, FineAppended

LEMMA LastIs ==
  ASSUME NEW s \in Seq(EventType), s # << >>
  PROVE  Len(s) \in Nat /\ Len(s) \in DOMAIN s /\ DOMAIN s = 1..Len(s) /\ Last(s) = s[Len(s)] /\ Last(s) \in EventType
BY DEF Last

\* A key that may be released is, instead of being released or not pressed.
LEMMA LastReleased ==
  ASSUME NEW s \in Seq(EventType), s # << >>, Last(s).state \in {"Not", "UpAsync"},
         NEW c, c = LastBecomes(s, "Up"), NEW held, NEW not
  PROVE  /\ c \in Seq(EventType)
         /\ Paired(s, held, not) /\ Nots(s, not) => Paired(c, held, not) /\ Nots(c, not)
<1> DEFINE n == Len(s)
<1>1. n \in Nat /\ n \in DOMAIN s /\ DOMAIN s = 1..n /\ s[n].state \in {"Not", "UpAsync"}
  BY LastIs
<1>2. \A i \in DOMAIN s : s[i] \in EventType
  OBVIOUS
<1>3. c = [s EXCEPT ![n].state = "Up"]
  BY DEF LastBecomes
<1> HIDE DEF n
<1>4. DOMAIN c = DOMAIN s /\ \A i \in DOMAIN s : i # n => c[i] = s[i]
  BY <1>1, <1>3
<1>5. c[n] = [s[n] EXCEPT !.state = "Up"]
  BY <1>1, <1>3
<1>6. c[n] \in EventType /\ c[n].state = "Up" /\ c[n].key = s[n].key
  BY <1>1, <1>2, <1>5, EventTypeIs, StatesAre
<1>7. c \in Seq(EventType)
  <2>1. \A i \in 1..n : c[i] \in EventType
    BY <1>1, <1>2, <1>4, <1>6
  <2>2. c \in [1..n -> EventType]
    BY <1>1, <1>3, <1>4, <2>1
  <2> QED BY <1>1, <2>2, MapIs
<1>8. \A i \in DOMAIN s : c[i].key = s[i].key /\ (i # n => c[i].state = s[i].state)
  BY <1>4, <1>6
<1>9. ASSUME Paired(s, held, not), Nots(s, not) PROVE Paired(c, held, not) /\ Nots(c, not)
  <2>1. Presses(c, held)
    <3> SUFFICES ASSUME NEW i \in DOMAIN c, IsPress(c[i]), c[i].key \notin held
                 PROVE  \E j \in DOMAIN c : j > i /\ c[j].key = c[i].key /\ Ends(c[j])
      BY DEF Presses
    <3>1. i # n /\ c[i].key # "timeout"
      BY <1>6 DEF IsPress
    <3>2. c[i] = s[i]
      BY <1>4, <3>1
    <3>3. PICK j \in DOMAIN s : j > i /\ s[j].key = s[i].key /\ Ends(s[j])
      BY <1>4, <1>9, <3>2 DEF Paired, Presses
    <3>4. Ends(c[j])
      BY <1>4, <1>6, <3>1, <3>2, <3>3 DEF Ends, IsRelease
    <3> QED BY <1>4, <1>8, <3>2, <3>3, <3>4
  <2>2. held \subseteq DownKeys(c)
    <3>1. ASSUME NEW k \in DownKeys(s) PROVE k \in DownKeys(c)
      <4>1. PICK i \in DOMAIN s : s[i].key = k /\ s[i].state = "Down" /\ k \in EventKeys
        BY DEF DownKeys
      <4>2. c[i] = s[i]
        BY <1>1, <1>4, <4>1
      <4> QED BY <1>4, <4>1, <4>2 DEF DownKeys
    <3> QED BY <1>9, <3>1 DEF Paired
  <2>3. ASSUME s[n].key # "timeout" PROVE \/ s[n].key \in not
                                         \/ \E j \in DOMAIN s : j < n /\ s[j].key = s[n].key /\ s[j].state = "Down"
    <3>1. CASE s[n].state = "UpAsync"
      <4>1. IsRelease(s[n])
        BY <2>3, <3>1 DEF IsRelease
      <4> QED BY <1>1, <1>9, <4>1 DEF Paired, Releases
    <3>2. CASE s[n].state = "Not"
      <4>1. \A j \in DOMAIN s : ~(j > n)
        BY <1>1
      <4> QED BY <1>1, <1>9, <2>3, <3>2, <4>1 DEF Nots
    <3> QED BY <1>1, <3>1, <3>2
  <2>4. Releases(c, not)
    <3> SUFFICES ASSUME NEW i \in DOMAIN c, IsRelease(c[i]), c[i].key \notin not
                 PROVE  \E j \in DOMAIN c : j < i /\ c[j].key = c[i].key /\ c[j].state = "Down"
      BY DEF Releases
    <3>1. \E j \in DOMAIN s : j < i /\ s[j].key = s[i].key /\ s[j].state = "Down"
      <4>1. CASE i = n
        BY <1>6, <2>3, <4>1 DEF IsRelease
      <4>2. CASE i # n
        BY <1>4, <1>9, <4>2 DEF Paired, Releases
      <4> QED BY <4>1, <4>2
    <3>2. PICK j \in DOMAIN s : j < i /\ s[j].key = s[i].key /\ s[j].state = "Down"
      BY <3>1
    <3>3. j # n
      BY <1>1, <3>2
    <3> QED BY <1>4, <1>8, <3>2, <3>3
  <2>5. Nots(c, not)
    <3> SUFFICES ASSUME NEW i \in DOMAIN c, c[i].state = "Not", c[i].key # "timeout", c[i].key \notin not
                 PROVE  \E j \in DOMAIN c : j > i /\ c[j].state = "Down" /\ c[j].key # "timeout"
      BY DEF Nots
    <3>1. i # n /\ c[i] = s[i]
      BY <1>4, <1>6
    <3>2. PICK j \in DOMAIN s : j > i /\ s[j].state = "Down" /\ s[j].key # "timeout"
      BY <1>4, <1>9, <3>1 DEF Nots
    <3>3. j # n
      BY <1>1, <3>2
    <3> QED BY <1>4, <3>2, <3>3
  <2> QED BY <2>1, <2>2, <2>4, <2>5 DEF Paired
<1> QED BY <1>7, <1>9

\* What is told of a sequence only depends on its keys and states.
LEMMA ValuesDoNotMatter ==
  ASSUME NEW s, NEW c, NEW held, NEW not, DOMAIN c = DOMAIN s,
         \A i \in DOMAIN s : c[i].key = s[i].key /\ c[i].state = s[i].state
  PROVE  /\ Paired(s, held, not) => Paired(c, held, not)
         /\ Nots(s, not) => Nots(c, not)
<1>1. \A i \in DOMAIN s : /\ IsPress(c[i]) <=> IsPress(s[i])
                          /\ IsRelease(c[i]) <=> IsRelease(s[i])
                          /\ Ends(c[i]) <=> Ends(s[i])
  BY DEF IsPress, IsRelease, Ends
<1>2. DownKeys(c) = DownKeys(s)
  BY DEF DownKeys
<1>3. Presses(s, held) => Presses(c, held)
  BY <1>1 DEF Presses
<1>4. Releases(s, not) => Releases(c, not)
  BY <1>1 DEF Releases
<1>5. Nots(s, not) => Nots(c, not)
  BY DEF Nots
<1> QED BY <1>2, <1>3, <1>4, <1>5 DEF Paired

\* add_timeout_event
LEMMA AddTimeoutFine ==
  ASSUME NEW p \in ParserType, NEW ms \in 0..MaxTimeout, NEW isNot \in BOOLEAN,
         isInput => p.sequence # << >>, NEW q, q = AddTimeout(p, ms, isNot)
  PROVE  /\ q \in ParserType /\ q.buffer = p.buffer /\ q.pressed = p.pressed
         /\ \A not : Fine(p, not) => Fine(q, not)
<1> DEFINE isReleased == isInput /\ Last(p.sequence).state = "Not"
           s == IF isReleased THEN LastBecomes(p.sequence, "Up") ELSE p.sequence
           timeout == Timeout(TimeoutState(isNot), ms)
           merged == [s EXCEPT ![Len(s)].value = SumTimeouts(@, ms)]
           c == IF EndsWith(s, timeout) THEN merged ELSE Append(s, timeout)
<1>0. p.sequence \in Seq(EventType)
  BY ParserIs
<1>1. q = [p EXCEPT !.sequence = c]
  BY DEF AddTimeout
<1>2. s \in Seq(EventType) /\ \A held, not : Paired(p.sequence, held, not) /\ (isInput => Nots(p.sequence, not))
                                => Paired(s, held, not) /\ (isInput => Nots(s, not))
  <2>1. CASE isReleased
    <3> DEFINE d == LastBecomes(p.sequence, "Up")
    <3>1. d \in Seq(EventType) /\ \A held, not : Paired(p.sequence, held, not) /\ Nots(p.sequence, not)
                                => Paired(d, held, not) /\ Nots(d, not)
      <4>1. p.sequence # << >> /\ Last(p.sequence).state \in {"Not", "UpAsync"}
        BY <2>1
      <4> QED BY <1>0, <4>1, LastReleased
    <3>2. s = d /\ isInput
      BY <2>1
    <3> QED BY <3>1, <3>2
  <2>2. CASE ~isReleased
    <3>1. s = p.sequence
      BY <2>2
    <3> QED BY <1>0, <3>1
  <2> QED BY <2>1, <2>2
<1>3. timeout \in EventType /\ timeout.key = "timeout"
  <2>1. TimeoutState(isNot) \in KeyStates
    BY StatesAre DEF TimeoutState
  <2>2. "timeout" \in EventKeys
    BY DEF EventKeys
  <2> QED BY <2>1, <2>2, EventTypeIs DEF Timeout
<1> HIDE DEF s, timeout
<1>4. c \in Seq(EventType) /\ \A held, not : Paired(s, held, not) /\ (isInput => Nots(s, not))
                                => Paired(c, held, not) /\ (isInput => Nots(c, not))
  <2>1. CASE EndsWith(s, timeout)
    <3> DEFINE n == Len(s)
    <3>1. s # << >> /\ c = merged
      BY <2>1 DEF EndsWith
    <3>2. n \in Nat /\ n \in DOMAIN s /\ DOMAIN s = 1..n /\ s[n] \in EventType
      BY <1>2, <3>1, LastIs
    <3>3. c = [s EXCEPT ![n] = [s[n] EXCEPT !.value = SumTimeouts(@, ms)]]
      BY <3>1, <3>2
    <3> HIDE DEF n, c
    <3>4. DOMAIN c = DOMAIN s /\ (\A i \in DOMAIN s : i # n => c[i] = s[i])
          /\ c[n] = [s[n] EXCEPT !.value = SumTimeouts(@, ms)]
      BY <3>2, <3>3
    <3>5. SumTimeouts(s[n].value, ms) \in 0..MaxTimeout
      <4>1. s[n].value \in 0..MaxTimeout
        BY <3>2, EventTypeIs
      <4> QED BY <4>1, ZeroIsValue DEF SumTimeouts
    <3>6. c[n] \in EventType /\ c[n].key = s[n].key /\ c[n].state = s[n].state
      BY <3>2, <3>4, <3>5, EventTypeIs
    <3>7. c \in Seq(EventType)
      <4>1. \A i \in 1..n : c[i] \in EventType
        BY <1>2, <3>2, <3>4, <3>6
      <4>2. c \in [1..n -> EventType]
        BY <3>2, <3>3, <3>4, <4>1
      <4> QED BY <3>2, <4>2, MapIs
    <3>8. \A i \in DOMAIN s : c[i].key = s[i].key /\ c[i].state = s[i].state
      BY <3>4, <3>6
    <3>9. \A held, not : /\ Paired(s, held, not) => Paired(c, held, not)
                         /\ Nots(s, not) => Nots(c, not)
      BY <3>4, <3>8, ValuesDoNotMatter
    <3> QED BY <3>7, <3>9
  <2>2. CASE ~EndsWith(s, timeout)
    <3> DEFINE e == <<timeout>>
    <3>1. c = s \o e /\ c \in Seq(EventType)
      BY <1>2, <1>3, <2>2
    <3>2. e \in Seq(EventType) /\ DOMAIN e = {1} /\ e[1].key = "timeout"
      BY <1>3
    <3> HIDE DEF c, e
    <3>3. ASSUME NEW held, NEW not, Paired(s, held, not) PROVE Paired(c, held, not)
      <4>1. Presses(e, held) /\ Releases(e, not \cup DownKeys(s))
        BY <3>2 DEF Presses, Releases, IsPress, IsRelease
      <4> QED BY <1>2, <3>1, <3>2, <3>3, <4>1, PairedAppended
    <3>4. ASSUME NEW not, Nots(s, not) PROVE Nots(c, not)
      <4>1. Nots(e, not)
        BY <3>2 DEF Nots
      <4> QED BY <1>2, <3>1, <3>2, <3>4, <4>1, NotsAppended
    <3> QED BY <3>1, <3>3, <3>4
  <2> QED BY <2>1, <2>2
<1> HIDE DEF c
<1>5. q \in ParserType /\ q.sequence = c /\ q.buffer = p.buffer /\ q.pressed = p.pressed
  BY <1>1, <1>4 DEF ParserType
<1>6. ASSUME NEW not, Fine(p, not) PROVE Fine(q, not)
  <2>1. Paired(s, ToSet(p.pressed), not) /\ (isInput => Nots(s, not))
    BY <1>2, <1>6 DEF Fine
  <2> QED BY <1>4, <1>5, <2>1 DEF Fine
<1> QED BY <1>5, <1>6

\* What !K adds: K may be released then.
LEMMA AddNotFine ==
  ASSUME NEW p \in ParserType, NEW key \in NamedKeys, NEW q, q = AddNot(p, key)
  PROVE  /\ q \in ParserType /\ q.buffer = p.buffer
         /\ ToSet(q.pressed) \subseteq ToSet(p.pressed)
         /\ \A not : (isInput => key \in not) /\ Fine(p, not) => Fine(q, not)
<1> DEFINE forgotten == Forget(p, {key})
           waits == isInput /\ forgotten # p
           m == IF waits THEN Put(forgotten, <<Async(key)>>) ELSE forgotten
           turns == isInput /\ EndsWith(m.sequence, Async(key))
           releases == isInput /\ (IsPressed(m.sequence, key) \/ InGroup)
<1>1. key \in EventKeys /\ key # "timeout"
  BY NamedAreEventKeys, NamedAreNoTimeouts
<1>2. /\ Async(key) \in EventType /\ Async(key).key = key /\ IsRelease(Async(key))
      /\ Ends(Async(key)) /\ ~IsPress(Async(key)) /\ Async(key).state = "UpAsync"
  BY <1>1, EventHasType, StatesAre, EventIs DEF Async, IsRelease, Ends, IsPress
<1>3. /\ Release(key) \in EventType /\ Release(key).key = key /\ ~IsPress(Release(key))
      /\ Release(key).state = "Up"
  BY <1>1, EventHasType, StatesAre, EventIs DEF Release, IsPress
<1>4. /\ NotKey(key) \in EventType /\ NotKey(key).key = key /\ ~IsPress(NotKey(key))
      /\ NotKey(key).state = "Not" /\ Ends(NotKey(key)) /\ ~IsRelease(NotKey(key))
  BY <1>1, EventHasType, StatesAre, EventIs DEF NotKey, IsPress, Ends, IsRelease
<1>5. q = IF turns THEN [m EXCEPT !.sequence = LastBecomes(@, "Up")]
          ELSE IF releases THEN Put(m, <<Release(key)>>) ELSE Put(m, <<NotKey(key)>>)
  BY DEF AddNot
<1>6. /\ forgotten \in ParserType /\ forgotten.sequence = p.sequence /\ forgotten.buffer = p.buffer
      /\ ToSet(forgotten.pressed) = ToSet(p.pressed) \ {key}
  <2>1. PICK h \in Seq(NamedKeys) : /\ ToSet(h) = ToSet(p.pressed) \ {key}
                                    /\ forgotten = [p EXCEPT !.pressed = h]
    BY ForgetIs
  <2> HIDE DEF forgotten
  <2>2. /\ forgotten \in ParserType /\ forgotten.sequence = p.sequence /\ forgotten.buffer = p.buffer
        /\ forgotten.pressed = h
    BY <2>1 DEF ParserType
  <2> QED BY <2>1, <2>2
<1> HIDE DEF forgotten
<1>7. /\ m \in ParserType /\ m.buffer = p.buffer /\ ToSet(m.pressed) = ToSet(p.pressed) \ {key}
      /\ \A not : isInput /\ key \in not /\ Fine(p, not) => Fine(m, not)
  <2>1. CASE waits
    <3> DEFINE t == Put(forgotten, <<Async(key)>>)
    <3>1. <<Async(key)>> \in Seq(EventType)
      BY <1>2
    <3>2. t \in ParserType /\ t.sequence = forgotten.sequence \o <<Async(key)>>
          /\ t.buffer = forgotten.buffer /\ t.pressed = forgotten.pressed
      BY <1>6, <3>1, PutIs, Zenon
    <3> HIDE DEF t
    <3>3. t.sequence = p.sequence \o <<Async(key)>> /\ ToSet(t.pressed) = ToSet(p.pressed) \ {key}
      BY <1>6, <3>2
    <3>4. ASSUME NEW not, key \in not, Fine(p, not) PROVE Fine(t, not)
      BY <1>2, <3>2, <3>3, <3>4, OneMore
    <3>5. m = t
      BY <2>1 DEF t
    <3> QED BY <1>6, <3>2, <3>3, <3>4, <3>5
  <2>2. CASE ~waits
    <3>1. m = forgotten /\ (isInput => forgotten = p)
      BY <2>2
    <3> QED BY <1>6, <3>1
  <2> QED BY <2>1, <2>2
<1> HIDE DEF m
<1>8. CASE turns
  <2> DEFINE c == LastBecomes(m.sequence, "Up")
  <2>1. m.sequence \in Seq(EventType) /\ m.sequence # << >> /\ Last(m.sequence).state \in {"Not", "UpAsync"}
    BY <1>2, <1>7, <1>8, ParserIs DEF EndsWith, SameEvent
  <2>2. c \in Seq(EventType)
    BY <2>1, LastReleased
  <2>3. \A held, not : Paired(m.sequence, held, not) /\ Nots(m.sequence, not) => Paired(c, held, not) /\ Nots(c, not)
    BY <2>1, LastReleased
  <2>4. q = [m EXCEPT !.sequence = c]
    BY <1>5, <1>8
  <2> HIDE DEF c
  <2>5. q \in ParserType /\ q.sequence = c /\ q.buffer = m.buffer /\ q.pressed = m.pressed
    BY <1>7, <2>2, <2>4 DEF ParserType
  <2>6. \A not : Fine(m, not) => Fine(q, not)
    BY <1>8, <2>3, <2>5 DEF Fine
  <2> QED BY <1>7, <1>8, <2>5, <2>6
<1>9. CASE ~turns
  <2> DEFINE event == IF releases THEN Release(key) ELSE NotKey(key)
             t == Put(m, <<event>>)
  <2>1. /\ event \in EventType /\ event.key = key /\ ~IsPress(event)
        /\ ~isInput => ~IsRelease(event) /\ Ends(event)
    BY <1>3, <1>4
  <2>2. q = t
    BY <1>5, <1>9
  <2> HIDE DEF event
  <2>3. t \in ParserType /\ t.sequence = m.sequence \o <<event>> /\ t.buffer = m.buffer /\ t.pressed = m.pressed
    <3>1. <<event>> \in Seq(EventType)
      BY <2>1
    <3> QED BY <1>7, <3>1, PutIs, Zenon
  <2> HIDE DEF t
  <2>4. ASSUME NEW not, isInput, key \in not, Fine(p, not) PROVE Fine(t, not)
    <3>1. Fine(m, not)
      BY <1>7, <2>4
    <3> QED BY <1>7, <2>1, <2>3, <2>4, <3>1, OneMore
  <2>5. ASSUME NEW not, ~isInput, Fine(p, not) PROVE Fine(t, not)
    <3>1. t.sequence = p.sequence \o <<event>>
      <4>1. m = forgotten
        BY <2>5 DEF m
      <4> QED BY <1>6, <2>3, <4>1
    <3>2. ToSet(t.pressed) = ToSet(p.pressed) \ {key}
      BY <1>7, <2>3
    <3> QED BY <2>1, <2>3, <2>5, <3>1, <3>2, OneMore
  <2> QED BY <1>7, <2>2, <2>3, <2>4, <2>5
<1> QED BY <1>8, <1>9

\* sync_after_not_timeout: what is released was pressed, or named as !K.
LEMMA SyncFine ==
  ASSUME NEW p \in ParserType, NEW q, q = SyncAfterNotTimeout(p)
  PROVE  /\ q \in ParserType /\ q.buffer = p.buffer /\ q.pressed = p.pressed
         /\ \A not : Fine(p, not) => Fine(q, not)
<1> DEFINE s == p.sequence
           positions == {i \in DOMAIN s : s[i].state # "UpAsync"}
           last == LastOf(positions)
           t == SubSeq(s, last + 1, Len(s))
           f == [i \in DOMAIN t |-> Release(t[i].key)]
           e == SubSeq(f, 1, Len(t))
<1>1. q = p \/ q = Put(p, e)
  BY DEF SyncAfterNotTimeout, Map
<1>2. s \in Seq(EventType) /\ Len(s) \in Nat /\ DOMAIN s = 1..Len(s) /\ \A i \in DOMAIN s : s[i] \in EventType
  BY ParserIs
<1> HIDE DEF s
<1>3. last \in Nat /\ last <= Len(s) /\ \A i \in DOMAIN s : i > last => s[i].state = "UpAsync"
  <2>1. positions \in SUBSET (1..Len(s))
    BY <1>2
  <2>2. last \in 0..Len(s) /\ \A i \in positions : i <= last
    <3> HIDE DEF positions
    <3> QED BY <1>2, <2>1, LastOfIs
  <2> HIDE DEF last
  <2>3. ASSUME NEW i \in DOMAIN s, i > last PROVE s[i].state = "UpAsync"
    BY <1>2, <2>2, <2>3
  <2> QED BY <1>2, <2>2, <2>3
<1> HIDE DEF last
<1>4. /\ Len(t) \in Nat /\ DOMAIN t = 1..Len(t)
      /\ \A i \in 1..Len(t) : t[i] = s[last + i] /\ last + i \in DOMAIN s /\ last + i > last
  <2>1. CASE last = Len(s)
    <3>1. t = << >>
      BY <1>2, <1>3, <2>1
    <3> HIDE DEF t
    <3> QED BY <3>1
  <2>2. CASE last < Len(s)
    <3>1. Len(t) = Len(s) - last /\ \A i \in 1..(Len(s) - last) : t[i] = s[last + i]
      BY <1>2, <1>3, <2>2, RestOf
    <3> HIDE DEF t
    <3>2. \A i \in 1..Len(t) : last + i \in DOMAIN s /\ last + i > last
      BY <1>2, <1>3, <3>1
    <3>3. t \in Seq(EventType)
      BY <1>2, <1>3 DEF t
    <3>4. Len(t) \in Nat /\ DOMAIN t = 1..Len(t)
      BY <3>3
    <3> QED BY <3>1, <3>2, <3>4, Zenon
  <2>3. last = Len(s) \/ last < Len(s)
    <3>1. last \in Nat /\ Len(s) \in Nat /\ last <= Len(s)
      BY <1>2, <1>3, Zenon
    <3> QED BY <3>1
  <2> HIDE DEF t
  <2> QED BY <2>1, <2>2, <2>3
<1> HIDE DEF t
<1>5. \A i \in DOMAIN t : t[i] \in EventType /\ t[i].state = "UpAsync" /\ \E j \in DOMAIN s : t[i] = s[j]
  BY <1>2, <1>3, <1>4
<1>6. \A i \in DOMAIN t : Release(t[i].key) \in EventType
  <2>1. \A event \in EventType : event.key \in EventKeys
    BY EventTypeIs
  <2>2. \A key \in EventKeys : Release(key) \in EventType
    BY EventHasType, StatesAre DEF Release
  <2> QED BY <1>5, <2>1, <2>2
<1>7. f \in [1..Len(t) -> EventType] /\ \A i \in 1..Len(t) : f[i] = Release(t[i].key)
  BY <1>4, <1>6
<1> HIDE DEF f
<1>8. e \in Seq(EventType) /\ DOMAIN e = 1..Len(t) /\ \A i \in DOMAIN e : e[i] = Release(t[i].key)
  <2>1. f \in Seq(EventType) /\ Len(f) = Len(t) /\ e = f
    BY <1>4, <1>7, MapIs
  <2> QED BY <1>7, <2>1
<1> HIDE DEF e
<1>9. \A i \in DOMAIN e : e[i].key = t[i].key /\ e[i].state = "Up"
  BY <1>8, EventIs DEF Release
<1>10. CASE q = p
  BY <1>10
<1>11. CASE q = Put(p, e)
  <2>1. q \in ParserType /\ q.sequence = s \o e /\ q.buffer = p.buffer /\ q.pressed = p.pressed
    BY <1>8, <1>11, PutIs DEF s
  <2>2. ASSUME NEW not, Fine(p, not) PROVE Fine(q, not)
    <3>1. ASSUME NEW i \in DOMAIN e, IsRelease(e[i]) PROVE e[i].key \in not \cup DownKeys(s)
      <4>1. PICK j \in DOMAIN s : t[i] = s[j] /\ s[j].state = "UpAsync"
        BY <1>4, <1>5, <1>8
      <4>2. IsRelease(s[j]) /\ s[j].key = e[i].key
        BY <1>9, <3>1, <4>1 DEF IsRelease
      <4>3. \/ s[j].key \in not
            \/ \E k \in DOMAIN s : s[k].key = s[j].key /\ s[k].state = "Down"
        BY <2>2, <4>2 DEF Fine, Paired, Releases, s
      <4>4. s[j].key \in EventKeys
        BY <1>2, EventTypeIs
      <4> QED BY <4>2, <4>3, <4>4 DEF DownKeys
    <3>2. Releases(e, not \cup DownKeys(s))
      BY <3>1 DEF Releases
    <3>3. Presses(e, ToSet(p.pressed)) /\ Nots(e, not)
      BY <1>9 DEF Presses, Nots, IsPress
    <3>4. Fits(p, e, q.pressed, not)
      BY <2>1, <3>2, <3>3 DEF Fits, s
    <3> QED BY <1>8, <2>1, <2>2, <3>4, FineAppended DEF s
  <2> QED BY <2>1, <2>2
<1> QED BY <1>1, <1>10, <1>11

\* The keys of a group in parentheses that may follow in any order.
LEMMA TogetherFine ==
  ASSUME NEW p \in ParserType, NEW q, q = Put(p, Events(p.buffer, "DownAsync"))
  PROVE  /\ q \in ParserType /\ q.buffer = p.buffer /\ q.pressed = p.pressed
         /\ \A not : Fine(p, not) => Fine(q, not)
<1> DEFINE e == Events(p.buffer, "DownAsync")
<1>1. p.buffer \in Seq(EventKeys)
  BY ParserIs
<1>2. e \in Seq(EventType) /\ Len(e) = Len(p.buffer) /\ \A i \in 1..Len(p.buffer) : e[i] = Event(p.buffer[i], "DownAsync")
  BY <1>1, EventsAre, StatesAre
<1>3. q = Put(p, e)
  OBVIOUS
<1> HIDE DEF e
<1>4. \A i \in DOMAIN e : e[i].state = "DownAsync"
  BY <1>2, EventIs
<1>5. q \in ParserType /\ q.sequence = p.sequence \o e /\ q.buffer = p.buffer /\ q.pressed = p.pressed
  BY <1>2, <1>3, PutIs
<1>6. ASSUME NEW not, Fine(p, not) PROVE Fine(q, not)
  <2>1. Presses(e, ToSet(q.pressed)) /\ Releases(e, not \cup DownKeys(p.sequence)) /\ Nots(e, not)
    BY <1>4 DEF Presses, Releases, Nots, IsPress, IsRelease
  <2>2. Fits(p, e, q.pressed, not)
    BY <1>5, <2>1 DEF Fits
  <2> QED BY <1>2, <1>5, <1>6, <2>2, FineAppended
<1> QED BY <1>5, <1>6

\* An event that neither presses nor releases.
LEMMA MarkFine ==
  ASSUME NEW p \in ParserType, NEW event \in EventType, NEW q, q = Put(p, <<event>>),
         ~IsPress(event), ~IsRelease(event), event.state # "Not"
  PROVE  /\ q \in ParserType /\ q.buffer = p.buffer /\ q.pressed = p.pressed
         /\ \A not : Fine(p, not) => Fine(q, not)
<1>1. <<event>> \in Seq(EventType)
  OBVIOUS
<1>2. q \in ParserType /\ q.sequence = p.sequence \o <<event>> /\ q.buffer = p.buffer /\ q.pressed = p.pressed
  BY <1>1, PutIs
<1>3. ASSUME NEW not, Fine(p, not) PROVE Fine(q, not)
  BY <1>2, <1>3, OneMore
<1> QED BY <1>2, <1>3

-----------------------------------------------------------------------------
(***************************************************************************)
(* Literals: keys that are typed, between changes of the modifiers. What   *)
(* the modifiers press they release later, at another key or in the end,   *)
(* and what they release they pressed before.                              *)
(***************************************************************************)

\* Some events M[i] and a key: the events are behind from[i] and not behind
\* to[i], the key follows, all of it before the next ones.
TypedLies(s, n, M, keys, up, from, to) ==
  /\ \A i \in 1..n : \A x \in ToSet(M[i]) : \E pos \in DOMAIN s : s[pos] = x /\ from[i] < pos /\ pos <= to[i]
  /\ \A i \in 1..n : /\ to[i] + 1 \in DOMAIN s /\ s[to[i] + 1] = Press(keys[i])
                     /\ to[i] + 2 \in DOMAIN s /\ s[to[i] + 2] = Event(keys[i], up)
  /\ \A pos \in DOMAIN s : \E i \in 1..n :
       \/ s[pos] \in ToSet(M[i]) /\ from[i] < pos /\ pos <= to[i]
       \/ pos = to[i] + 1
       \/ pos = to[i] + 2
  /\ \A i, j \in 1..n : i < j => to[i] + 2 <= from[j]

LEMMA StrokeTypes ==
  ASSUME NEW key \in DeviceKeys, NEW up \in {"Up", "UpAsync"}
  PROVE  /\ Press(key) \in EventType /\ Event(key, up) \in EventType
         /\ Press(key).key = key /\ Press(key).state = "Down" /\ ~IsRelease(Press(key))
         /\ Event(key, up).key = key /\ Event(key, up).state = up
         /\ key # "timeout" /\ Ends(Event(key, up)) /\ ~IsPress(Event(key, up))
<1>1. key \in EventKeys /\ key # "timeout"
  BY NamedAreEventKeys, NamedAreNoTimeouts DEF NamedKeys
<1>2. Press(key) \in EventType /\ Event(key, up) \in EventType
  BY <1>1, EventHasType, StatesAre DEF Press
<1> QED BY <1>1, <1>2, EventIs DEF Press, Ends, IsRelease, IsPress

\* One of the parts: events, and a key that is typed.
LEMMA PartIs ==
  ASSUME NEW a \in Seq(EventType), NEW key \in DeviceKeys, NEW up \in {"Up", "UpAsync"},
         NEW p, p = a \o <<Press(key), Event(key, up)>>
  PROVE  /\ p \in Seq(EventType) /\ Len(a) \in Nat /\ DOMAIN a = 1..Len(a) /\ Len(p) = Len(a) + 2
         /\ \A k \in 1..Len(a) : p[k] = a[k]
         /\ p[Len(a) + 1] = Press(key) /\ p[Len(a) + 2] = Event(key, up)
<1> DEFINE c == <<Press(key), Event(key, up)>>
<1>1. c \in Seq(EventType) /\ Len(c) = 2 /\ c[1] = Press(key) /\ c[2] = Event(key, up)
  BY StrokeTypes
<1>2. p = a \o c
  OBVIOUS
<1> HIDE DEF c
<1>3. /\ a \o c \in Seq(EventType) /\ Len(a \o c) = Len(a) + Len(c)
      /\ \A k \in 1..Len(a) : (a \o c)[k] = a[k]
      /\ \A k \in 1..Len(c) : (a \o c)[Len(a) + k] = c[k]
  <2>1. c \in Seq(EventType)
    BY <1>1
  <2> QED BY <2>1, Concatenation
<1>4. 1 \in 1..Len(c) /\ 2 \in 1..Len(c)
  BY <1>1
<1>5. (a \o c)[Len(a) + 1] = c[1] /\ (a \o c)[Len(a) + 2] = c[2]
  BY <1>3, <1>4
<1>6. Len(a) \in Nat /\ DOMAIN a = 1..Len(a)
  OBVIOUS
<1> QED BY <1>1, <1>2, <1>3, <1>5, <1>6

LEMMA UpToTwoMore ==
  ASSUME NEW l \in Nat, NEW k \in 1..(l + 2)
  PROVE  k \in 1..l \/ k = l + 1 \/ k = l + 2
OBVIOUS

LEMMA TypedIs ==
  ASSUME NEW n \in Nat, NEW M \in [1..n -> Seq(EventType)], NEW keys \in [1..n -> DeviceKeys],
         NEW up \in {"Up", "UpAsync"}, NEW P \in [1..n -> Seq(EventType)],
         \A i \in 1..n : P[i] = M[i] \o <<Press(keys[i]), Event(keys[i], up)>>,
         NEW s, s = FlattenSeq(P)
  PROVE  s \in Seq(EventType) /\ \E from, to \in [1..n -> Nat] : TypedLies(s, n, M, keys, up, from, to)
<1>1. ASSUME NEW i \in 1..n
      PROVE  /\ P[i] \in Seq(EventType) /\ Len(M[i]) \in Nat /\ DOMAIN M[i] = 1..Len(M[i])
             /\ Len(P[i]) = Len(M[i]) + 2
             /\ \A k \in 1..Len(M[i]) : P[i][k] = M[i][k]
             /\ P[i][Len(M[i]) + 1] = Press(keys[i]) /\ P[i][Len(M[i]) + 2] = Event(keys[i], up)
  <2> DEFINE a == M[i]
             key == keys[i]
             p == P[i]
  <2>1. a \in Seq(EventType) /\ key \in DeviceKeys /\ p = a \o <<Press(key), Event(key, up)>>
    OBVIOUS
  <2> HIDE DEF a, key, p
  <2>2. p \in Seq(EventType) /\ Len(a) \in Nat
    BY <2>1, PartIs
  <2>3. DOMAIN a = 1..Len(a) /\ Len(p) = Len(a) + 2
    BY <2>1, PartIs
  <2>4. \A k \in 1..Len(a) : p[k] = a[k]
    BY <2>1, PartIs
  <2>5. p[Len(a) + 1] = Press(key) /\ p[Len(a) + 2] = Event(key, up)
    BY <2>1, PartIs
  <2> QED BY <2>2, <2>3, <2>4, <2>5 DEF a, key, p
<1>2. P \in Seq(Seq(EventType)) /\ Len(P) = n
  BY MapIs
<1>3. s \in Seq(EventType) /\ \E at : PartsLie(at, P, s)
  BY <1>2, FlattenParts
<1>4. PICK at : PartsLie(at, P, s)
  BY <1>3
<1>5. DOMAIN s = 1..Len(s)
  BY <1>3
<1> DEFINE len == [i \in 1..n |-> Len(M[i])]
           to == [i \in 1..n |-> at[i] + len[i]]
<1>6. \A i \in 1..n : len[i] = Len(M[i]) /\ to[i] = at[i] + len[i]
  OBVIOUS
<1>7. DOMAIN to = 1..n /\ to = [i \in 1..n |-> to[i]]
  OBVIOUS
<1> HIDE DEF len, to
<1>8. /\ at \in [1..n -> Nat]
      /\ \A i \in 1..n : \A k \in 1..(len[i] + 2) : at[i] + k \in DOMAIN s /\ s[at[i] + k] = P[i][k]
      /\ \A pos \in DOMAIN s : \E i \in 1..n : \E k \in 1..(len[i] + 2) : pos = at[i] + k
      /\ \A i, j \in 1..n : i < j => at[i] + (len[i] + 2) <= at[j]
  <2>1. /\ at \in [1..n -> Nat]
        /\ \A i \in 1..n : \A k \in 1..Len(P[i]) : at[i] + k \in 1..Len(s) /\ s[at[i] + k] = P[i][k]
        /\ \A pos \in 1..Len(s) : \E i \in 1..n : \E k \in 1..Len(P[i]) : pos = at[i] + k
        /\ \A i, j \in 1..n : i < j => at[i] + Len(P[i]) <= at[j]
    <3>1. /\ at \in [1..Len(P) -> Nat]
          /\ \A i \in 1..Len(P) : \A k \in 1..Len(P[i]) : at[i] + k \in 1..Len(s) /\ s[at[i] + k] = P[i][k]
          /\ \A pos \in 1..Len(s) : \E i \in 1..Len(P) : \E k \in 1..Len(P[i]) : pos = at[i] + k
          /\ \A i, j \in 1..Len(P) : i < j => at[i] + Len(P[i]) <= at[j]
      BY <1>4, Zenon DEF PartsLie
    <3>2. Len(P) = n
      BY <1>2
    <3> DEFINE m == Len(P)
    <3>3. /\ at \in [1..m -> Nat]
          /\ \A i \in 1..m : \A k \in 1..Len(P[i]) : at[i] + k \in 1..Len(s) /\ s[at[i] + k] = P[i][k]
          /\ \A pos \in 1..Len(s) : \E i \in 1..m : \E k \in 1..Len(P[i]) : pos = at[i] + k
          /\ \A i, j \in 1..m : i < j => at[i] + Len(P[i]) <= at[j]
      BY <3>1
    <3>4. m = n
      BY <3>2
    <3> HIDE DEF m
    <3> QED BY <3>3, <3>4
  <2>2. \A i \in 1..n : Len(P[i]) = len[i] + 2
    BY <1>1, <1>6, Zenon
  <2>3. \A i \in 1..n : \A k \in 1..(len[i] + 2) : at[i] + k \in DOMAIN s /\ s[at[i] + k] = P[i][k]
    BY <1>5, <2>1, <2>2, Zenon
  <2>4. \A pos \in DOMAIN s : \E i \in 1..n : \E k \in 1..(len[i] + 2) : pos = at[i] + k
    <3> SUFFICES ASSUME NEW pos \in DOMAIN s PROVE \E i \in 1..n : \E k \in 1..(len[i] + 2) : pos = at[i] + k
      OBVIOUS
    <3>1. PICK i \in 1..n : \E k \in 1..Len(P[i]) : pos = at[i] + k
      <4>1. pos \in 1..Len(s)
        BY <1>5
      <4> QED BY <2>1, <4>1, Zenon
    <3> QED BY <2>2, <3>1, Zenon
  <2>5. \A i, j \in 1..n : i < j => at[i] + (len[i] + 2) <= at[j]
    BY <2>1, <2>2, Zenon
  <2> QED BY <2>1, <2>3, <2>4, <2>5
<1>9. \A i \in 1..n : at[i] \in Nat /\ len[i] \in Nat /\ to[i] \in Nat
  <2>1. \A i \in 1..n : at[i] \in Nat /\ len[i] \in Nat
    BY <1>1, <1>6, <1>8
  <2>2. \A a, b \in Nat : a + b \in Nat
    OBVIOUS
  <2> QED BY <1>6, <2>1, <2>2, Zenon
\* The numbers of one part.
<1>10. ASSUME NEW i \in 1..n
       PROVE  \E a, l \in Nat : a = at[i] /\ l = len[i] /\ to[i] = a + l /\ l = Len(M[i])
  BY <1>6, <1>9, Zenon
<1>11. ASSUME NEW i \in 1..n, NEW x \in ToSet(M[i])
       PROVE  \E pos \in DOMAIN s : s[pos] = x /\ at[i] < pos /\ pos <= to[i]
  <2>1. PICK a \in Nat, l \in Nat : a = at[i] /\ l = len[i] /\ to[i] = a + l /\ l = Len(M[i])
    BY <1>10
  <2>2. PICK k \in 1..l : M[i][k] = x
    <3>1. DOMAIN M[i] = 1..l
      BY <1>1, <2>1, Zenon
    <3> QED BY <3>1 DEF ToSet
  <2>3. k \in 1..(l + 2) /\ a < a + k /\ a + k <= a + l
    OBVIOUS
  <2>4. a + k \in DOMAIN s /\ s[a + k] = P[i][k] /\ P[i][k] = M[i][k]
    BY <1>1, <1>8, <2>1, <2>3, Zenon
  <2> QED BY <2>1, <2>2, <2>3, <2>4, Zenon
<1>12. ASSUME NEW i \in 1..n
       PROVE  /\ to[i] + 1 \in DOMAIN s /\ s[to[i] + 1] = Press(keys[i])
              /\ to[i] + 2 \in DOMAIN s /\ s[to[i] + 2] = Event(keys[i], up)
  <2>1. PICK a \in Nat, l \in Nat : a = at[i] /\ l = len[i] /\ to[i] = a + l /\ l = Len(M[i])
    BY <1>10
  <2>2. l + 1 \in 1..(l + 2) /\ l + 2 \in 1..(l + 2) /\ a + (l + 1) = (a + l) + 1 /\ a + (l + 2) = (a + l) + 2
    OBVIOUS
  <2>3. a + (l + 1) \in DOMAIN s /\ s[a + (l + 1)] = P[i][l + 1] /\ P[i][l + 1] = Press(keys[i])
    BY <1>1, <1>8, <2>1, <2>2, Zenon
  <2>4. a + (l + 2) \in DOMAIN s /\ s[a + (l + 2)] = P[i][l + 2] /\ P[i][l + 2] = Event(keys[i], up)
    BY <1>1, <1>8, <2>1, <2>2, Zenon
  <2> QED BY <2>1, <2>2, <2>3, <2>4, Zenon
<1>13. ASSUME NEW pos \in DOMAIN s
       PROVE  \E i \in 1..n : \/ s[pos] \in ToSet(M[i]) /\ at[i] < pos /\ pos <= to[i]
                              \/ pos = to[i] + 1
                              \/ pos = to[i] + 2
  <2>1. PICK i \in 1..n : \E k \in 1..(len[i] + 2) : pos = at[i] + k
    BY <1>8, Zenon
  <2>2. PICK a \in Nat, l \in Nat : a = at[i] /\ l = len[i] /\ to[i] = a + l /\ l = Len(M[i])
    BY <1>10
  <2>3. PICK k \in 1..(l + 2) : pos = a + k
    BY <2>1, <2>2, Zenon
  <2>4. k \in 1..l \/ k = l + 1 \/ k = l + 2
    BY UpToTwoMore, Zenon
  <2>5. CASE k \in 1..l
    <3>1. k \in 1..(l + 2) /\ a < a + k /\ a + k <= a + l
      BY <2>5
    <3>a. k \in 1..(len[i] + 2) /\ pos = at[i] + k /\ k \in 1..Len(M[i])
      BY <2>2, <2>3, <2>5, <3>1, Zenon
    <3>b. s[at[i] + k] = P[i][k]
      BY <1>8, <3>a, Zenon
    <3>2. s[pos] = M[i][k] /\ k \in DOMAIN M[i]
      BY <1>1, <3>a, <3>b, Zenon
    <3>3. s[pos] \in ToSet(M[i])
      BY <3>2 DEF ToSet
    <3> QED BY <2>2, <2>3, <3>1, <3>3, Zenon
  <2>6. a + (l + 1) = (a + l) + 1 /\ a + (l + 2) = (a + l) + 2
    OBVIOUS
  <2> QED BY <2>2, <2>3, <2>4, <2>5, <2>6, Zenon
<1>14. ASSUME NEW i \in 1..n, NEW j \in 1..n, i < j PROVE to[i] + 2 <= at[j]
  <2>1. PICK a \in Nat, l \in Nat : a = at[i] /\ l = len[i] /\ to[i] = a + l /\ l = Len(M[i])
    BY <1>10
  <2>2. a + (l + 2) <= at[j]
    BY <1>8, <1>14, <2>1, Zenon
  <2>3. a + (l + 2) = (a + l) + 2
    OBVIOUS
  <2> QED BY <2>1, <2>2, <2>3, Zenon
<1>15. to \in [1..n -> Nat]
  BY <1>7, <1>9
<1>16. TypedLies(s, n, M, keys, up, at, to)
  BY <1>11, <1>12, <1>13, <1>14, Zenon DEF TypedLies
<1> QED BY <1>3, <1>8, <1>15, <1>16, Zenon

\* What the modifiers M[i] press is released behind it, in M[j] or in the end R.
ReleasedLater(n, M, R) ==
  \A i \in 1..n : \A x \in ToSet(M[i]) : IsPress(x) =>
    \/ \E j \in 1..n : j > i /\ \E y \in ToSet(M[j]) : y.key = x.key /\ Ends(y)
    \/ \E y \in ToSet(R) : y.key = x.key /\ Ends(y)

\* What they release is pressed before it.
PressedBefore(n, M, R) ==
  /\ \A i \in 1..n : \A x \in ToSet(M[i]) : IsRelease(x) =>
       \E j \in 1..n : j < i /\ \E y \in ToSet(M[j]) : y.key = x.key /\ y.state = "Down"
  /\ \A x \in ToSet(R) : IsRelease(x) /\
       \E j \in 1..n : \E y \in ToSet(M[j]) : y.key = x.key /\ y.state = "Down"

\* A sequence of these parts and the events in the end.
LEMMA TypedIsPaired ==
  ASSUME NEW n \in Nat, NEW M \in [1..n -> Seq(EventType)], NEW keys \in [1..n -> DeviceKeys],
         NEW up \in {"Up", "UpAsync"}, NEW s \in Seq(EventType), NEW R \in Seq(EventType),
         NEW from \in [1..n -> Nat], NEW to \in [1..n -> Nat],
         TypedLies(s, n, M, keys, up, from, to),
         ReleasedLater(n, M, R), PressedBefore(n, M, R),
         NEW b, b = s \o R
  PROVE  b \in Seq(EventType) /\ Presses(b, {}) /\ Releases(b, {}) /\ Nots(b, {})
<1>1. /\ b \in Seq(EventType)
      /\ \A i \in DOMAIN s : i \in DOMAIN b /\ b[i] = s[i]
      /\ \A i \in DOMAIN R : /\ Len(s) + i \in DOMAIN b /\ b[Len(s) + i] = R[i]
                             /\ \A j \in DOMAIN s : j < Len(s) + i
      /\ \A i \in DOMAIN b : i \in DOMAIN s \/ \E k \in DOMAIN R : i = Len(s) + k
      /\ DOMAIN s \subseteq Nat /\ DOMAIN R \subseteq Nat /\ Len(s) \in Nat
  BY Appended
<1>2. DOMAIN b \subseteq Int
  BY <1>1
<1>3. ASSUME NEW i \in 1..n, NEW x \in ToSet(M[i])
      PROVE  \E pos \in DOMAIN b : b[pos] = x /\ from[i] < pos /\ pos <= to[i]
  <2>1. PICK pos \in DOMAIN s : s[pos] = x /\ from[i] < pos /\ pos <= to[i]
    BY Zenon DEF TypedLies
  <2> QED BY <1>1, <2>1, Zenon
<1>4. ASSUME NEW i \in 1..n
      PROVE  /\ to[i] + 1 \in DOMAIN b /\ b[to[i] + 1] = Press(keys[i])
             /\ to[i] + 2 \in DOMAIN b /\ b[to[i] + 2] = Event(keys[i], up)
             /\ to[i] + 2 \in DOMAIN s
  <2>1. /\ to[i] + 1 \in DOMAIN s /\ s[to[i] + 1] = Press(keys[i])
        /\ to[i] + 2 \in DOMAIN s /\ s[to[i] + 2] = Event(keys[i], up)
    BY Zenon DEF TypedLies
  <2> QED BY <1>1, <2>1, Zenon
<1>5. ASSUME NEW x \in ToSet(R)
      PROVE  \E pos \in DOMAIN b : b[pos] = x /\ \A j \in DOMAIN s : j < pos
  <2>1. PICK k \in DOMAIN R : R[k] = x
    BY DEF ToSet
  <2> QED BY <1>1, <2>1, Zenon
<1>6. ASSUME NEW pos \in DOMAIN b
      PROVE  \/ \E i \in 1..n : \/ b[pos] \in ToSet(M[i]) /\ from[i] < pos /\ pos <= to[i]
                                \/ pos = to[i] + 1
                                \/ pos = to[i] + 2
             \/ b[pos] \in ToSet(R) /\ \A j \in DOMAIN s : j < pos
  <2>1. CASE pos \in DOMAIN s
    <3>1. \E i \in 1..n : \/ s[pos] \in ToSet(M[i]) /\ from[i] < pos /\ pos <= to[i]
                          \/ pos = to[i] + 1
                          \/ pos = to[i] + 2
      BY <2>1, Zenon DEF TypedLies
    <3>2. b[pos] = s[pos]
      BY <1>1, <2>1
    <3> QED BY <3>1, <3>2, Zenon
  <2>2. CASE pos \notin DOMAIN s
    <3>1. PICK k \in DOMAIN R : pos = Len(s) + k
      BY <1>1, <2>2
    <3>2. R[k] \in ToSet(R)
      BY DEF ToSet
    <3> QED BY <1>1, <3>1, <3>2, Zenon
  <2> QED BY <2>1, <2>2
<1>7. /\ \A i \in 1..n : from[i] \in Int /\ to[i] \in Int
      /\ \A i, j \in 1..n : i < j => to[i] + 2 <= from[j]
  <2>1. \A i, j \in 1..n : i < j => to[i] + 2 <= from[j]
    BY Zenon DEF TypedLies
  <2> QED BY <2>1
<1>8. \A i \in 1..n : keys[i] \in DeviceKeys
  OBVIOUS
<1>9. Presses(b, {})
  <2> SUFFICES ASSUME NEW pos \in DOMAIN b, IsPress(b[pos])
               PROVE  \E j \in DOMAIN b : j > pos /\ b[j].key = b[pos].key /\ Ends(b[j])
    BY DEF Presses
  <2>1. ASSUME NEW i \in 1..n, b[pos] \in ToSet(M[i]), pos <= to[i]
        PROVE  \E j \in DOMAIN b : j > pos /\ b[j].key = b[pos].key /\ Ends(b[j])
    <3>1. CASE \E j \in 1..n : j > i /\ \E y \in ToSet(M[j]) : y.key = b[pos].key /\ Ends(y)
      <4>1. PICK j \in 1..n : j > i /\ \E y \in ToSet(M[j]) : y.key = b[pos].key /\ Ends(y)
        BY <3>1
      <4>2. PICK y \in ToSet(M[j]) : y.key = b[pos].key /\ Ends(y)
        BY <4>1
      <4>3. PICK later \in DOMAIN b : b[later] = y /\ from[j] < later
        BY <1>3
      <4>4. later > pos
        <5>1. i < j
          BY <4>1
        <5>2. to[i] + 2 <= from[j] /\ to[i] \in Int /\ from[j] \in Int
          BY <1>7, <5>1
        <5>3. later \in Int /\ pos \in Int
          BY <1>2
        <5> QED BY <2>1, <4>3, <5>2, <5>3
      <4> QED BY <4>2, <4>3, <4>4
    <3>2. CASE \E y \in ToSet(R) : y.key = b[pos].key /\ Ends(y)
      <4>1. PICK y \in ToSet(R) : y.key = b[pos].key /\ Ends(y)
        BY <3>2
      <4>2. PICK later \in DOMAIN b : b[later] = y /\ \A j \in DOMAIN s : j < later
        BY <1>5
      <4>3. later > pos
        <5>1. to[i] + 2 < later
          BY <1>4, <4>2, Zenon
        <5>2. to[i] \in Int /\ later \in Int /\ pos \in Int
          BY <1>2, <1>7
        <5> QED BY <2>1, <5>1, <5>2
      <4> QED BY <4>1, <4>2, <4>3
    <3> QED BY <2>1, <3>1, <3>2, Zenon DEF ReleasedLater
  <2>2. ASSUME NEW i \in 1..n, pos = to[i] + 1
        PROVE  \E j \in DOMAIN b : j > pos /\ b[j].key = b[pos].key /\ Ends(b[j])
    <3> DEFINE j == to[i] + 2
    <3>1. j > pos
      <4>1. to[i] \in Int
        BY <1>7
      <4> QED BY <4>1, <2>2
    <3>2. j \in DOMAIN b /\ b[j] = Event(keys[i], up) /\ b[pos] = Press(keys[i])
      BY <1>4, <2>2
    <3> HIDE DEF j
    <3>3. b[j].key = b[pos].key /\ Ends(b[j])
      <4>1. keys[i] \in DeviceKeys
        BY <1>8
      <4>2. Press(keys[i]).key = keys[i] /\ Event(keys[i], up).key = keys[i] /\ Ends(Event(keys[i], up))
        BY <4>1, StrokeTypes
      <4> QED BY <3>2, <4>2, Zenon
    <3> QED BY <3>1, <3>2, <3>3
  <2>3. ASSUME NEW i \in 1..n, pos = to[i] + 2 PROVE FALSE
    <3>1. b[pos] = Event(keys[i], up)
      BY <1>4, <2>3, Zenon
    <3>2. ~IsPress(Event(keys[i], up))
      BY <1>8, StrokeTypes
    <3> QED BY <3>1, <3>2
  <2>4. b[pos] \notin ToSet(R)
    <3>1. ~IsRelease(b[pos])
      BY DEF IsPress, IsRelease
    <3> QED BY <3>1, Zenon DEF PressedBefore
  <2> QED BY <1>6, <2>1, <2>2, <2>3, <2>4, Zenon
<1>10. Releases(b, {})
  <2> SUFFICES ASSUME NEW pos \in DOMAIN b, IsRelease(b[pos])
               PROVE  \E j \in DOMAIN b : j < pos /\ b[j].key = b[pos].key /\ b[j].state = "Down"
    BY DEF Releases
  <2>1. ASSUME NEW i \in 1..n, b[pos] \in ToSet(M[i]), from[i] < pos
        PROVE  \E j \in DOMAIN b : j < pos /\ b[j].key = b[pos].key /\ b[j].state = "Down"
    <3>1. PICK j \in 1..n : j < i /\ \E y \in ToSet(M[j]) : y.key = b[pos].key /\ y.state = "Down"
      BY <2>1, Zenon DEF PressedBefore
    <3>2. PICK y \in ToSet(M[j]) : y.key = b[pos].key /\ y.state = "Down"
      BY <3>1
    <3>3. PICK earlier \in DOMAIN b : b[earlier] = y /\ earlier <= to[j]
      BY <1>3
    <3>4. earlier < pos
      <4>1. to[j] + 2 <= from[i] /\ to[j] \in Int /\ from[i] \in Int
        BY <1>7, <3>1
      <4>2. earlier \in Int /\ pos \in Int
        BY <1>2
      <4> QED BY <2>1, <3>3, <4>1, <4>2
    <3> QED BY <3>2, <3>3, <3>4
  <2>2. ASSUME NEW i \in 1..n, pos = to[i] + 1 PROVE FALSE
    <3>1. b[pos] = Press(keys[i])
      BY <1>4, <2>2, Zenon
    <3>2. ~IsRelease(Press(keys[i]))
      BY <1>8, StrokeTypes
    <3> QED BY <3>1, <3>2
  <2>3. ASSUME NEW i \in 1..n, pos = to[i] + 2
        PROVE  \E j \in DOMAIN b : j < pos /\ b[j].key = b[pos].key /\ b[j].state = "Down"
    <3> DEFINE j == to[i] + 1
    <3>1. j < pos
      BY <1>7, <2>3
    <3>2. j \in DOMAIN b /\ b[j] = Press(keys[i]) /\ b[pos] = Event(keys[i], up)
      BY <1>4, <2>3
    <3> HIDE DEF j
    <3>3. b[j].key = b[pos].key /\ b[j].state = "Down"
      <4>1. b[j].key = keys[i] /\ b[j].state = "Down"
        BY <1>8, <3>2, StrokeTypes
      <4>2. b[pos].key = keys[i]
        <5>1. b[pos] = Event(keys[i], up)
          BY <3>2
        <5> QED BY <5>1, EventIs
      <4> QED BY <4>1, <4>2
    <3> QED BY <3>1, <3>2, <3>3
  <2>4. ASSUME b[pos] \in ToSet(R), \A j \in DOMAIN s : j < pos
        PROVE  \E j \in DOMAIN b : j < pos /\ b[j].key = b[pos].key /\ b[j].state = "Down"
    <3>1. PICK j \in 1..n : \E y \in ToSet(M[j]) : y.key = b[pos].key /\ y.state = "Down"
      BY <2>4, Zenon DEF PressedBefore
    <3>2. PICK y \in ToSet(M[j]) : y.key = b[pos].key /\ y.state = "Down"
      BY <3>1
    <3>3. PICK earlier \in DOMAIN b : b[earlier] = y /\ earlier <= to[j]
      BY <1>3
    <3>4. earlier < pos
      <4>1. to[j] + 2 < pos
        BY <1>4, <2>4, Zenon
      <4>2. to[j] \in Int /\ earlier \in Int /\ pos \in Int
        BY <1>2, <1>7
      <4> QED BY <3>3, <4>1, <4>2
    <3> QED BY <3>2, <3>3, <3>4
  <2> QED BY <1>6, <2>1, <2>2, <2>3, <2>4, Zenon
<1>11. Nots(b, {})
  <2> SUFFICES ASSUME NEW pos \in DOMAIN b, b[pos].state = "Not"
               PROVE  \E j \in DOMAIN b : j > pos /\ b[j].state = "Down" /\ b[j].key # "timeout"
    BY DEF Nots
  <2>1. ASSUME NEW i \in 1..n, pos <= to[i]
        PROVE  \E j \in DOMAIN b : j > pos /\ b[j].state = "Down" /\ b[j].key # "timeout"
    <3> DEFINE j == to[i] + 1
    <3>1. j > pos
      BY <1>2, <1>7, <2>1
    <3>2. j \in DOMAIN b /\ b[j] = Press(keys[i])
      BY <1>4
    <3> HIDE DEF j
    <3>3. b[j].key # "timeout" /\ b[j].state = "Down"
      BY <1>8, <3>2, StrokeTypes
    <3> QED BY <3>1, <3>2, <3>3
  <2>2. ASSUME NEW i \in 1..n, pos = to[i] + 1 \/ pos = to[i] + 2 PROVE FALSE
    <3>1. b[pos] = Press(keys[i]) \/ b[pos] = Event(keys[i], up)
      BY <1>4, <2>2, Zenon
    <3>2. b[pos].state = "Down" \/ b[pos].state = up
      BY <1>8, <3>1, StrokeTypes
    <3> QED BY <3>2
  <2>3. b[pos] \notin ToSet(R)
    <3>1. ~IsRelease(b[pos])
      BY DEF IsRelease
    <3> QED BY <3>1, Zenon DEF PressedBefore
  <2> QED BY <1>6, <2>1, <2>2, <2>3, Zenon
<1> QED BY <1>1, <1>9, <1>10, <1>11

\* The modifiers of the characters are D[1] to D[n]. M[i] presses those of D[i]
\* that were not pressed before, releases the others, and R those of the last.
Changes(n, D, M, R) ==
  /\ D \in [0..n -> SUBSET ModKeys] /\ D[0] = {}
  /\ \A i \in 1..n : \A x \in ToSet(M[i]) :
       (IsPress(x) => x.key \in D[i]) /\ (IsRelease(x) => x.key \in D[i - 1])
  /\ \A i \in 1..n : \A k \in D[i] \ D[i - 1] : \E x \in ToSet(M[i]) : x.key = k /\ x.state = "Down"
  /\ \A i \in 1..n : \A k \in D[i - 1] \ D[i] : \E x \in ToSet(M[i]) : x.key = k /\ Ends(x)
  /\ \A x \in ToSet(R) : IsRelease(x) /\ x.key \in D[n]
  /\ \A k \in D[n] : \E x \in ToSet(R) : x.key = k /\ Ends(x)

LEMMA ChangesArePaired ==
  ASSUME NEW n \in Nat, NEW D, NEW M, NEW R, Changes(n, D, M, R)
  PROVE  ReleasedLater(n, M, R) /\ PressedBefore(n, M, R)
\* A modifier that is down was pressed here or before.
<1>1. ASSUME NEW i \in 1..n, NEW k \in D[i]
      PROVE  \E j \in 1..n : j <= i /\ \E x \in ToSet(M[j]) : x.key = k /\ x.state = "Down"
  <2> DEFINE Pressed(m) == \E j \in 1..n : j <= m /\ \E x \in ToSet(M[j]) : x.key = k /\ x.state = "Down"
             Bad == {m \in Nat : m \in 1..n /\ k \in D[m] /\ ~Pressed(m)}
  <2> SUFFICES ASSUME Bad # {} PROVE FALSE
    OBVIOUS
  <2>1. PICK m \in Bad : \A l \in Bad : m <= l
    BY LeastElement
  <2>2. m \in Nat /\ m \in 1..n /\ k \in D[m] /\ ~Pressed(m)
    BY <2>1
  <2> HIDE DEF Pressed
  <2>3. CASE k \in D[m - 1]
    <3>1. m # 1
      BY <2>3 DEF Changes
    <3>2. m - 1 \in Nat /\ m - 1 \in 1..n /\ ~(m <= m - 1)
      BY <2>2, <3>1
    <3>3. Pressed(m - 1)
      BY <2>1, <2>3, <3>2
    <3>4. \A j \in 1..n : j <= m - 1 => j <= m
      BY <2>2
    <3> QED BY <2>2, <3>3, <3>4 DEF Pressed
  <2>4. CASE k \notin D[m - 1]
    <3>1. \E x \in ToSet(M[m]) : x.key = k /\ x.state = "Down"
      BY <2>2, <2>4 DEF Changes
    <3>2. m <= m
      BY <2>2
    <3> QED BY <2>2, <3>1, <3>2 DEF Pressed
  <2> QED BY <2>3, <2>4
\* A modifier that is down is released later.
<1>2. ASSUME NEW i \in 1..n, NEW k \in D[i]
      PROVE  \/ \E j \in 1..n : j > i /\ \E y \in ToSet(M[j]) : y.key = k /\ Ends(y)
             \/ \E y \in ToSet(R) : y.key = k /\ Ends(y)
  <2> DEFINE T == {j \in Nat : i < j /\ j <= n /\ k \notin D[j]}
  <2>0. i \in Nat /\ 1 <= i /\ i <= n
    OBVIOUS
  <2>1. CASE T = {}
    <3>1. k \in D[n]
      <4>1. n \notin T
        BY <2>1
      <4>2. n = i \/ (i < n /\ n <= n)
        BY <2>0
      <4> QED BY <4>1, <4>2
    <3> QED BY <3>1 DEF Changes
  <2>2. CASE T # {}
    <3>1. PICK j \in T : \A l \in T : j <= l
      BY <2>2, LeastElement
    <3>2. j \in Nat /\ i < j /\ j <= n /\ k \notin D[j]
      BY <3>1
    <3>3. j - 1 \in Nat /\ i <= j - 1 /\ j - 1 <= n /\ ~(j <= j - 1) /\ j \in 1..n
      BY <2>0, <3>2
    <3>4. k \in D[j - 1]
      <4>1. j - 1 \notin T
        BY <3>1, <3>3
      <4>2. j - 1 = i \/ i < j - 1
        BY <2>0, <3>3
      <4> QED BY <3>3, <4>1, <4>2
    <3>5. \E x \in ToSet(M[j]) : x.key = k /\ Ends(x)
      BY <3>2, <3>3, <3>4 DEF Changes
    <3>6. j > i
      BY <2>0, <3>2
    <3> QED BY <3>3, <3>5, <3>6
  <2> QED BY <2>1, <2>2
<1>3. ReleasedLater(n, M, R)
  <2> SUFFICES ASSUME NEW i \in 1..n, NEW x \in ToSet(M[i]), IsPress(x)
               PROVE  \/ \E j \in 1..n : j > i /\ \E y \in ToSet(M[j]) : y.key = x.key /\ Ends(y)
                      \/ \E y \in ToSet(R) : y.key = x.key /\ Ends(y)
    BY DEF ReleasedLater
  <2>1. x.key \in D[i]
    BY DEF Changes
  <2> QED BY <1>2, <2>1, Zenon
<1>4. ASSUME NEW i \in 1..n, NEW x \in ToSet(M[i]), IsRelease(x)
      PROVE  \E j \in 1..n : j < i /\ \E y \in ToSet(M[j]) : y.key = x.key /\ y.state = "Down"
  <2>1. x.key \in D[i - 1]
    BY <1>4 DEF Changes
  <2>2. i # 1
    BY <2>1 DEF Changes
  <2>3. i - 1 \in 1..n
    BY <2>2
  <2>4. PICK j \in 1..n : j <= i - 1 /\ \E y \in ToSet(M[j]) : y.key = x.key /\ y.state = "Down"
    BY <1>1, <2>1, <2>3
  <2>5. j < i
    BY <2>4
  <2> QED BY <2>4, <2>5
<1>5. ASSUME NEW x \in ToSet(R)
      PROVE  IsRelease(x) /\ \E j \in 1..n : \E y \in ToSet(M[j]) : y.key = x.key /\ y.state = "Down"
  <2>1. IsRelease(x) /\ x.key \in D[n] /\ D[0] = {}
    BY DEF Changes
  <2>2. n \in 1..n
    BY <2>1
  <2> QED BY <1>1, <2>1, <2>2
<1> QED BY <1>3, <1>4, <1>5 DEF PressedBefore

\* What is added for each of the modifiers.
EachModifier(g) == FlattenSeq(SubSeq([m \in DOMAIN ModifierKeys |-> g[ModifierKeys[m]]], 1, Len(ModifierKeys)))

LEMMA ModifierKeysIn == \A m \in DOMAIN ModifierKeys : ModifierKeys[m] \in ModKeys
BY ModifierKeysAre, Zenon DEF ToSet

LEMMA ForEachModifier ==
  ASSUME NEW g \in [ModKeys -> Seq(EventType)], NEW e, e = EachModifier(g)
  PROVE  e \in Seq(EventType) /\ \A x : x \in ToSet(e) <=> \E k \in ModKeys : x \in ToSet(g[k])
<1>1. /\ ModifierKeys \in Seq(ModKeys) /\ Len(ModifierKeys) = 4 /\ DOMAIN ModifierKeys = 1..4
      /\ \A k : k \in ModKeys <=> \E m \in 1..4 : k = ModifierKeys[m]
  <2>1. ModifierKeys \in Seq(ModKeys) /\ Len(ModifierKeys) = 4 /\ ToSet(ModifierKeys) = ModKeys
    BY ModifierKeysAre
  <2>2. DOMAIN ModifierKeys = 1..4
    BY <2>1
  <2>3. \A k : k \in ModKeys <=> \E m \in 1..4 : k = ModifierKeys[m]
    BY <2>1, <2>2 DEF ToSet
  <2> QED BY <2>1, <2>2, <2>3
<1> DEFINE f == [m \in 1..4 |-> g[ModifierKeys[m]]]
<1>2. e = FlattenSeq(SubSeq(f, 1, 4))
  BY <1>1 DEF EachModifier
<1>3. f \in [1..4 -> Seq(EventType)] /\ \A m \in 1..4 : f[m] = g[ModifierKeys[m]]
  BY <1>1
<1> HIDE DEF f
<1>4. f \in Seq(Seq(EventType)) /\ Len(f) = 4 /\ SubSeq(f, 1, 4) = f
  BY <1>3, MapIs
<1>5. FlattenSeq(f) \in Seq(EventType) /\ \A x : x \in ToSet(FlattenSeq(f)) <=> \E m \in 1..4 : x \in ToSet(f[m])
  BY <1>4, FlattenElements
<1>6. e = FlattenSeq(f)
  BY <1>2, <1>4
<1>7. ASSUME NEW x PROVE (\E m \in 1..4 : x \in ToSet(f[m])) <=> \E k \in ModKeys : x \in ToSet(g[k])
  <2>1. ASSUME NEW m \in 1..4, x \in ToSet(f[m]) PROVE \E k \in ModKeys : x \in ToSet(g[k])
    BY <1>1, <1>3, <2>1, Zenon
  <2>2. ASSUME NEW k \in ModKeys, x \in ToSet(g[k]) PROVE \E m \in 1..4 : x \in ToSet(f[m])
    <3>1. PICK m \in 1..4 : k = ModifierKeys[m]
      BY <1>1, Zenon
    <3> QED BY <1>3, <2>2, <3>1, Zenon
  <2> QED BY <2>1, <2>2
<1> QED BY <1>5, <1>6, <1>7

LEMMA PairSet ==
  ASSUME NEW a, NEW b
  PROVE  ToSet(<<a, b>>) = {a, b}
<1>1. DOMAIN <<a, b>> = {1, 2} /\ <<a, b>>[1] = a /\ <<a, b>>[2] = b
  OBVIOUS
<1> QED BY <1>1 DEF ToSet

\* What is told of the events e that one modifier adds.
ChangesOne(e, key, isDown, wasDown) ==
  /\ e \in Seq(EventType)
  /\ \A x \in ToSet(e) : x.key = key /\ (IsPress(x) => isDown) /\ (IsRelease(x) => wasDown)
  /\ isDown /\ ~wasDown => \E x \in ToSet(e) : x.key = key /\ x.state = "Down"
  /\ wasDown /\ ~isDown => \E x \in ToSet(e) : x.key = key /\ Ends(x)

LEMMA ModifierEvents ==
  ASSUME NEW key \in ModKeys
  PROVE  /\ \A state \in KeyStates : Event(key, state) \in EventType
         /\ \A state : Event(key, state).key = key /\ Event(key, state).state = state
         /\ Async(key) = Event(key, "UpAsync") /\ Press(key) = Event(key, "Down")
         /\ Release(key) = Event(key, "Up") /\ NotKey(key) = Event(key, "Not")
         /\ key # "timeout"
BY NamedAreEventKeys, EventHasType, EventIs DEF Async, Press, Release, NotKey, ModKeys

LEMMA InputModifierIs ==
  ASSUME NEW typed, NEW i \in Nat, NEW key \in ModKeys
  PROVE  ChangesOne(InputModifier(typed, i, key), key, key \in Modifiers(typed, i), key \in Modifiers(typed, i - 1))
<1> DEFINE isDown == key \in Modifiers(typed, i)
           wasDown == key \in Modifiers(typed, i - 1)
           up == Event(key, "UpAsync")
           also == Event(key, "DownAsync")
           down == Event(key, "Down")
           no == Event(key, "Not")
           release == Event(key, "Up")
           a == IF wasDown THEN <<up>> ELSE << >>
           b == <<also, down>>
           c == IF i = 1 THEN <<no>> ELSE << >>
           d == IF wasDown THEN <<release>> ELSE << >>
           e == InputModifier(typed, i, key)
<1>1. e = IF isDown THEN a \o b ELSE c \o d
  BY ModifierEvents DEF InputModifier
<1>2. /\ up \in EventType /\ also \in EventType /\ down \in EventType /\ no \in EventType /\ release \in EventType
      /\ up.key = key /\ also.key = key /\ down.key = key /\ no.key = key /\ release.key = key
      /\ down.state = "Down" /\ Ends(release)
      /\ ~IsRelease(also) /\ ~IsRelease(down) /\ ~IsRelease(no)
      /\ ~IsPress(up) /\ ~IsPress(no) /\ ~IsPress(release)
  <2>1. /\ \A state \in KeyStates : Event(key, state) \in EventType
        /\ \A state : Event(key, state).key = key /\ Event(key, state).state = state
        /\ key # "timeout"
    BY ModifierEvents
  <2>2. up \in EventType /\ also \in EventType /\ down \in EventType /\ no \in EventType /\ release \in EventType
    BY <2>1, StatesAre
  <2>3. /\ up.key = key /\ also.key = key /\ down.key = key /\ no.key = key /\ release.key = key
        /\ up.state = "UpAsync" /\ also.state = "DownAsync" /\ down.state = "Down"
        /\ no.state = "Not" /\ release.state = "Up"
    BY <2>1, Zenon
  <2> HIDE DEF up, also, down, no, release
  <2> QED BY <2>1, <2>2, <2>3 DEF Ends, IsRelease, IsPress
<1> HIDE DEF up, also, down, no, release, isDown, wasDown, e
<1>3. /\ a \in Seq(EventType) /\ ToSet(a) = IF wasDown THEN {up} ELSE {}
      /\ b \in Seq(EventType) /\ ToSet(b) = {also, down}
      /\ c \in Seq(EventType) /\ ToSet(c) = IF i = 1 THEN {no} ELSE {}
      /\ d \in Seq(EventType) /\ ToSet(d) = IF wasDown THEN {release} ELSE {}
  <2>1. <<up>> \in Seq(EventType) /\ b \in Seq(EventType) /\ <<no>> \in Seq(EventType)
        /\ <<release>> \in Seq(EventType) /\ << >> \in Seq(EventType)
    BY <1>2
  <2>2. ToSet(<<up>>) = {up} /\ ToSet(<<no>>) = {no} /\ ToSet(<<release>>) = {release} /\ ToSet(<< >>) = {}
    BY ShortSets, Zenon
  <2>3. ToSet(b) = {also, down}
    BY PairSet, Zenon
  <2> HIDE DEF b
  <2> QED BY <2>1, <2>2, <2>3
<1> HIDE DEF a, b, c, d
<1>4. CASE isDown
  <2>1. e \in Seq(EventType) /\ ToSet(e) = ToSet(a) \cup ToSet(b)
    <3>1. e = a \o b
      BY <1>1, <1>4
    <3>2. a \o b \in Seq(EventType)
      BY <1>3, Concatenation
    <3>3. ToSet(a \o b) = ToSet(a) \cup ToSet(b)
      <4>1. a \in Seq(EventType) /\ b \in Seq(EventType)
        BY <1>3
      <4> QED BY <4>1, ElementsAppended, Zenon
    <3> QED BY <3>1, <3>2, <3>3
  <2>2. ChangesOne(e, key, isDown, wasDown)
    BY <1>2, <1>3, <1>4, <2>1 DEF ChangesOne
  <2> QED BY <2>2 DEF e, isDown, wasDown
<1>5. CASE ~isDown
  <2>1. e \in Seq(EventType) /\ ToSet(e) = ToSet(c) \cup ToSet(d)
    <3>1. e = c \o d
      BY <1>1, <1>5
    <3>2. c \o d \in Seq(EventType)
      BY <1>3, Concatenation
    <3>3. ToSet(c \o d) = ToSet(c) \cup ToSet(d)
      <4>1. c \in Seq(EventType) /\ d \in Seq(EventType)
        BY <1>3
      <4> QED BY <4>1, ElementsAppended, Zenon
    <3> QED BY <3>1, <3>2, <3>3
  <2>2. ChangesOne(e, key, isDown, wasDown)
    BY <1>2, <1>3, <1>5, <2>1 DEF ChangesOne
  <2> QED BY <2>2 DEF e, isDown, wasDown
<1> QED BY <1>4, <1>5

LEMMA OutputModifierIs ==
  ASSUME NEW typed, NEW i \in Nat, NEW key \in ModKeys, NEW single \in BOOLEAN, i # 0
  PROVE  ChangesOne(OutputModifier(typed, i, key, single), key, key \in Modifiers(typed, i), key \in Modifiers(typed, i - 1))
<1> DEFINE isDown == key \in Modifiers(typed, i)
           wasDown == key \in Modifiers(typed, i - 1)
           down == Event(key, "Down")
           no == Event(key, "Not")
           release == Event(key, "Up")
           e == OutputModifier(typed, i, key, single)
<1>1. \/ isDown /\ e = <<down>>
      \/ ~isDown /\ ~wasDown /\ e = <<no>>
      \/ ~isDown /\ wasDown /\ e = <<release>>
      \/ (isDown <=> wasDown) /\ e = << >>
  <2>1. single /\ i = 1 => ~wasDown
    BY DEF Modifiers
  <2> QED BY <2>1, ModifierEvents DEF OutputModifier
<1>2. /\ down \in EventType /\ no \in EventType /\ release \in EventType
      /\ down.key = key /\ no.key = key /\ release.key = key
      /\ down.state = "Down" /\ Ends(release)
      /\ ~IsRelease(down) /\ ~IsRelease(no) /\ ~IsPress(no) /\ ~IsPress(release)
  <2>1. /\ \A state \in KeyStates : Event(key, state) \in EventType
        /\ \A state : Event(key, state).key = key /\ Event(key, state).state = state
        /\ key # "timeout"
    BY ModifierEvents
  <2>2. down \in EventType /\ no \in EventType /\ release \in EventType
    BY <2>1, StatesAre
  <2>3. /\ down.key = key /\ no.key = key /\ release.key = key
        /\ down.state = "Down" /\ no.state = "Not" /\ release.state = "Up"
    BY <2>1, Zenon
  <2> HIDE DEF down, no, release
  <2> QED BY <2>1, <2>2, <2>3 DEF Ends, IsRelease, IsPress
<1> HIDE DEF down, no, release, isDown, wasDown, e
<1>3. /\ <<down>> \in Seq(EventType) /\ <<no>> \in Seq(EventType)
      /\ <<release>> \in Seq(EventType) /\ << >> \in Seq(EventType)
  BY <1>2
<1>4. ToSet(<<down>>) = {down} /\ ToSet(<<no>>) = {no} /\ ToSet(<<release>>) = {release} /\ ToSet(<< >>) = {}
  BY ShortSets, Zenon
<1>5. ChangesOne(e, key, isDown, wasDown)
  <2>1. CASE isDown /\ e = <<down>>
    BY <1>2, <1>3, <1>4, <2>1 DEF ChangesOne
  <2>2. CASE ~isDown /\ ~wasDown /\ e = <<no>>
    BY <1>2, <1>3, <1>4, <2>2 DEF ChangesOne
  <2>3. CASE ~isDown /\ wasDown /\ e = <<release>>
    BY <1>2, <1>3, <1>4, <2>3 DEF ChangesOne
  <2>4. CASE (isDown <=> wasDown) /\ e = << >>
    BY <1>2, <1>3, <1>4, <2>4 DEF ChangesOne
  <2> QED BY <1>1, <2>1, <2>2, <2>3, <2>4
<1> QED BY <1>5 DEF e, isDown, wasDown

\* The modifiers of the last character are released.
LEMMA ReleaseModifiersIs ==
  ASSUME NEW typed, NEW up \in {"Up", "UpAsync"}, NEW e, e = ReleaseModifiers(typed, up),
         Modifiers(typed, Len(typed)) \subseteq ModKeys
  PROVE  /\ e \in Seq(EventType)
         /\ \A x \in ToSet(e) : IsRelease(x) /\ x.key \in Modifiers(typed, Len(typed))
         /\ \A k \in Modifiers(typed, Len(typed)) : \E x \in ToSet(e) : x.key = k /\ Ends(x)
<1> DEFINE held == Modifiers(typed, Len(typed))
           g == [key \in ModKeys |-> IF key \in held THEN <<Event(key, up)>> ELSE << >>]
<1>0. \A key \in ModKeys : Event(key, up) \in EventType /\ Event(key, up).key = key
                           /\ IsRelease(Event(key, up)) /\ Ends(Event(key, up))
  BY ModifierEvents, StatesAre DEF IsRelease, Ends
<1>1. e = EachModifier(g)
  <2>1. \A m \in DOMAIN ModifierKeys : ModifierKeys[m] \in ModKeys
    BY ModifierKeysIn
  <2>2. \A m \in DOMAIN ModifierKeys : g[ModifierKeys[m]] =
           IF ModifierKeys[m] \in held THEN <<Event(ModifierKeys[m], up)>> ELSE << >>
    BY <2>1
  <2> HIDE DEF g
  <2>3. e = FlattenSeq(SubSeq([m \in DOMAIN ModifierKeys |->
              IF ModifierKeys[m] \in held THEN <<Event(ModifierKeys[m], up)>> ELSE << >>], 1, Len(ModifierKeys)))
    BY DEF ReleaseModifiers, Map
  <2>4. [m \in DOMAIN ModifierKeys |-> g[ModifierKeys[m]]] = [m \in DOMAIN ModifierKeys |->
              IF ModifierKeys[m] \in held THEN <<Event(ModifierKeys[m], up)>> ELSE << >>]
    BY <2>2
  <2> QED BY <2>3, <2>4, Zenon DEF EachModifier
<1>2. g \in [ModKeys -> Seq(EventType)] /\ \A k \in ModKeys : g[k] = IF k \in held THEN <<Event(k, up)>> ELSE << >>
  BY <1>0
<1> HIDE DEF g
<1>3. e \in Seq(EventType) /\ \A x : x \in ToSet(e) <=> \E k \in ModKeys : x \in ToSet(g[k])
  BY <1>1, <1>2, ForEachModifier
<1>4. \A k \in ModKeys : ToSet(g[k]) = IF k \in held THEN {Event(k, up)} ELSE {}
  BY <1>2, ShortSets
<1> HIDE DEF held
<1>5. ASSUME NEW x \in ToSet(e) PROVE IsRelease(x) /\ x.key \in held
  <2>1. PICK k \in ModKeys : x \in ToSet(g[k])
    BY <1>3
  <2>2. k \in held /\ x = Event(k, up)
    BY <1>4, <2>1
  <2> QED BY <1>0, <2>2
<1>6. ASSUME NEW k \in held PROVE \E x \in ToSet(e) : x.key = k /\ Ends(x)
  <2>1. k \in ModKeys
    BY DEF held
  <2>2. Event(k, up) \in ToSet(g[k])
    BY <1>4, <2>1
  <2>3. Event(k, up) \in ToSet(e)
    BY <1>3, <2>1, <2>2
  <2> QED BY <1>0, <2>1, <2>3
<1> QED BY <1>3, <1>5, <1>6 DEF held

\* What is told of some modifiers that are down, after some were.
ModifiersChange(e, down, was) ==
  /\ e \in Seq(EventType)
  /\ \A x \in ToSet(e) : (IsPress(x) => x.key \in down) /\ (IsRelease(x) => x.key \in was)
  /\ \A k \in down \ was : \E x \in ToSet(e) : x.key = k /\ x.state = "Down"
  /\ \A k \in was \ down : \E x \in ToSet(e) : x.key = k /\ Ends(x)

\* What the four modifiers add before a character.
LEMMA ModifiersOfOne ==
  ASSUME NEW g \in [ModKeys -> Seq(EventType)], NEW down \in SUBSET ModKeys, NEW was \in SUBSET ModKeys,
         \A k \in ModKeys : ChangesOne(g[k], k, k \in down, k \in was), NEW e, e = EachModifier(g)
  PROVE  ModifiersChange(e, down, was)
<1>1. e \in Seq(EventType) /\ \A x : x \in ToSet(e) <=> \E k \in ModKeys : x \in ToSet(g[k])
  BY ForEachModifier
<1>2. \A k \in ModKeys : /\ \A x \in ToSet(g[k]) : x.key = k /\ (IsPress(x) => k \in down) /\ (IsRelease(x) => k \in was)
                         /\ k \in down /\ k \notin was => \E x \in ToSet(g[k]) : x.key = k /\ x.state = "Down"
                         /\ k \in was /\ k \notin down => \E x \in ToSet(g[k]) : x.key = k /\ Ends(x)
  BY Zenon DEF ChangesOne
<1>3. ASSUME NEW x \in ToSet(e) PROVE (IsPress(x) => x.key \in down) /\ (IsRelease(x) => x.key \in was)
  <2>1. PICK k \in ModKeys : x \in ToSet(g[k])
    BY <1>1
  <2> QED BY <1>2, <2>1, Zenon
<1>4. ASSUME NEW k \in down \ was PROVE \E x \in ToSet(e) : x.key = k /\ x.state = "Down"
  <2>1. k \in ModKeys /\ k \in down /\ k \notin was
    OBVIOUS
  <2>2. PICK x \in ToSet(g[k]) : x.key = k /\ x.state = "Down"
    BY <1>2, <2>1, Zenon
  <2> QED BY <1>1, <2>1, <2>2, Zenon
<1>5. ASSUME NEW k \in was \ down PROVE \E x \in ToSet(e) : x.key = k /\ Ends(x)
  <2>1. k \in ModKeys /\ k \in was /\ k \notin down
    OBVIOUS
  <2>2. PICK x \in ToSet(g[k]) : x.key = k /\ Ends(x)
    BY <1>2, <2>1, Zenon
  <2> QED BY <1>1, <2>1, <2>2, Zenon
<1> QED BY <1>1, <1>3, <1>4, <1>5 DEF ModifiersChange

\* The characters of a literal: their keys, and the modifiers of each.
LEMMA CharactersAre ==
  ASSUME NEW typed \in Seq(Characters)
  PROVE  /\ Len(typed) \in Nat /\ DOMAIN typed = 1..Len(typed)
         /\ \A i \in 1..Len(typed) : typed[i].key \in DeviceKeys
         /\ \A i \in 0..Len(typed) : Modifiers(typed, i) \in SUBSET ModKeys
         /\ Modifiers(typed, 0) = {}
<1>1. ToSet(ModifierKeys) = ModKeys
  BY ModifierKeysAre
<1>2. Len(typed) \in Nat /\ DOMAIN typed = 1..Len(typed) /\ \A i \in 1..Len(typed) : typed[i] \in Characters
  OBVIOUS
<1>3. \A c \in Characters : c.key \in DeviceKeys /\ c.modifiers \in SUBSET ModKeys
  BY <1>1 DEF Characters
<1>4. ASSUME NEW i \in 0..Len(typed) PROVE Modifiers(typed, i) \in SUBSET ModKeys
  <2>1. CASE i = 0
    BY <2>1 DEF Modifiers
  <2>2. CASE i # 0
    <3>1. i \in 1..Len(typed)
      BY <1>2, <2>2
    <3> QED BY <1>2, <1>3, <2>2, <3>1 DEF Modifiers
  <2> QED BY <2>1, <2>2
<1> QED BY <1>2, <1>3, <1>4 DEF Modifiers

\* A literal: the changes of its modifiers, its keys, and its last modifiers.
LEMMA LiteralIsPaired ==
  ASSUME NEW typed \in Seq(Characters), NEW M \in [1..Len(typed) -> Seq(EventType)],
         NEW up \in {"Up", "UpAsync"}, NEW R \in Seq(EventType),
         ReleasedLater(Len(typed), M, R), PressedBefore(Len(typed), M, R),
         NEW e, e = FlattenSeq([i \in DOMAIN typed |-> M[i] \o <<Press(typed[i].key), Event(typed[i].key, up)>>]) \o R
  PROVE  e \in Seq(EventType) /\ Presses(e, {}) /\ Releases(e, {}) /\ Nots(e, {})
<1> DEFINE n == Len(typed)
           keys == [i \in 1..n |-> typed[i].key]
           P == [i \in 1..n |-> M[i] \o <<Press(keys[i]), Event(keys[i], up)>>]
           s == FlattenSeq(P)
<1>1. n \in Nat /\ DOMAIN typed = 1..n /\ keys \in [1..n -> DeviceKeys] /\ \A i \in 1..n : keys[i] = typed[i].key
  BY CharactersAre
<1>2. M \in [1..n -> Seq(EventType)] /\ ReleasedLater(n, M, R) /\ PressedBefore(n, M, R)
  OBVIOUS
<1>3. e = s \o R
  <2> DEFINE Q == [i \in DOMAIN typed |-> M[i] \o <<Press(typed[i].key), Event(typed[i].key, up)>>]
  <2>1. P = Q
    BY <1>1
  <2>2. e = FlattenSeq(Q) \o R
    OBVIOUS
  <2> HIDE DEF P, Q
  <2> QED BY <2>1, <2>2
<1> HIDE DEF n, keys
<1>4. s \in Seq(EventType) /\ \E from, to \in [1..n -> Nat] : TypedLies(s, n, M, keys, up, from, to)
  <2>1. \A i \in 1..n : P[i] = M[i] \o <<Press(keys[i]), Event(keys[i], up)>>
    OBVIOUS
  <2>2. P \in [1..n -> Seq(EventType)]
    <3>1. ASSUME NEW i \in 1..n PROVE M[i] \o <<Press(keys[i]), Event(keys[i], up)>> \in Seq(EventType)
      <4>1. M[i] \in Seq(EventType) /\ keys[i] \in DeviceKeys
        BY <1>1, <1>2
      <4> QED BY <4>1, PartIs, Zenon
    <3> QED BY <3>1
  <2>3. s = FlattenSeq(P)
    OBVIOUS
  <2> HIDE DEF P, s
  <2>4. n \in Nat /\ M \in [1..n -> Seq(EventType)] /\ keys \in [1..n -> DeviceKeys]
    BY <1>1, <1>2
  <2>5. s \in Seq(EventType)
    <3>1. P \in Seq(Seq(EventType))
      BY <2>2, <2>4, MapIs
    <3> QED BY <2>3, <3>1, FlattenParts
  <2>6. \E from, to \in [1..n -> Nat] : TypedLies(s, n, M, keys, up, from, to)
    <3>1. n \in Nat
      BY <2>4
    <3>2. M \in [1..n -> Seq(EventType)]
      BY <2>4
    <3>3. keys \in [1..n -> DeviceKeys]
      BY <2>4
    <3> QED BY <2>1, <2>2, <2>3, <3>1, <3>2, <3>3, TypedIs
  <2> QED BY <2>5, <2>6
<1> HIDE DEF s
<1>5. PICK from \in [1..n -> Nat] : \E to \in [1..n -> Nat] : TypedLies(s, n, M, keys, up, from, to)
  BY <1>4
<1>6. PICK to \in [1..n -> Nat] : TypedLies(s, n, M, keys, up, from, to)
  BY <1>5
<1> QED BY <1>1, <1>2, <1>3, <1>4, <1>6, TypedIsPaired

\* The modifiers of character i.
ModifiersOf(e, typed, i) == ModifiersChange(e, Modifiers(typed, i), Modifiers(typed, i - 1))

LEMMA ModifiersArePaired ==
  ASSUME NEW typed \in Seq(Characters), NEW M, NEW up \in {"Up", "UpAsync"},
         \A i \in 1..Len(typed) : ModifiersOf(M[i], typed, i)
  PROVE  /\ ReleaseModifiers(typed, up) \in Seq(EventType)
         /\ ReleasedLater(Len(typed), M, ReleaseModifiers(typed, up))
         /\ PressedBefore(Len(typed), M, ReleaseModifiers(typed, up))
<1> DEFINE n == Len(typed)
           R == ReleaseModifiers(typed, up)
           D == [i \in 0..n |-> Modifiers(typed, i)]
<1>1. n \in Nat /\ \A i \in 0..n : Modifiers(typed, i) \in SUBSET ModKeys
  BY CharactersAre
<1>2. Modifiers(typed, 0) = {}
  BY CharactersAre
<1>3. /\ R \in Seq(EventType)
      /\ \A x \in ToSet(R) : IsRelease(x) /\ x.key \in Modifiers(typed, n)
      /\ \A k \in Modifiers(typed, n) : \E x \in ToSet(R) : x.key = k /\ Ends(x)
  <2>1. Modifiers(typed, Len(typed)) \subseteq ModKeys
    BY <1>1
  <2> HIDE DEF n
  <2>2. R = ReleaseModifiers(typed, up)
    OBVIOUS
  <2> HIDE DEF R
  <2>3. R \in Seq(EventType)
    BY <2>1, <2>2, ReleaseModifiersIs
  <2>4. \A x \in ToSet(R) : IsRelease(x) /\ x.key \in Modifiers(typed, Len(typed))
    BY <2>1, <2>2, ReleaseModifiersIs
  <2>5. \A k \in Modifiers(typed, Len(typed)) : \E x \in ToSet(R) : x.key = k /\ Ends(x)
    BY <2>1, <2>2, ReleaseModifiersIs
  <2> QED BY <2>3, <2>4, <2>5 DEF n
<1>4. \A i \in 1..n : ModifiersOf(M[i], typed, i)
  OBVIOUS
<1>5. D \in [0..n -> SUBSET ModKeys] /\ \A i \in 0..n : D[i] = Modifiers(typed, i)
  BY <1>1
<1>6. \A i \in 1..n : i \in 0..n /\ i - 1 \in 0..n
  BY <1>1
<1>7. 0 \in 0..n /\ n \in 0..n
  BY <1>1
<1> HIDE DEF n, R, D
<1>8. Changes(n, D, M, R)
  <2>1. D[0] = {} /\ D[n] = Modifiers(typed, n)
    BY <1>2, <1>5, <1>7
  <2>2. ASSUME NEW i \in 1..n PROVE ModifiersChange(M[i], D[i], D[i - 1])
    <3>1. D[i] = Modifiers(typed, i) /\ D[i - 1] = Modifiers(typed, i - 1)
      BY <1>5, <1>6
    <3>2. ModifiersChange(M[i], Modifiers(typed, i), Modifiers(typed, i - 1))
      BY <1>4, Zenon DEF ModifiersOf
    <3> QED BY <3>1, <3>2, Zenon
  <2>3. /\ \A x \in ToSet(R) : IsRelease(x) /\ x.key \in D[n]
        /\ \A k \in D[n] : \E x \in ToSet(R) : x.key = k /\ Ends(x)
    BY <1>3, <2>1
  <2>4. \A i \in 1..n : \A x \in ToSet(M[i]) : (IsPress(x) => x.key \in D[i]) /\ (IsRelease(x) => x.key \in D[i - 1])
    BY <2>2, Zenon DEF ModifiersChange
  <2>5. \A i \in 1..n : \A k \in D[i] \ D[i - 1] : \E x \in ToSet(M[i]) : x.key = k /\ x.state = "Down"
    BY <2>2, Zenon DEF ModifiersChange
  <2>6. \A i \in 1..n : \A k \in D[i - 1] \ D[i] : \E x \in ToSet(M[i]) : x.key = k /\ Ends(x)
    BY <2>2, Zenon DEF ModifiersChange
  <2>7. D \in [0..n -> SUBSET ModKeys] /\ D[0] = {}
    BY <1>5, <2>1
  <2>8. \A x \in ToSet(R) : IsRelease(x) /\ x.key \in D[n]
    BY <2>3, Zenon
  <2>9. \A k \in D[n] : \E x \in ToSet(R) : x.key = k /\ Ends(x)
    BY <2>3, Zenon
  <2> QED BY <2>4, <2>5, <2>6, <2>7, <2>8, <2>9, Zenon DEF Changes
<1>9. ReleasedLater(n, M, R) /\ PressedBefore(n, M, R)
  BY <1>1, <1>8, ChangesArePaired
<1> QED BY <1>3, <1>9 DEF n, R

\* The modifiers of an input, and of an output.
InputParts(typed) ==
  [i \in DOMAIN typed |-> FlattenSeq(Map(ModifierKeys, LAMBDA key : InputModifier(typed, i, key)))]
OutputParts(typed, single) ==
  [i \in DOMAIN typed |-> FlattenSeq(Map(ModifierKeys, LAMBDA key : OutputModifier(typed, i, key, single)))]

LEMMA InputPartsAre ==
  ASSUME NEW typed \in Seq(Characters)
  PROVE  /\ InputParts(typed) \in [1..Len(typed) -> Seq(EventType)]
         /\ \A i \in 1..Len(typed) : ModifiersOf(InputParts(typed)[i], typed, i)
<1>1. /\ Len(typed) \in Nat /\ DOMAIN typed = 1..Len(typed)
      /\ \A i \in 0..Len(typed) : Modifiers(typed, i) \in SUBSET ModKeys
  BY CharactersAre
<1>2. ASSUME NEW i \in 1..Len(typed) PROVE ModifiersOf(InputParts(typed)[i], typed, i)
  <2> DEFINE e == InputParts(typed)[i]
             g == [key \in ModKeys |-> InputModifier(typed, i, key)]
             down == Modifiers(typed, i)
             was == Modifiers(typed, i - 1)
  <2>1. i \in Nat /\ i # 0 /\ i \in 0..Len(typed) /\ i - 1 \in 0..Len(typed)
    BY <1>1
  <2>2. down \in SUBSET ModKeys /\ was \in SUBSET ModKeys
    BY <1>1, <2>1
  <2>3. \A k \in ModKeys : ChangesOne(InputModifier(typed, i, k), k, k \in down, k \in was)
    BY <2>1, InputModifierIs
  <2>4. \A k \in ModKeys : g[k] = InputModifier(typed, i, k)
    OBVIOUS
  <2>5. e = FlattenSeq(SubSeq([m \in DOMAIN ModifierKeys |-> InputModifier(typed, i, ModifierKeys[m])], 1, Len(ModifierKeys)))
    BY <1>1 DEF InputParts, Map
  <2>6. g = [k \in ModKeys |-> g[k]]
    OBVIOUS
  <2> HIDE DEF e, g, down, was
  <2>7. e = EachModifier(g)
    <3>1. \A m \in DOMAIN ModifierKeys : ModifierKeys[m] \in ModKeys
      BY ModifierKeysIn
    <3>2. [m \in DOMAIN ModifierKeys |-> g[ModifierKeys[m]]] =
            [m \in DOMAIN ModifierKeys |-> InputModifier(typed, i, ModifierKeys[m])]
      BY <2>4, <3>1
    <3> QED BY <2>5, <3>2, Zenon DEF EachModifier
  <2>8. \A k \in ModKeys : ChangesOne(g[k], k, k \in down, k \in was)
    BY <2>3, <2>4, Zenon
  <2>9. g \in [ModKeys -> Seq(EventType)]
    <3>1. \A k \in ModKeys : g[k] \in Seq(EventType)
      BY <2>8, Zenon DEF ChangesOne
    <3> QED BY <2>6, <3>1
  <2>10. ModifiersChange(e, down, was)
    BY <2>2, <2>7, <2>8, <2>9, ModifiersOfOne, Zenon
  <2> QED BY <2>10 DEF ModifiersOf, e, down, was
<1>3. \A i \in 1..Len(typed) : InputParts(typed)[i] \in Seq(EventType)
  BY <1>2 DEF ModifiersOf, ModifiersChange
<1>4. InputParts(typed) = [i \in 1..Len(typed) |-> InputParts(typed)[i]]
  BY <1>1 DEF InputParts
<1>5. InputParts(typed) \in [1..Len(typed) -> Seq(EventType)]
  BY <1>3, <1>4
<1> QED BY <1>2, <1>5

LEMMA OutputPartsAre ==
  ASSUME NEW typed \in Seq(Characters), NEW single \in BOOLEAN
  PROVE  /\ OutputParts(typed, single) \in [1..Len(typed) -> Seq(EventType)]
         /\ \A i \in 1..Len(typed) : ModifiersOf(OutputParts(typed, single)[i], typed, i)
<1>1. /\ Len(typed) \in Nat /\ DOMAIN typed = 1..Len(typed)
      /\ \A i \in 0..Len(typed) : Modifiers(typed, i) \in SUBSET ModKeys
  BY CharactersAre
<1>2. ASSUME NEW i \in 1..Len(typed) PROVE ModifiersOf(OutputParts(typed, single)[i], typed, i)
  <2> DEFINE e == OutputParts(typed, single)[i]
             g == [key \in ModKeys |-> OutputModifier(typed, i, key, single)]
             down == Modifiers(typed, i)
             was == Modifiers(typed, i - 1)
  <2>1. i \in Nat /\ i # 0 /\ i \in 0..Len(typed) /\ i - 1 \in 0..Len(typed)
    BY <1>1
  <2>2. down \in SUBSET ModKeys /\ was \in SUBSET ModKeys
    BY <1>1, <2>1
  <2>3. \A k \in ModKeys : ChangesOne(OutputModifier(typed, i, k, single), k, k \in down, k \in was)
    BY <2>1, OutputModifierIs
  <2>4. \A k \in ModKeys : g[k] = OutputModifier(typed, i, k, single)
    OBVIOUS
  <2>5. e = FlattenSeq(SubSeq([m \in DOMAIN ModifierKeys |-> OutputModifier(typed, i, ModifierKeys[m], single)], 1, Len(ModifierKeys)))
    BY <1>1 DEF OutputParts, Map
  <2>6. g = [k \in ModKeys |-> g[k]]
    OBVIOUS
  <2> HIDE DEF e, g, down, was
  <2>7. e = EachModifier(g)
    <3>1. \A m \in DOMAIN ModifierKeys : ModifierKeys[m] \in ModKeys
      BY ModifierKeysIn
    <3>2. [m \in DOMAIN ModifierKeys |-> g[ModifierKeys[m]]] =
            [m \in DOMAIN ModifierKeys |-> OutputModifier(typed, i, ModifierKeys[m], single)]
      BY <2>4, <3>1
    <3> QED BY <2>5, <3>2, Zenon DEF EachModifier
  <2>8. \A k \in ModKeys : ChangesOne(g[k], k, k \in down, k \in was)
    BY <2>3, <2>4, Zenon
  <2>9. g \in [ModKeys -> Seq(EventType)]
    <3>1. \A k \in ModKeys : g[k] \in Seq(EventType)
      BY <2>8, Zenon DEF ChangesOne
    <3> QED BY <2>6, <3>1
  <2>10. ModifiersChange(e, down, was)
    BY <2>2, <2>7, <2>8, <2>9, ModifiersOfOne, Zenon
  <2> QED BY <2>10 DEF ModifiersOf, e, down, was
<1>3. \A i \in 1..Len(typed) : OutputParts(typed, single)[i] \in Seq(EventType)
  BY <1>2 DEF ModifiersOf, ModifiersChange
<1>4. OutputParts(typed, single) = [i \in 1..Len(typed) |-> OutputParts(typed, single)[i]]
  BY <1>1 DEF OutputParts
<1>5. OutputParts(typed, single) \in [1..Len(typed) -> Seq(EventType)]
  BY <1>3, <1>4
<1> QED BY <1>2, <1>5

-----------------------------------------------------------------------------
(***************************************************************************)
(* A literal presses and releases its keys and their modifiers.            *)
(***************************************************************************)
Adds(e) == /\ e \in Seq(EventType) /\ Presses(e, {}) /\ Releases(e, {})
           /\ isInput => Nots(e, {})

LEMMA Associative ==
  ASSUME NEW X, NEW a \in Seq(X), NEW b \in Seq(X), NEW c \in Seq(X)
  PROVE  (a \o b) \o c = a \o (b \o c)
<1> DEFINE l == (a \o b) \o c
           r == a \o (b \o c)
<1>1. /\ a \o b \in Seq(X) /\ Len(a \o b) = Len(a) + Len(b) /\ \A k \in 1..Len(a) : (a \o b)[k] = a[k]
      /\ \A k \in 1..Len(b) : (a \o b)[Len(a) + k] = b[k]
      /\ b \o c \in Seq(X) /\ Len(b \o c) = Len(b) + Len(c) /\ \A k \in 1..Len(b) : (b \o c)[k] = b[k]
      /\ \A k \in 1..Len(c) : (b \o c)[Len(b) + k] = c[k]
  BY Concatenation
<1> QED BY <1>1

LEMMA Emptied ==
  ASSUME NEW X, NEW a \in Seq(X)
  PROVE  a \o << >> = a /\ << >> \o a = a /\ << >> \in Seq(X)
OBVIOUS

\* In a group an input needs no modifiers.
NoParts(typed) == [i \in DOMAIN typed |-> FlattenSeq(Map(ModifierKeys, LAMBDA key : << >>))]

LEMMA NoPartsAre ==
  ASSUME NEW typed \in Seq(Characters)
  PROVE  /\ NoParts(typed) \in [1..Len(typed) -> Seq(EventType)]
         /\ \A i \in 1..Len(typed) : ToSet(NoParts(typed)[i]) = {}
<1> DEFINE g == [key \in ModKeys |-> << >>]
           e == EachModifier(g)
<1>1. g \in [ModKeys -> Seq(EventType)] /\ \A k \in ModKeys : g[k] = << >>
  OBVIOUS
<1>2. [m \in DOMAIN ModifierKeys |-> g[ModifierKeys[m]]] = [m \in DOMAIN ModifierKeys |-> << >>]
  BY <1>1, ModifierKeysIn
<1>3. e = FlattenSeq(Map(ModifierKeys, LAMBDA key : << >>))
  BY <1>2, Zenon DEF EachModifier, Map
<1> HIDE DEF e, g
<1>4. e \in Seq(EventType) /\ \A x : x \in ToSet(e) <=> \E k \in ModKeys : x \in ToSet(g[k])
  <2>1. e = EachModifier(g)
    BY DEF e
  <2> QED BY <1>1, <2>1, ForEachModifier
<1>5. ToSet(e) = {}
  <2>1. \A k \in ModKeys : ToSet(g[k]) = {}
    BY <1>1, ShortSets
  <2> QED BY <1>4, <2>1
<1>6. NoParts(typed) = [i \in 1..Len(typed) |-> e]
  <2>1. DOMAIN typed = 1..Len(typed)
    OBVIOUS
  <2> QED BY <1>3, <2>1 DEF NoParts
<1> QED BY <1>4, <1>5, <1>6

LEMMA LiteralIsSequence ==
  ASSUME NEW typed \in Seq(Characters), NEW M \in [1..Len(typed) -> Seq(EventType)], NEW up \in {"Up", "UpAsync"}
  PROVE  FlattenSeq([i \in DOMAIN typed |-> M[i] \o <<Press(typed[i].key), Event(typed[i].key, up)>>]) \in Seq(EventType)
<1> DEFINE P == [i \in DOMAIN typed |-> M[i] \o <<Press(typed[i].key), Event(typed[i].key, up)>>]
<1>1. Len(typed) \in Nat /\ DOMAIN typed = 1..Len(typed) /\ \A i \in 1..Len(typed) : typed[i].key \in DeviceKeys
  BY CharactersAre
<1>2. ASSUME NEW i \in 1..Len(typed)
      PROVE  M[i] \o <<Press(typed[i].key), Event(typed[i].key, up)>> \in Seq(EventType)
  <2>1. M[i] \in Seq(EventType) /\ typed[i].key \in DeviceKeys
    BY <1>1
  <2> QED BY <2>1, PartIs, Zenon
<1>3. P \in [1..Len(typed) -> Seq(EventType)]
  BY <1>1, <1>2
<1> HIDE DEF P
<1>4. P \in Seq(Seq(EventType))
  BY <1>1, <1>3, MapIs
<1>5. FlattenSeq(P) \in Seq(EventType)
  BY <1>4, FlattenParts
<1> QED BY <1>5 DEF P

\* add_string_typing_input
LEMMA TypeInputIs ==
  ASSUME NEW typed \in Seq(Characters)
  PROVE  Adds(TypeInput(typed))
<1> DEFINE n == Len(typed)
           U == [i \in DOMAIN typed |-> <<Press(typed[i].key), Event(typed[i].key, "UpAsync")>>]
           e == TypeInput(typed)
<1>1. n \in Nat /\ DOMAIN typed = 1..n
  BY CharactersAre
<1>2. CASE InGroup
  <2> DEFINE M == NoParts(typed)
             F == FlattenSeq([i \in DOMAIN typed |-> M[i] \o <<Press(typed[i].key), Event(typed[i].key, "UpAsync")>>])
  <2>1. M \in [1..n -> Seq(EventType)] /\ \A i \in 1..n : ToSet(M[i]) = {}
    BY NoPartsAre
  <2>2. e = F
    <3>1. \A i \in DOMAIN typed : M[i] = FlattenSeq(Map(ModifierKeys, LAMBDA key : << >>))
      BY DEF NoParts
    <3>2. e = FlattenSeq([i \in DOMAIN typed |->
                FlattenSeq(Map(ModifierKeys, LAMBDA key : << >>)) \o <<Press(typed[i].key), Event(typed[i].key, "UpAsync")>>])
      BY <1>2 DEF TypeInput, Type
    <3> HIDE DEF M
    <3> QED BY <3>1, <3>2
  <2>3. ReleasedLater(n, M, << >>) /\ PressedBefore(n, M, << >>)
    <3> HIDE DEF M, n
    <3> QED BY <2>1, ShortSets DEF ReleasedLater, PressedBefore
  <2>4. \A x : x = F \o << >> => x \in Seq(EventType) /\ Presses(x, {}) /\ Releases(x, {}) /\ Nots(x, {})
    <3>1. << >> \in Seq(EventType)
      OBVIOUS
    <3> HIDE DEF M
    <3> QED BY <2>1, <2>3, <3>1, LiteralIsPaired
  <2>5. F \o << >> = F
    <3>1. F \in Seq(EventType)
      <4> HIDE DEF M
      <4> QED BY <2>1, LiteralIsSequence
    <3> HIDE DEF F
    <3> QED BY <3>1, Emptied
  <2> QED BY <2>2, <2>4, <2>5 DEF Adds
<1>3. CASE ~InGroup
  <2> DEFINE M == InputParts(typed)
             R == ReleaseModifiers(typed, "UpAsync")
             F == FlattenSeq([i \in DOMAIN typed |-> M[i] \o <<Press(typed[i].key), Event(typed[i].key, "UpAsync")>>])
  <2>1. M \in [1..n -> Seq(EventType)] /\ \A i \in 1..n : ModifiersOf(M[i], typed, i)
    BY InputPartsAre
  <2>2. e = F \o R
    <3>1. \A i \in DOMAIN typed : M[i] = FlattenSeq(Map(ModifierKeys, LAMBDA key : InputModifier(typed, i, key)))
      BY DEF InputParts
    <3>2. e = FlattenSeq([i \in DOMAIN typed |->
                FlattenSeq(Map(ModifierKeys, LAMBDA key : InputModifier(typed, i, key)))
                  \o <<Press(typed[i].key), Event(typed[i].key, "UpAsync")>>]) \o R
      BY <1>3 DEF TypeInput, Type
    <3> HIDE DEF M, R
    <3> QED BY <3>1, <3>2
  <2>3. R \in Seq(EventType) /\ ReleasedLater(n, M, R) /\ PressedBefore(n, M, R)
    <3> HIDE DEF M
    <3> QED BY <2>1, ModifiersArePaired
  <2>4. \A x : x = F \o R => x \in Seq(EventType) /\ Presses(x, {}) /\ Releases(x, {}) /\ Nots(x, {})
    <3> HIDE DEF M, R
    <3> QED BY <2>1, <2>3, LiteralIsPaired
  <2> QED BY <2>2, <2>4 DEF Adds
<1> QED BY <1>2, <1>3

\* What an output that types something begins with.
LEMMA Prefixed ==
  ASSUME NEW a \in Seq(EventType), NEW b \in Seq(EventType), Presses(a, {}), Releases(a, {}),
         Presses(b, {}), Releases(b, {})
  PROVE  a \o b \in Seq(EventType) /\ Presses(a \o b, {}) /\ Releases(a \o b, {})
<1>1. Paired(a, {}, {})
  BY DEF Paired
<1>2. Releases(b, {} \cup DownKeys(a))
  BY DEF Releases
<1>3. {} \subseteq {} \cup DownKeys(b) /\ {} \ {} = {}
  OBVIOUS
<1>4. Paired(a \o b, {}, {})
  BY <1>1, <1>2, <1>3, PairedAppended
<1>5. a \o b \in Seq(EventType)
  BY Concatenation
<1> QED BY <1>4, <1>5 DEF Paired

\* add_string_typing_output
LEMMA TypeOutputIs ==
  ASSUME NEW typed \in Seq(Characters), NEW bytes, ~isInput
  PROVE  Adds(TypeOutput(typed, bytes))
<1> DEFINE n == Len(typed)
           single == ~InGroup /\ bytes = 1
           M == OutputParts(typed, single)
           R == ReleaseModifiers(typed, "Up")
           F == FlattenSeq([i \in DOMAIN typed |-> M[i] \o <<Press(typed[i].key), Event(typed[i].key, "Up")>>])
           pre == IF InGroup \/ single THEN << >> ELSE <<NotKey("any")>>
           e == TypeOutput(typed, bytes)
<1>1. n \in Nat /\ DOMAIN typed = 1..n /\ single \in BOOLEAN
  BY CharactersAre
<1>2. e = (pre \o F) \o R
  <2>1. \A i \in DOMAIN typed : M[i] = FlattenSeq(Map(ModifierKeys, LAMBDA key : OutputModifier(typed, i, key, single)))
    BY DEF OutputParts
  <2>2. e = (pre \o FlattenSeq([i \in DOMAIN typed |->
              FlattenSeq(Map(ModifierKeys, LAMBDA key : OutputModifier(typed, i, key, single)))
                \o <<Press(typed[i].key), Event(typed[i].key, "Up")>>])) \o R
    BY DEF TypeOutput, Type
  <2> HIDE DEF M, R, pre, single
  <2> QED BY <2>1, <2>2
<1> HIDE DEF single
<1>3. M \in [1..n -> Seq(EventType)] /\ \A i \in 1..n : ModifiersOf(M[i], typed, i)
  BY <1>1, OutputPartsAre
<1> HIDE DEF M
<1>4. R \in Seq(EventType) /\ ReleasedLater(n, M, R) /\ PressedBefore(n, M, R)
  BY <1>3, ModifiersArePaired
<1> HIDE DEF R
<1>5. \A x : x = F \o R => x \in Seq(EventType) /\ Presses(x, {}) /\ Releases(x, {}) /\ Nots(x, {})
  BY <1>3, <1>4, LiteralIsPaired
<1>6. F \in Seq(EventType)
  BY <1>3, LiteralIsSequence
<1>7. pre \in Seq(EventType) /\ Presses(pre, {}) /\ Releases(pre, {})
  <2>1. NotKey("any") \in EventType /\ NotKey("any").state = "Not"
    <3>1. "any" \in EventKeys
      BY DEF EventKeys, NamedKeys
    <3> QED BY <3>1, EventHasType, StatesAre, EventIs DEF NotKey
  <2> DEFINE x == NotKey("any")
  <2> HIDE DEF x
  <2>2. pre = << >> \/ pre = <<x>>
    BY DEF x
  <2>3. x \in EventType /\ ~IsPress(x) /\ ~IsRelease(x)
    BY <2>1 DEF x, IsPress, IsRelease
  <2>4. pre \in Seq(EventType) /\ \A i \in DOMAIN pre : pre[i] = x
    <3>1. CASE pre = << >>
      <4> HIDE DEF pre
      <4> QED BY <3>1
    <3>2. CASE pre = <<x>>
      <4> HIDE DEF pre
      <4> QED BY <2>3, <3>2
    <3> QED BY <2>2, <3>1, <3>2
  <2> HIDE DEF pre
  <2> QED BY <2>3, <2>4 DEF Presses, Releases
<1> HIDE DEF F, pre, n
<1>8. e = pre \o (F \o R)
  BY <1>2, <1>4, <1>6, <1>7, Associative
<1> HIDE DEF e
<1> DEFINE b == F \o R
<1>9. b \in Seq(EventType) /\ Presses(b, {}) /\ Releases(b, {})
  BY <1>5
<1> HIDE DEF b
<1>10. pre \o b \in Seq(EventType) /\ Presses(pre \o b, {}) /\ Releases(pre \o b, {})
  BY <1>7, <1>9, Prefixed
<1>11. e = pre \o b
  BY <1>8 DEF b
<1>12. Adds(e)
  BY <1>10, <1>11 DEF Adds
<1> QED BY <1>12 DEF e

\* What a literal adds to a parser that is fine.
LEMMA LiteralFine ==
  ASSUME NEW p \in ParserType, NEW e, Adds(e), NEW q, q = Put(p, e)
  PROVE  /\ q \in ParserType /\ q.buffer = p.buffer /\ q.pressed = p.pressed
         /\ \A not : Fine(p, not) => Fine(q, not)
<1>1. e \in Seq(EventType) /\ Presses(e, {}) /\ Releases(e, {}) /\ (isInput => Nots(e, {}))
  BY DEF Adds
<1>2. q \in ParserType /\ q.sequence = p.sequence \o e /\ q.buffer = p.buffer /\ q.pressed = p.pressed
  BY <1>1, PutIs, Zenon
<1>3. ASSUME NEW not, Fine(p, not) PROVE Fine(q, not)
  <2>1. Fits(p, e, q.pressed, not)
    BY <1>1, <1>2, PairsAreFine DEF Fits
  <2> QED BY <1>1, <1>2, <1>3, <2>1, FineAppended
<1> QED BY <1>2, <1>3

-----------------------------------------------------------------------------
(***************************************************************************)
(* The end of an expression: its last events may be taken away.            *)
(***************************************************************************)
LEMMA PrefixIs ==
  ASSUME NEW s \in Seq(EventType), NEW n \in 0..Len(s), NEW c, c = SubSeq(s, 1, n)
  PROVE  /\ c \in Seq(EventType) /\ Len(c) = n /\ DOMAIN c = 1..n /\ DOMAIN s = 1..Len(s) /\ Len(s) \in Nat
         /\ \A i \in DOMAIN c : i \in DOMAIN s /\ c[i] = s[i]
         /\ \A not : Releases(s, not) => Releases(c, not)
         /\ AllPressedAtOnce(s) => AllPressedAtOnce(c)
<1>1. Len(s) \in Nat /\ DOMAIN s = 1..Len(s) /\ n \in Nat /\ n <= Len(s)
  OBVIOUS
<1>2. c \in Seq(EventType) /\ Len(c) = n /\ DOMAIN c = 1..n /\ \A i \in 1..n : c[i] = s[i]
  BY <1>1
<1>3. \A i \in 1..n : i \in DOMAIN s
  BY <1>1
<1>4. \A i \in DOMAIN c : i \in DOMAIN s /\ c[i] = s[i]
  BY <1>2, <1>3
<1>5. ASSUME NEW not, Releases(s, not) PROVE Releases(c, not)
  <2> SUFFICES ASSUME NEW i \in DOMAIN c, IsRelease(c[i]), c[i].key \notin not
               PROVE  \E j \in DOMAIN c : j < i /\ c[j].key = c[i].key /\ c[j].state = "Down"
    BY DEF Releases
  <2>1. PICK j \in DOMAIN s : j < i /\ s[j].key = s[i].key /\ s[j].state = "Down"
    BY <1>4, <1>5 DEF Releases
  <2>2. j \in DOMAIN c
    BY <1>1, <1>2, <2>1
  <2> QED BY <1>4, <2>1, <2>2
<1>6. ASSUME AllPressedAtOnce(s) PROVE AllPressedAtOnce(c)
  <2> SUFFICES ASSUME NEW i \in DOMAIN c, NEW j \in DOMAIN c, i < j, c[i].state = "Up", c[j].state = "Down"
               PROVE  FALSE
    BY DEF AllPressedAtOnce
  <2> QED BY <1>4, <1>6 DEF AllPressedAtOnce
<1> QED BY <1>1, <1>2, <1>4, <1>5, <1>6

\* remove_all_from_end
LEMMA RemovedFromEnd ==
  ASSUME NEW s \in Seq(EventType), NEW state, NEW c, c = RemoveFromEnd(s, state)
  PROVE  /\ c \in Seq(EventType)
         /\ \A not : Releases(s, not) => Releases(c, not)
         /\ AllPressedAtOnce(s) => AllPressedAtOnce(c)
         /\ state # "Down" => \A not : Nots(s, not) => Nots(c, not)
<1> DEFINE kept == {i \in DOMAIN s : s[i].state # state}
           n == LastOf(kept)
<1>1. Len(s) \in Nat /\ DOMAIN s = 1..Len(s) /\ kept \in SUBSET (1..Len(s))
  OBVIOUS
<1>2. c = SubSeq(s, 1, n)
  BY DEF RemoveFromEnd
<1>3. n \in 0..Len(s) /\ \A i \in kept : i <= n
  <2> HIDE DEF kept
  <2> QED BY <1>1, LastOfIs
<1>4. \A i \in DOMAIN s : s[i].state # state => i <= n
  BY <1>3
<1> HIDE DEF n
<1>5. /\ c \in Seq(EventType) /\ DOMAIN c = 1..n
      /\ \A i \in DOMAIN c : i \in DOMAIN s /\ c[i] = s[i]
      /\ \A not : Releases(s, not) => Releases(c, not)
      /\ AllPressedAtOnce(s) => AllPressedAtOnce(c)
  BY <1>2, <1>3, PrefixIs
<1>6. ASSUME state # "Down", NEW not, Nots(s, not) PROVE Nots(c, not)
  <2> SUFFICES ASSUME NEW i \in DOMAIN c, c[i].state = "Not", c[i].key # "timeout", c[i].key \notin not
               PROVE  \E j \in DOMAIN c : j > i /\ c[j].state = "Down" /\ c[j].key # "timeout"
    BY DEF Nots
  <2>1. PICK j \in DOMAIN s : j > i /\ s[j].state = "Down" /\ s[j].key # "timeout"
    BY <1>5, <1>6 DEF Nots
  <2>2. j \in DOMAIN c
    BY <1>1, <1>3, <1>4, <1>5, <1>6, <2>1
  <2> QED BY <1>5, <2>1, <2>2
<1> QED BY <1>5, <1>6

\* A sequence that releases what it pressed is paired, while all is held.
LEMMA AllHeld ==
  ASSUME NEW s \in Seq(EventType), NEW not, Releases(s, not)
  PROVE  Paired(s, DownKeys(s), not)
<1>1. ASSUME NEW i \in DOMAIN s, IsPress(s[i]) PROVE s[i].key \in DownKeys(s)
  <2>1. s[i] \in EventType
    OBVIOUS
  <2>2. s[i].key \in EventKeys /\ s[i].state = "Down"
    BY <1>1, <2>1, EventTypeIs DEF IsPress
  <2> QED BY <2>2 DEF DownKeys
<1> QED BY <1>1 DEF Paired, Presses

\* convert_final_not_to_up
LEMMA FinalNotConverted ==
  ASSUME NEW s \in Seq(EventType), NEW not, Nots(s, not), NEW c, c = ConvertFinalNot(s)
  PROVE  /\ c \in Seq(EventType)
         /\ \A held : Paired(s, held, not) => Paired(c, held, not)
<1>1. CASE s # << >> /\ Last(s).state = "Not" /\ Last(s).key # "timeout"
  <2>1. c = LastBecomes(s, "Up")
    BY <1>1 DEF ConvertFinalNot
  <2>2. Last(s).state \in {"Not", "UpAsync"}
    BY <1>1
  <2>3. \A held : /\ c \in Seq(EventType)
                  /\ Paired(s, held, not) /\ Nots(s, not) => Paired(c, held, not) /\ Nots(c, not)
    BY <1>1, <2>1, <2>2, LastReleased
  <2> QED BY <2>3
<1>2. CASE ~(s # << >> /\ Last(s).state = "Not" /\ Last(s).key # "timeout")
  <2>1. c = s
    BY <1>2 DEF ConvertFinalNot
  <2> QED BY <2>1
<1> QED BY <1>1, <1>2

\* What is true of the end of an input: it is paired, unless it does not wait.
LEMMA InputEnds ==
  ASSUME isInput, NEW p \in ParserType, p.pressed = << >>, NEW not, Fine(p, not), NEW q, q = EndInput(p)
  PROVE  /\ q \in ParserType /\ q.buffer = p.buffer /\ q.pressed = p.pressed
         /\ noMightMatch \/ Presses(q.sequence, {})
         /\ Releases(q.sequence, not)
<1> DEFINE s == p.sequence
           r == IF noMightMatch THEN RemoveFromEnd(s, "UpAsync") ELSE s
           c == ConvertFinalNot(r)
<1>1. s \in Seq(EventType) /\ Paired(s, {}, not) /\ Nots(s, not)
  BY ParserIs, ShortSets DEF Fine
<1>2. q = [p EXCEPT !.sequence = c]
  BY DEF EndInput
<1>3. /\ r \in Seq(EventType) /\ Releases(r, not) /\ Nots(r, not)
      /\ noMightMatch \/ Presses(r, {})
  <2>1. CASE noMightMatch
    <3>1. r = RemoveFromEnd(s, "UpAsync")
      BY <2>1
    <3> HIDE DEF r, s
    <3>2. Releases(s, not)
      BY <1>1 DEF Paired
    <3> QED BY <1>1, <2>1, <3>1, <3>2, RemovedFromEnd
  <2>2. CASE ~noMightMatch
    BY <1>1, <2>2 DEF Paired
  <2> QED BY <2>1, <2>2
<1> HIDE DEF r
<1>4. c \in Seq(EventType) /\ \A held : Paired(r, held, not) => Paired(c, held, not)
  BY <1>3, FinalNotConverted
<1> HIDE DEF c
<1>5. Releases(c, not)
  BY <1>3, <1>4, AllHeld DEF Paired
<1>6. noMightMatch \/ Presses(c, {})
  <2>1. CASE ~noMightMatch
    <3>1. Paired(r, {}, not)
      BY <1>3, <2>1 DEF Paired
    <3> QED BY <1>4, <3>1 DEF Paired
  <2> QED BY <2>1
<1>7. q \in ParserType /\ q.sequence = c /\ q.buffer = p.buffer /\ q.pressed = p.pressed
  BY <1>2, <1>4, WithSequence
<1> QED BY <1>5, <1>6, <1>7

\* And of an output: it may end with what it holds.
LEMMA OutputEnds ==
  ASSUME ~isInput, NEW p \in ParserType, NEW not, Fine(p, not), NEW q, q = EndOutput(p)
  PROVE  /\ q \in ParserType /\ q.buffer = p.buffer /\ q.pressed = << >>
         /\ (~hasModifier /\ AllPressedAtOnce(q.sequence)) \/ Presses(q.sequence, {})
         /\ Releases(q.sequence, not)
<1> DEFINE r == ReleasePressed(p, 0)
           c == RemoveFromEnd(r.sequence, "Up")
<1>1. r \in ParserType /\ r.buffer = p.buffer /\ r.pressed = << >> /\ Fine(r, not)
  BY ReleaseFine
<1>2. q = IF ~hasModifier /\ AllPressedAtOnce(r.sequence) THEN [r EXCEPT !.sequence = c] ELSE r
  BY DEF EndOutput
<1> HIDE DEF r
<1>3. r.sequence \in Seq(EventType) /\ Presses(r.sequence, {}) /\ Releases(r.sequence, not)
  BY <1>1, ParserIs, ShortSets DEF Fine, Paired
<1>4. CASE ~hasModifier /\ AllPressedAtOnce(r.sequence)
  <2>1. c \in Seq(EventType) /\ Releases(c, not) /\ AllPressedAtOnce(c)
    BY <1>3, <1>4, RemovedFromEnd
  <2> HIDE DEF c
  <2>2. q \in ParserType /\ q.sequence = c /\ q.buffer = r.buffer /\ q.pressed = r.pressed
    BY <1>1, <1>2, <1>4, <2>1, WithSequence
  <2> QED BY <1>1, <1>4, <2>1, <2>2
<1>5. CASE ~(~hasModifier /\ AllPressedAtOnce(r.sequence))
  <2>1. q = r
    BY <1>2, <1>5
  <2> QED BY <1>1, <1>3, <2>1
<1> QED BY <1>4, <1>5

\* check_ContextActive_usage: a sequence of two events loses its last one.
LEMMA ContextInactiveRemoved ==
  ASSUME NEW s \in Seq(EventType), HasKey(s, {"ContextActive"}) => Len(s) = 2, NEW c, c = WithoutContextInactive(s)
  PROVE  /\ c \in Seq(EventType)
         /\ Presses(s, {}) => Presses(c, {})
         /\ \A not : Releases(s, not) => Releases(c, not)
<1>1. CASE HasKey(s, {"ContextActive"})
  <2>1. c = SubSeq(s, 1, 1) /\ Len(s) = 2
    <3>1. c = Front(s)
      BY <1>1, Zenon DEF WithoutContextInactive
    <3>2. Len(s) = 2
      BY <1>1, Zenon
    <3> QED BY <3>1, <3>2 DEF Front
  <2>2. /\ c \in Seq(EventType) /\ DOMAIN c = 1..1 /\ DOMAIN s = 1..2
        /\ \A i \in DOMAIN c : i \in DOMAIN s /\ c[i] = s[i]
        /\ \A not : Releases(s, not) => Releases(c, not)
    <3>1. 1 \in 0..Len(s)
      BY <2>1
    <3> QED BY <2>1, <3>1, PrefixIs
  <2>3. ASSUME Presses(s, {}), NEW i \in DOMAIN c, IsPress(c[i]) PROVE FALSE
    <3>1. i = 1 /\ 1 \in DOMAIN s /\ c[1] = s[1]
      BY <2>2
    <3>2. IsPress(s[1])
      BY <2>3, <3>1
    <3>3. PICK j \in DOMAIN s : j > 1 /\ s[j].key = s[1].key
      BY <2>3, <3>1, <3>2 DEF Presses
    <3>4. s[1].key # "ContextActive"
      BY <3>2 DEF IsPress
    <3>5. PICK m \in DOMAIN s : s[m].key = "ContextActive"
      BY <1>1 DEF HasKey
    <3>6. j = 2 /\ m \in 1..2
      BY <2>2, <3>3
    <3> QED BY <3>3, <3>4, <3>5, <3>6
  <2> QED BY <2>2, <2>3 DEF Presses
<1>2. CASE ~HasKey(s, {"ContextActive"})
  BY <1>2 DEF WithoutContextInactive
<1> QED BY <1>1, <1>2

-----------------------------------------------------------------------------
(***************************************************************************)
(* The invariant. While an expression is parsed, its events are paired     *)
(* with the keys that are held - which of an input are none outside of a   *)
(* group: the outermost one began with none.                               *)
(***************************************************************************)
NotKeys == {k \in NamedKeys : isInput /\ NotToken(k) \in ToSet(expression)}

GroupsKept == isInput => IF modified = 0 THEN parser.pressed = << >> ELSE before[1] = 0

TypesInv ==
  /\ parser \in ParserType /\ status \in {"idle", "parsing", "done", "error"}
  /\ before \in Seq(Nat) /\ Len(before) = modified
  /\ together \in BOOLEAN /\ isInput \in BOOLEAN
  /\ noMightMatch \in BOOLEAN /\ onRelease \in BOOLEAN /\ hasModifier \in BOOLEAN
  /\ status # "idle" => /\ expression \in Seq(TokenType \cup {End}) /\ expression # << >>
                        /\ vocabulary \in Vocabularies
  /\ status = "done" => ~together /\ modified = 0 /\ parser.buffer = << >>

ParserInv ==
  /\ TypesInv
  /\ status = "parsing" => GroupsKept /\ Fine(parser, NotKeys)
  /\ PressesArePaired

\* What each kind of token has.
LEMMA TokensAre ==
  ASSUME NEW token \in TokenType \cup {End}
  PROVE  /\ token.kind = "key" => token.key \in NamedKeys
         /\ token.kind = "not" => token.key \in NamedKeys /\ token = NotToken(token.key)
         /\ token.kind \in {"timeout", "not_timeout"} => token.ms \in 0..MaxTimeout
         /\ token.kind = "literal" => token.typed \in Seq(Characters)
<1>1. CASE token = End
  <2>1. token.kind = "end"
    BY <1>1 DEF End, Sign
  <2> QED BY <2>1
<1>2. CASE token \in [kind : {"(", ")", "{", "}", "?", "^", "$", "invalid"}]
  <2>1. token.kind \in {"(", ")", "{", "}", "?", "^", "$", "invalid"}
    BY <1>2
  <2> QED BY <2>1
<1>3. CASE token \in [kind : {"key", "not"}, key : NamedKeys]
  <2>1. token.kind \in {"key", "not"} /\ token.key \in NamedKeys /\ token = [kind |-> token.kind, key |-> token.key]
    BY <1>3
  <2> QED BY <2>1 DEF NotToken
<1>4. CASE token \in [kind : {"timeout", "not_timeout"}, ms : 0..MaxTimeout]
  <2>1. token.kind \in {"timeout", "not_timeout"} /\ token.ms \in 0..MaxTimeout
    BY <1>4
  <2> QED BY <2>1
<1>5. CASE token \in [kind : {"literal"}, typed : Seq(Characters), bytes : Nat]
  <2>1. token.kind = "literal" /\ token.typed \in Seq(Characters)
    BY <1>5
  <2> QED BY <2>1
<1> QED BY <1>1, <1>2, <1>3, <1>4, <1>5 DEF TokenType

LEMMA TokenRead ==
  ASSUME ParserInv, NEW kind, Reads(kind)
  PROVE  /\ status = "parsing" /\ Token.kind = kind
         /\ Token \in TokenType \cup {End} /\ Token \in ToSet(expression)
         /\ parser \in ParserType /\ GroupsKept /\ Fine(parser, NotKeys)
<1>1. expression \in Seq(TokenType \cup {End}) /\ expression # << >> /\ status = "parsing"
  BY DEF ParserInv, TypesInv, Reads
<1>2. Len(expression) \in DOMAIN expression /\ Token = expression[Len(expression)]
  BY <1>1 DEF Token, Last
<1>3. Token \in TokenType \cup {End}
  <2> HIDE DEF Token
  <2> DEFINE T == TokenType \cup {End}
  <2> HIDE DEF T
  <2>1. expression \in Seq(T)
    BY <1>1 DEF T
  <2>2. Token \in T
    BY <1>2, <2>1
  <2> QED BY <2>2 DEF T
<1>4. Token \in ToSet(expression)
  BY <1>2 DEF ToSet
<1> QED BY <1>1, <1>3, <1>4 DEF ParserInv, TypesInv, Reads

LEMMA NextTokensAre ==
  ASSUME NEW v \in Vocabularies, NEW n, NEW token \in NextTokens(v, n)
  PROVE  token \in TokenType \cup {End}
<1>1. v.tokens \subseteq TokenType
  BY VocabulariesAreTokens
<1> QED BY <1>1 DEF NextTokens

\* An expression that goes on names no fewer keys.
LEMMA ExpressionGrows ==
  ASSUME expression \in Seq(TokenType \cup {End}), vocabulary \in Vocabularies, isInput' = isInput,
         NEW token \in NextTokens(vocabulary, Len(expression)), expression' = Append(expression, token)
  PROVE  /\ expression' \in Seq(TokenType \cup {End}) /\ expression' # << >>
         /\ NotKeys \subseteq NotKeys'
<1> DEFINE T == TokenType \cup {End}
           e == expression
           f == expression'
<1>1. token \in T /\ e \in Seq(T)
  BY NextTokensAre
<1>2. f = Append(e, token)
  OBVIOUS
<1> HIDE DEF T, e, f
<1>3. f \in Seq(T) /\ f # << >> /\ DOMAIN e \subseteq DOMAIN f /\ \A i \in DOMAIN e : f[i] = e[i]
  BY <1>1, <1>2
<1>4. ToSet(e) \subseteq ToSet(f)
  BY <1>3 DEF ToSet
<1>5. ASSUME NEW k \in NotKeys PROVE k \in NotKeys'
  <2>1. k \in NamedKeys /\ isInput /\ NotToken(k) \in ToSet(e)
    BY DEF NotKeys, e
  <2>2. isInput' /\ NotToken(k) \in ToSet(f)
    BY <1>4, <2>1
  <2> QED BY <2>1, <2>2 DEF NotKeys, f
<1> QED BY <1>3, <1>5 DEF T, f

\* A parser that goes on is fine, when what it became is.
LEMMA Continues ==
  ASSUME ParserInv, status = "parsing", NEW p \in ParserType, Continue(p), Fine(p, NotKeys),
         before' \in Seq(Nat), Len(before') = modified',
         together' \in BOOLEAN, noMightMatch' \in BOOLEAN, onRelease' \in BOOLEAN, hasModifier' \in BOOLEAN,
         isInput => IF modified' = 0 THEN p.pressed = << >> ELSE before'[1] = 0
  PROVE  ParserInv'
<1>1. /\ parser' = p /\ vocabulary' = vocabulary /\ status' = "parsing" /\ isInput' = isInput
      /\ \E token \in NextTokens(vocabulary, Len(expression)) : expression' = Append(expression, token)
  BY DEF Continue
<1>2. expression \in Seq(TokenType \cup {End}) /\ vocabulary \in Vocabularies /\ isInput \in BOOLEAN
  BY DEF ParserInv, TypesInv
<1>3. /\ expression' \in Seq(TokenType \cup {End}) /\ expression' # << >>
      /\ NotKeys \subseteq NotKeys'
  BY <1>1, <1>2, ExpressionGrows
<1>4. TypesInv'
  BY <1>1, <1>2, <1>3 DEF TypesInv
<1>5. Fine(parser, NotKeys)'
  <2>1. Paired(p.sequence, ToSet(p.pressed), NotKeys) /\ (isInput => Nots(p.sequence, NotKeys))
    BY DEF Fine
  <2> DEFINE M == NotKeys
             N == NotKeys'
  <2>2. Paired(p.sequence, ToSet(p.pressed), M) /\ (isInput => Nots(p.sequence, M)) /\ M \subseteq N
    BY <1>3, <2>1
  <2> HIDE DEF M, N
  <2>3. Paired(p.sequence, ToSet(p.pressed), N) /\ (isInput => Nots(p.sequence, N))
    BY <2>2, PairedMore
  <2> QED BY <1>1, <2>3 DEF Fine, N
<1>6. GroupsKept'
  BY <1>1 DEF GroupsKept
<1>7. PressesArePaired'
  BY <1>1 DEF PressesArePaired
<1> QED BY <1>4, <1>5, <1>6, <1>7 DEF ParserInv

LEMMA NothingHeld ==
  ASSUME NEW p \in ParserType, NEW q \in ParserType, ToSet(q.pressed) \subseteq ToSet(p.pressed), p.pressed = << >>
  PROVE  q.pressed = << >>
<1>1. q.pressed \in Seq(NamedKeys) /\ ToSet(q.pressed) = {}
  BY ParserIs, ShortSets
<1>2. \A i \in DOMAIN q.pressed : q.pressed[i] \in ToSet(q.pressed)
  BY DEF ToSet
<1> QED BY <1>1, <1>2

\* Within a group, or outside of all.
LEMMA GoesOn ==
  ASSUME ParserInv, status = "parsing", NEW p \in ParserType, Continue(p), Fine(p, NotKeys),
         isInput => ToSet(p.pressed) \subseteq ToSet(parser.pressed),
         UNCHANGED <<before, modified>>,
         together' \in BOOLEAN, noMightMatch' \in BOOLEAN, onRelease' \in BOOLEAN, hasModifier' \in BOOLEAN
  PROVE  ParserInv'
<1>1. parser \in ParserType /\ before \in Seq(Nat) /\ Len(before) = modified /\ GroupsKept
  BY DEF ParserInv, TypesInv
<1>2. isInput => IF modified' = 0 THEN p.pressed = << >> ELSE before'[1] = 0
  BY <1>1, NothingHeld DEF GroupsKept
<1> QED BY <1>1, <1>2, Continues

\* One that throws keeps its type.
LEMMA Throws ==
  ASSUME ParserInv, status = "parsing", NEW p \in ParserType, Throw(p)
  PROVE  ParserInv'
<1>1. status' = "error" /\ parser' = p
  BY DEF Throw
<1>2. TypesInv'
  BY <1>1 DEF ParserInv, TypesInv, Throw, group_vars, flag_vars
<1>3. PressesArePaired'
  BY <1>1 DEF PressesArePaired
<1> QED BY <1>1, <1>2, <1>3 DEF ParserInv

-----------------------------------------------------------------------------
(***************************************************************************)
(* Each action keeps the invariant.                                        *)
(***************************************************************************)
LEMMA FlagsAre ==
  ParserInv => /\ together \in BOOLEAN /\ isInput \in BOOLEAN
               /\ noMightMatch \in BOOLEAN /\ onRelease \in BOOLEAN /\ hasModifier \in BOOLEAN
               /\ before \in Seq(Nat) /\ Len(before) = modified
BY DEF ParserInv, TypesInv

\* What most actions do first.
LEMMA Flushed ==
  ASSUME ParserInv, status = "parsing", NEW p, p = Flush(parser, TRUE)
  PROVE  /\ p \in ParserType /\ p.buffer = << >> /\ ToSet(p.pressed) \subseteq ToSet(parser.pressed)
         /\ Fine(p, NotKeys)
<1>1. parser \in ParserType /\ Fine(parser, NotKeys)
  BY DEF ParserInv, TypesInv
<1> QED BY <1>1, FlushUp

\* A key that is buffered.
LEMMA Buffered ==
  ASSUME NEW p \in ParserType, NEW key \in NamedKeys, NEW q, q = Buffer(p, key)
  PROVE  /\ q \in ParserType /\ q.pressed = p.pressed
         /\ \A not : Fine(p, not) => Fine(q, not)
<1> DEFINE b == Append(p.buffer, key)
<1>1. b \in Seq(NamedKeys)
  BY ParserIs
<1>2. q = [p EXCEPT !.buffer = b]
  BY DEF Buffer
<1> HIDE DEF b
<1>3. q \in ParserType /\ q.sequence = p.sequence /\ q.pressed = p.pressed
  BY <1>1, <1>2, WithBuffer
<1> QED BY <1>3 DEF Fine

LEMMA TimeoutStep ==
  ASSUME ParserInv, status = "parsing", NEW isNot \in BOOLEAN, Token.ms \in 0..MaxTimeout, ReadsTimeout(isNot)
  PROVE  ParserInv'
<1> DEFINE p == Flush(parser, TRUE)
           q == AddTimeout(p, Token.ms, isNot)
<1>1. p \in ParserType /\ ToSet(p.pressed) \subseteq ToSet(parser.pressed) /\ Fine(p, NotKeys)
  BY Flushed
<1>2. \/ Throw(parser) \/ Throw(p)
      \/ ~TimeoutIsWrong(p, isNot) /\ Continue(q) /\ UNCHANGED <<group_vars, flag_vars>>
  BY DEF ReadsTimeout
<1> HIDE DEF p
<1>3. CASE Throw(parser)
  BY <1>3, Throws DEF ParserInv, TypesInv
<1>4. CASE Throw(p)
  BY <1>1, <1>4, Throws
<1>5. CASE ~TimeoutIsWrong(p, isNot) /\ Continue(q) /\ UNCHANGED <<group_vars, flag_vars>>
  <2>1. isInput => p.sequence # << >>
    BY <1>5 DEF TimeoutIsWrong
  <2>2. q \in ParserType /\ q.pressed = p.pressed /\ Fine(q, NotKeys)
    BY <1>1, <2>1, AddTimeoutFine
  <2> HIDE DEF q
  <2> QED BY <1>1, <1>5, <2>2, GoesOn, FlagsAre DEF group_vars, flag_vars
<1> QED BY <1>2, <1>3, <1>4, <1>5

LEMMA TimeoutSteps == ParserInv /\ (ReadTimeout \/ ReadNotTimeout) => ParserInv'
<1> SUFFICES ASSUME ParserInv, ReadTimeout \/ ReadNotTimeout PROVE ParserInv'
  OBVIOUS
<1>1. CASE ReadTimeout
  <2>1. Reads("timeout") /\ ReadsTimeout(FALSE)
    BY <1>1 DEF ReadTimeout
  <2>2. status = "parsing" /\ Token.kind = "timeout" /\ Token \in TokenType \cup {End}
    BY <2>1, TokenRead
  <2>3. Token.ms \in 0..MaxTimeout
    BY <2>2, TokensAre
  <2> QED BY <2>1, <2>2, <2>3, TimeoutStep
<1>2. CASE ReadNotTimeout
  <2>1. Reads("not_timeout") /\ ReadsTimeout(TRUE)
    BY <1>2 DEF ReadNotTimeout
  <2>2. status = "parsing" /\ Token.kind = "not_timeout" /\ Token \in TokenType \cup {End}
    BY <2>1, TokenRead
  <2>3. Token.ms \in 0..MaxTimeout
    BY <2>2, TokensAre
  <2> QED BY <2>1, <2>2, <2>3, TimeoutStep
<1> QED BY <1>1, <1>2

LEMMA NotStep == ParserInv /\ ReadNot => ParserInv'
<1> SUFFICES ASSUME ParserInv, ReadNot PROVE ParserInv'
  OBVIOUS
<1> DEFINE key == Token.key
           p == Flush(parser, isInput \/ key \in VirtualKeys)
           q == AddNot(p, key)
<1>1. Reads("not")
  BY DEF ReadNot
<1>2. /\ status = "parsing" /\ Token.kind = "not" /\ Token \in TokenType \cup {End} /\ Token \in ToSet(expression)
      /\ parser \in ParserType /\ Fine(parser, NotKeys)
  BY <1>1, TokenRead
<1>3. key \in NamedKeys /\ Token = NotToken(key)
  BY <1>2, TokensAre
<1>4. isInput => key \in NotKeys
  <2>1. NotToken(key) \in ToSet(expression)
    BY <1>2, <1>3
  <2> QED BY <1>3, <2>1 DEF NotKeys
<1>5. \/ Throw(parser)
      \/ Continue(q) /\ UNCHANGED <<group_vars, flag_vars>>
  BY DEF ReadNot
<1>6. p \in ParserType /\ Fine(p, NotKeys) /\ (isInput => ToSet(p.pressed) \subseteq ToSet(parser.pressed))
  <2>1. CASE isInput \/ key \in VirtualKeys
    <3>1. p = Flush(parser, TRUE)
      BY <2>1
    <3> HIDE DEF p
    <3> QED BY <1>2, <3>1, Flushed
  <2>2. CASE ~(isInput \/ key \in VirtualKeys)
    <3>1. p = Flush(parser, FALSE)
      BY <2>2
    <3> HIDE DEF p
    <3> QED BY <1>2, <2>2, <3>1, FlushHeld
  <2> QED BY <2>1, <2>2
<1> HIDE DEF p, key
<1>7. q \in ParserType /\ ToSet(q.pressed) \subseteq ToSet(p.pressed) /\ Fine(q, NotKeys)
  BY <1>3, <1>4, <1>6, AddNotFine
<1> HIDE DEF q
<1>8. CASE Throw(parser)
  BY <1>2, <1>8, Throws
<1>9. CASE Continue(q) /\ UNCHANGED <<group_vars, flag_vars>>
  BY <1>2, <1>6, <1>7, <1>9, GoesOn, FlagsAre DEF group_vars, flag_vars
<1> QED BY <1>5, <1>8, <1>9

LEMMA LiteralStep == ParserInv /\ ReadLiteral => ParserInv'
<1> SUFFICES ASSUME ParserInv, ReadLiteral PROVE ParserInv'
  OBVIOUS
<1> DEFINE typed == Token.typed
           p == Flush(parser, TRUE)
           e == IF isInput THEN TypeInput(typed) ELSE TypeOutput(typed, Token.bytes)
           q == Put(p, e)
<1>1. Reads("literal") /\ Continue(q)
  BY DEF ReadLiteral
<1>2. status = "parsing" /\ Token.kind = "literal" /\ Token \in TokenType \cup {End}
  BY <1>1, TokenRead
<1>3. typed \in Seq(Characters)
  BY <1>2, TokensAre
<1>4. p \in ParserType /\ ToSet(p.pressed) \subseteq ToSet(parser.pressed) /\ Fine(p, NotKeys)
  BY <1>2, Flushed
<1>5. Adds(e)
  <2> HIDE DEF typed
  <2> QED BY <1>3, TypeInputIs, TypeOutputIs
<1>6. UNCHANGED <<group_vars, noMightMatch, onRelease>> /\ hasModifier' \in BOOLEAN
  BY FlagsAre DEF ReadLiteral
<1> HIDE DEF p, e
<1>7. q \in ParserType /\ q.pressed = p.pressed /\ Fine(q, NotKeys)
  BY <1>4, <1>5, LiteralFine
<1> HIDE DEF q
<1> QED BY <1>1, <1>2, <1>4, <1>6, <1>7, GoesOn, FlagsAre DEF group_vars

LEMMA LiteralKeyStep == ParserInv /\ ReadLiteralKey => ParserInv'
<1> SUFFICES ASSUME ParserInv, ReadLiteralKey PROVE ParserInv'
  OBVIOUS
<1> DEFINE typed == Token.typed
           p == IF typed = << >> THEN parser ELSE Buffer(parser, typed[1].key)
<1>1. Reads("literal") /\ Continue(p) /\ UNCHANGED <<group_vars, flag_vars>>
  BY DEF ReadLiteralKey
<1>2. /\ status = "parsing" /\ Token.kind = "literal" /\ Token \in TokenType \cup {End}
      /\ parser \in ParserType /\ Fine(parser, NotKeys)
  BY <1>1, TokenRead
<1>3. typed \in Seq(Characters)
  BY <1>2, TokensAre
<1>4. p \in ParserType /\ p.pressed = parser.pressed /\ Fine(p, NotKeys)
  <2> HIDE DEF typed
  <2>1. CASE typed = << >>
    BY <1>2, <2>1
  <2>2. CASE typed # << >>
    <3>1. 1 \in 1..Len(typed)
      BY <1>3, <2>2
    <3>2. typed[1].key \in NamedKeys
      BY <1>3, <3>1, CharactersAre DEF NamedKeys
    <3> QED BY <1>2, <2>2, <3>2, Buffered
  <2> QED BY <2>1, <2>2
<1> HIDE DEF p
<1> QED BY <1>1, <1>2, <1>4, GoesOn, FlagsAre DEF group_vars, flag_vars

\* An error behind which there is another token, or none.
LEMMA LongLiteralStep == ParserInv /\ ReadLongLiteral => ParserInv'
<1> SUFFICES ASSUME ParserInv, ReadLongLiteral PROVE ParserInv'
  OBVIOUS
<1>1. /\ status' = "error" /\ Reads("literal")
      /\ UNCHANGED <<vocabulary, parses, isInput, parser, group_vars, flag_vars>>
      /\ \/ UNCHANGED expression
         \/ Sign("{") \in NextTokens(vocabulary, Len(expression)) /\ expression' = Append(expression, Sign("{"))
  BY DEF ReadLongLiteral
<1>2. expression \in Seq(TokenType \cup {End}) /\ expression # << >> /\ vocabulary \in Vocabularies
  BY <1>1 DEF ParserInv, TypesInv, Reads
<1>3. expression' \in Seq(TokenType \cup {End}) /\ expression' # << >>
  BY <1>1, <1>2, ExpressionGrows
<1>4. TypesInv'
  BY <1>1, <1>2, <1>3 DEF ParserInv, TypesInv, group_vars, flag_vars
<1>5. PressesArePaired'
  BY <1>1 DEF PressesArePaired
<1> QED BY <1>1, <1>4, <1>5 DEF ParserInv

\* An event that is neither pressed nor released.
LEMMA MarkStep ==
  ASSUME ParserInv, status = "parsing", NEW p \in ParserType, Fine(p, NotKeys),
         ToSet(p.pressed) \subseteq ToSet(parser.pressed),
         NEW event \in EventType, ~IsPress(event), ~IsRelease(event), event.state # "Not",
         Continue(Put(p, <<event>>)), UNCHANGED group_vars,
         noMightMatch' \in BOOLEAN, onRelease' \in BOOLEAN, hasModifier' \in BOOLEAN
  PROVE  ParserInv'
<1> DEFINE q == Put(p, <<event>>)
<1>1. q \in ParserType /\ q.pressed = p.pressed /\ Fine(q, NotKeys)
  BY MarkFine
<1> HIDE DEF q
<1>2. Continue(q)
  BY DEF q
<1> QED BY <1>1, <1>2, GoesOn, FlagsAre DEF group_vars

LEMMA CommandStep == ParserInv /\ ReadCommand => ParserInv'
<1> SUFFICES ASSUME ParserInv, ReadCommand PROVE ParserInv'
  OBVIOUS
<1> DEFINE p == Flush(parser, TRUE)
           event == Press(CommandKey)
<1>1. Reads("$")
  BY DEF ReadCommand
<1>2. status = "parsing" /\ parser \in ParserType
  BY <1>1, TokenRead
<1>3. p \in ParserType /\ ToSet(p.pressed) \subseteq ToSet(parser.pressed) /\ Fine(p, NotKeys)
  BY <1>2, Flushed
<1>4. event \in EventType /\ ~IsPress(event) /\ ~IsRelease(event) /\ event.state # "Not"
  <2>1. CommandKey \in ActionKeys /\ CommandKey \in EventKeys
    BY VocabulariesAreTokens, NamedAreEventKeys
  <2>2. event = Event(CommandKey, "Down")
    BY DEF Press
  <2>3. event \in EventType /\ event.key = CommandKey /\ event.state = "Down"
    BY <2>1, <2>2, EventHasType, StatesAre, EventIs
  <2> QED BY <2>1, <2>3 DEF IsPress, IsRelease
<1>5. \/ Throw(parser)
      \/ Continue(Put(p, <<event>>)) /\ UNCHANGED <<group_vars, flag_vars>>
  BY DEF ReadCommand
<1> HIDE DEF p, event
<1>6. CASE Throw(parser)
  BY <1>2, <1>6, Throws
<1>7. CASE Continue(Put(p, <<event>>)) /\ UNCHANGED <<group_vars, flag_vars>>
  <2>1. UNCHANGED group_vars /\ noMightMatch' \in BOOLEAN /\ onRelease' \in BOOLEAN /\ hasModifier' \in BOOLEAN
    BY <1>7, FlagsAre DEF flag_vars
  <2> QED BY <1>2, <1>3, <1>4, <1>7, <2>1, MarkStep
<1> QED BY <1>5, <1>6, <1>7

\* The marks of an expression have no key.
LEMMA MarksAre ==
  ASSUME NEW state \in {"OutputOnRelease", "NoMightMatch"}, NEW event, event = Event("none", state)
  PROVE  event \in EventType /\ ~IsPress(event) /\ ~IsRelease(event) /\ event.state # "Not"
<1>1. "none" \in EventKeys /\ state \in KeyStates
  BY StatesAre DEF EventKeys
<1>2. event \in EventType /\ event.state = state
  BY <1>1, EventHasType, EventIs
<1> QED BY <1>2 DEF IsPress, IsRelease

LEMMA OnReleaseStep == ParserInv /\ ReadOnRelease => ParserInv'
<1> SUFFICES ASSUME ParserInv, ReadOnRelease PROVE ParserInv'
  OBVIOUS
<1> DEFINE p == Flush(parser, TRUE)
           event == Event("none", "OutputOnRelease")
<1>1. Reads("^")
  BY DEF ReadOnRelease
<1>2. status = "parsing" /\ parser \in ParserType
  BY <1>1, TokenRead
<1>3. p \in ParserType /\ ToSet(p.pressed) \subseteq ToSet(parser.pressed) /\ Fine(p, NotKeys)
  BY <1>2, Flushed
<1>4. event \in EventType /\ ~IsPress(event) /\ ~IsRelease(event) /\ event.state # "Not"
  BY MarksAre
<1>5. \/ Throw(parser)
      \/ /\ Continue(Put(p, <<event>>)) /\ onRelease' = TRUE
         /\ UNCHANGED <<group_vars, noMightMatch, hasModifier>>
  BY DEF ReadOnRelease
<1> HIDE DEF p, event
<1>6. CASE Throw(parser)
  BY <1>2, <1>6, Throws
<1>7. CASE /\ Continue(Put(p, <<event>>)) /\ onRelease' = TRUE
           /\ UNCHANGED <<group_vars, noMightMatch, hasModifier>>
  <2>1. UNCHANGED group_vars /\ noMightMatch' \in BOOLEAN /\ onRelease' \in BOOLEAN /\ hasModifier' \in BOOLEAN
    BY <1>7, FlagsAre
  <2> QED BY <1>2, <1>3, <1>4, <1>7, <2>1, MarkStep
<1> QED BY <1>5, <1>6, <1>7

LEMMA NoMightMatchStep == ParserInv /\ ReadNoMightMatch => ParserInv'
<1> SUFFICES ASSUME ParserInv, ReadNoMightMatch PROVE ParserInv'
  OBVIOUS
<1> DEFINE event == Event("none", "NoMightMatch")
<1>1. Reads("?")
  BY DEF ReadNoMightMatch
<1>2. status = "parsing" /\ parser \in ParserType /\ Fine(parser, NotKeys)
  BY <1>1, TokenRead
<1>3. event \in EventType /\ ~IsPress(event) /\ ~IsRelease(event) /\ event.state # "Not"
  BY MarksAre
<1>4. \/ Throw(parser)
      \/ /\ Continue(Put(parser, <<event>>)) /\ noMightMatch' = TRUE
         /\ UNCHANGED <<group_vars, onRelease, hasModifier>>
  BY DEF ReadNoMightMatch
<1> HIDE DEF event
<1>5. CASE Throw(parser)
  BY <1>2, <1>5, Throws
<1>6. CASE /\ Continue(Put(parser, <<event>>)) /\ noMightMatch' = TRUE
           /\ UNCHANGED <<group_vars, onRelease, hasModifier>>
  <2>1. UNCHANGED group_vars /\ noMightMatch' \in BOOLEAN /\ onRelease' \in BOOLEAN /\ hasModifier' \in BOOLEAN
    BY <1>6, FlagsAre
  <2> QED BY <1>2, <1>3, <1>6, <2>1, MarkStep
<1> QED BY <1>4, <1>5, <1>6

LEMMA BeginTogetherStep == ParserInv /\ BeginTogether => ParserInv'
<1> SUFFICES ASSUME ParserInv, BeginTogether PROVE ParserInv'
  OBVIOUS
<1> DEFINE p == Flush(parser, TRUE)
<1>1. Reads("(")
  BY DEF BeginTogether
<1>2. status = "parsing" /\ parser \in ParserType
  BY <1>1, TokenRead
<1>3. p \in ParserType /\ ToSet(p.pressed) \subseteq ToSet(parser.pressed) /\ Fine(p, NotKeys)
  BY <1>2, Flushed
<1>4. \/ Throw(parser)
      \/ Continue(p) /\ together' = TRUE /\ UNCHANGED <<before, modified, flag_vars>>
  BY DEF BeginTogether
<1> HIDE DEF p
<1>5. CASE Throw(parser)
  BY <1>2, <1>5, Throws
<1>6. CASE Continue(p) /\ together' = TRUE /\ UNCHANGED <<before, modified, flag_vars>>
  BY <1>2, <1>3, <1>6, GoesOn, FlagsAre DEF flag_vars
<1> QED BY <1>4, <1>5, <1>6

LEMMA EndTogetherStep == ParserInv /\ EndTogether => ParserInv'
<1> SUFFICES ASSUME ParserInv, EndTogether PROVE ParserInv'
  OBVIOUS
<1> DEFINE p == IF isInput THEN Put(parser, Events(parser.buffer, "DownAsync")) ELSE parser
<1>1. Reads(")")
  BY DEF EndTogether
<1>2. status = "parsing" /\ parser \in ParserType /\ Fine(parser, NotKeys)
  BY <1>1, TokenRead
<1>3. p \in ParserType /\ p.pressed = parser.pressed /\ Fine(p, NotKeys)
  BY <1>2, TogetherFine
<1>4. \/ Throw(parser)
      \/ Continue(p) /\ together' = FALSE /\ UNCHANGED <<before, modified, flag_vars>>
  BY DEF EndTogether
<1> HIDE DEF p
<1>5. CASE Throw(parser)
  BY <1>2, <1>5, Throws
<1>6. CASE Continue(p) /\ together' = FALSE /\ UNCHANGED <<before, modified, flag_vars>>
  BY <1>2, <1>3, <1>6, GoesOn, FlagsAre DEF flag_vars
<1> QED BY <1>4, <1>5, <1>6

\* The outermost group of an input begins with no key that is held.
LEMMA BeginModifiedStep == ParserInv /\ BeginModified => ParserInv'
<1> SUFFICES ASSUME ParserInv, BeginModified PROVE ParserInv'
  OBVIOUS
<1> DEFINE p == Flush(parser, FALSE)
           held == Len(parser.pressed)
<1>1. Reads("{")
  BY DEF BeginModified
<1>2. status = "parsing" /\ parser \in ParserType /\ Fine(parser, NotKeys) /\ GroupsKept
  BY <1>1, TokenRead
<1>3. p \in ParserType /\ Fine(p, NotKeys)
  BY <1>2, FlushHeld
<1>4. \/ Throw(parser)
      \/ /\ Continue(p) /\ before' = Append(before, held) /\ modified' = modified + 1 /\ hasModifier' = TRUE
         /\ UNCHANGED <<together, noMightMatch, onRelease>>
  BY DEF BeginModified, Noted
<1>5. held \in Nat /\ (parser.pressed = << >> => held = 0)
  BY <1>2, ParserIs
<1> HIDE DEF p, held
<1>6. CASE Throw(parser)
  BY <1>2, <1>6, Throws
<1>7. CASE /\ Continue(p) /\ before' = Append(before, held) /\ modified' = modified + 1 /\ hasModifier' = TRUE
           /\ UNCHANGED <<together, noMightMatch, onRelease>>
  <2>1. before \in Seq(Nat) /\ Len(before) = modified /\ modified \in Nat
    BY FlagsAre
  <2>2. /\ before' \in Seq(Nat) /\ Len(before') = modified' /\ modified' # 0
        /\ modified = 0 => before'[1] = held
        /\ modified # 0 => before'[1] = before[1]
    BY <1>5, <1>7, <2>1
  <2>3. isInput => before'[1] = 0
    BY <1>2, <1>5, <2>2 DEF GroupsKept
  <2>4. isInput => IF modified' = 0 THEN p.pressed = << >> ELSE before'[1] = 0
    BY <2>2, <2>3
  <2>5. together' \in BOOLEAN /\ noMightMatch' \in BOOLEAN /\ onRelease' \in BOOLEAN /\ hasModifier' \in BOOLEAN
    BY <1>7, FlagsAre
  <2> QED BY <1>2, <1>3, <1>7, <2>2, <2>4, <2>5, Continues
<1> QED BY <1>4, <1>6, <1>7

\* And it ends with none.
LEMMA EndModifiedStep == ParserInv /\ EndModified => ParserInv'
<1> SUFFICES ASSUME ParserInv, EndModified PROVE ParserInv'
  OBVIOUS
<1> DEFINE f == Flush(parser, TRUE)
           p == ReleasePressed(f, Last(before))
           q == IF isInput THEN SyncAfterNotTimeout(p) ELSE p
<1>1. Reads("}")
  BY DEF EndModified
<1>2. status = "parsing" /\ parser \in ParserType /\ Fine(parser, NotKeys) /\ GroupsKept
  BY <1>1, TokenRead
<1>3. \/ Throw(parser)
      \/ /\ InGroup /\ Continue(q) /\ before' = Front(before) /\ modified' = modified - 1
         /\ UNCHANGED <<together, flag_vars>>
  BY DEF EndModified
<1>4. CASE Throw(parser)
  BY <1>2, <1>4, Throws
<1>5. CASE /\ InGroup /\ Continue(q) /\ before' = Front(before) /\ modified' = modified - 1
           /\ UNCHANGED <<together, flag_vars>>
  <2>1. before \in Seq(Nat) /\ Len(before) = modified /\ modified \in Nat /\ modified > 0
    BY <1>5, FlagsAre DEF InGroup
  <2>2. /\ Last(before) \in Nat /\ Last(before) = before[modified]
        /\ before' = SubSeq(before, 1, modified - 1)
    BY <1>5, <2>1 DEF Last, Front
  <2>3. /\ before' \in Seq(Nat) /\ Len(before') = modified' /\ modified' = modified - 1
        /\ modified' # 0 => before'[1] = before[1]
    BY <1>5, <2>1, <2>2
  <2>4. f \in ParserType /\ Fine(f, NotKeys)
    BY <1>2, Flushed
  <2> HIDE DEF f
  <2>5. p \in ParserType /\ Fine(p, NotKeys) /\ (Last(before) = 0 => p.pressed = << >>)
    BY <2>2, <2>4, ReleaseFine
  <2> HIDE DEF p
  <2>6. q \in ParserType /\ Fine(q, NotKeys) /\ q.pressed = p.pressed
    BY <2>5, SyncFine
  <2> HIDE DEF q
  <2>7. isInput => before[1] = 0
    BY <1>2, <2>1 DEF GroupsKept
  <2>8. isInput => IF modified' = 0 THEN q.pressed = << >> ELSE before'[1] = 0
    <3>1. modified' = 0 => modified = 1
      BY <2>1, <2>3
    <3> QED BY <2>2, <2>3, <2>5, <2>6, <2>7, <3>1
  <2>9. together' \in BOOLEAN /\ noMightMatch' \in BOOLEAN /\ onRelease' \in BOOLEAN /\ hasModifier' \in BOOLEAN
    BY <1>5, FlagsAre DEF flag_vars
  <2>10. Continue(q)
    BY <1>5
  <2> QED BY <1>2, <2>3, <2>6, <2>8, <2>9, <2>10, Continues
<1> QED BY <1>3, <1>4, <1>5

LEMMA KeyStep == ParserInv /\ ReadKey => ParserInv'
<1> SUFFICES ASSUME ParserInv, ReadKey PROVE ParserInv'
  OBVIOUS
<1> DEFINE p == IF together THEN parser ELSE Flush(parser, TRUE)
           q == Buffer(p, Token.key)
<1>1. Reads("key") /\ Continue(q) /\ UNCHANGED <<group_vars, flag_vars>>
  BY DEF ReadKey
<1>2. /\ status = "parsing" /\ Token.kind = "key" /\ Token \in TokenType \cup {End}
      /\ parser \in ParserType /\ Fine(parser, NotKeys)
  BY <1>1, TokenRead
<1>3. Token.key \in NamedKeys
  BY <1>2, TokensAre
<1>4. p \in ParserType /\ ToSet(p.pressed) \subseteq ToSet(parser.pressed) /\ Fine(p, NotKeys)
  BY <1>2, Flushed
<1> HIDE DEF p
<1>5. q \in ParserType /\ q.pressed = p.pressed /\ Fine(q, NotKeys)
  BY <1>3, <1>4, Buffered
<1> HIDE DEF q
<1> QED BY <1>1, <1>2, <1>4, <1>5, GoesOn, FlagsAre DEF group_vars, flag_vars

LEMMA InvalidStep == ParserInv /\ ReadInvalid => ParserInv'
<1> SUFFICES ASSUME ParserInv, ReadInvalid PROVE ParserInv'
  OBVIOUS
<1> DEFINE p == IF together THEN parser ELSE Flush(parser, TRUE)
<1>1. Reads("invalid") /\ Throw(p)
  BY DEF ReadInvalid
<1>2. status = "parsing" /\ parser \in ParserType
  BY <1>1, TokenRead
<1>3. p \in ParserType
  BY <1>2, Flushed
<1> HIDE DEF p
<1> QED BY <1>1, <1>2, <1>3, Throws

\* The end: what is pressed is released, or may be held.
LEMMA FinishStep == ParserInv /\ Finish => ParserInv'
<1> SUFFICES ASSUME ParserInv, Finish PROVE ParserInv'
  OBVIOUS
<1> DEFINE p == Flush(parser, TRUE)
           q == IF isInput THEN EndInput(p) ELSE EndOutput(p)
           s == q.sequence
           c == WithoutContextInactive(s)
<1>1. Reads("end")
  BY DEF Finish
<1>2. status = "parsing" /\ parser \in ParserType /\ Fine(parser, NotKeys) /\ GroupsKept
  BY <1>1, TokenRead
<1>3. /\ p \in ParserType /\ p.buffer = << >> /\ ToSet(p.pressed) \subseteq ToSet(parser.pressed)
      /\ Fine(p, NotKeys)
  BY <1>2, Flushed
<1>4. Ended = q
  BY DEF Ended
<1>5. \/ Throw(p)
      \/ ~together /\ ~InGroup /\ Throw(q)
      \/ /\ ~together /\ ~InGroup /\ ~IsWrong(s)
         /\ parser' = [q EXCEPT !.sequence = c]
         /\ status' = "done"
         /\ UNCHANGED <<expression, vocabulary, parses, isInput, group_vars, flag_vars>>
  BY <1>4 DEF Finish
<1> HIDE DEF p
<1>6. CASE Throw(p)
  BY <1>2, <1>3, <1>6, Throws
<1>7. ASSUME ~InGroup
      PROVE  /\ q \in ParserType /\ q.buffer = << >>
             /\ \/ noMightMatch /\ isInput
                \/ ~isInput /\ ~hasModifier /\ AllPressedAtOnce(q.sequence)
                \/ Presses(q.sequence, {})
             /\ Releases(q.sequence, NotKeys)
  <2>1. modified = 0
    BY <1>7, FlagsAre DEF InGroup
  <2>2. CASE isInput
    <3>1. p.pressed = << >>
      BY <1>2, <1>3, <2>1, <2>2, NothingHeld DEF GroupsKept
    <3>2. q = EndInput(p)
      BY <2>2
    <3> HIDE DEF q
    <3> QED BY <1>3, <2>2, <3>1, <3>2, InputEnds
  <2>3. CASE ~isInput
    <3>1. q = EndOutput(p)
      BY <2>3
    <3> HIDE DEF q
    <3> QED BY <1>3, <2>3, <3>1, OutputEnds
  <2> QED BY <2>2, <2>3
<1> HIDE DEF q
<1>8. CASE ~together /\ ~InGroup /\ Throw(q)
  BY <1>2, <1>7, <1>8, Throws
<1>9. CASE /\ ~together /\ ~InGroup /\ ~IsWrong(s)
           /\ parser' = [q EXCEPT !.sequence = c]
           /\ status' = "done"
           /\ UNCHANGED <<expression, vocabulary, parses, isInput, group_vars, flag_vars>>
  <2>1. s \in Seq(EventType) /\ modified = 0
    BY <1>7, <1>9, ParserIs, FlagsAre DEF InGroup
  <2>2. HasKey(s, {"ContextActive"}) => Len(s) = 2 /\ isInput
    BY <1>9 DEF IsWrong
  <2>3. /\ c \in Seq(EventType)
        /\ Presses(s, {}) => Presses(c, {})
        /\ Releases(s, NotKeys) => Releases(c, NotKeys)
    BY <2>1, <2>2, ContextInactiveRemoved
  <2>4. ~isInput => c = s
    BY <2>2 DEF WithoutContextInactive
  <2> HIDE DEF c
  <2>5. parser' \in ParserType /\ parser'.sequence = c /\ parser'.buffer = << >>
    BY <1>7, <1>9, <2>3, WithSequence
  <2>6. TypesInv'
    BY <1>2, <1>9, <2>1, <2>5 DEF ParserInv, TypesInv, group_vars, flag_vars
  <2>7. Releases(c, NotKeys)
    BY <1>7, <1>9, <2>3
  <2>8. \/ noMightMatch
        \/ ~isInput /\ ~hasModifier /\ AllPressedAtOnce(c)
        \/ Presses(c, {})
    BY <1>7, <1>9, <2>3, <2>4
  <2>9. PressesArePaired'
    <3>1. /\ parser'.sequence = c /\ isInput' = isInput /\ hasModifier' = hasModifier
          /\ noMightMatch' = noMightMatch /\ expression' = expression
      BY <1>9, <2>5 DEF flag_vars
    <3>2. \/ ~isInput /\ ~hasModifier /\ AllPressedAtOnce(c)
          \/ noMightMatch
          \/ \A i \in DOMAIN c : IsPress(c[i]) =>
               \E j \in DOMAIN c : j > i /\ c[j].key = c[i].key /\ (IsRelease(c[j]) \/ c[j].state = "Not")
      BY <2>8 DEF Presses, Ends
    <3>3. \A i \in DOMAIN c : IsRelease(c[i]) =>
            \/ \E j \in DOMAIN c : j < i /\ c[j].key = c[i].key /\ c[j].state = "Down"
            \/ isInput /\ NotToken(c[i].key) \in ToSet(expression)
      BY <2>7 DEF Releases, NotKeys
    <3> QED BY <3>1, <3>2, <3>3 DEF PressesArePaired
  <2> QED BY <1>9, <2>6, <2>9 DEF ParserInv
<1> QED BY <1>5, <1>6, <1>8, <1>9

LEMMA StartStep == ParserInv /\ Start => ParserInv'
<1> SUFFICES ASSUME ParserInv, Start PROVE ParserInv'
  OBVIOUS
<1>1. PICK v \in Vocabularies, asInput \in BOOLEAN :
        \E first \in NextTokens(v, 0) :
          vocabulary' = v /\ isInput' = asInput /\ expression' = <<first>>
  BY DEF Start
<1>2. PICK first \in NextTokens(v, 0) : vocabulary' = v /\ isInput' = asInput /\ expression' = <<first>>
  BY <1>1
<1>3. first \in TokenType \cup {End}
  BY NextTokensAre
<1>4. expression' \in Seq(TokenType \cup {End}) /\ expression' # << >>
  <2> DEFINE T == TokenType \cup {End}
  <2>1. first \in T
    BY <1>3
  <2> HIDE DEF T
  <2>2. <<first>> \in Seq(T) /\ <<first>> # << >>
    BY <2>1
  <2> QED BY <1>2, <2>2 DEF T
<1>5. /\ status' = "parsing" /\ parser' = Fresh /\ before' = << >> /\ together' = FALSE /\ modified' = 0
      /\ noMightMatch' = FALSE /\ onRelease' = FALSE /\ hasModifier' = FALSE
  BY DEF Start, Cleared
<1>6. Fresh \in ParserType /\ Fresh.sequence = << >> /\ Fresh.pressed = << >>
  BY DEF Fresh, ParserType
<1>7. TypesInv'
  <2>1. << >> \in Seq(Nat) /\ Len(<< >>) = 0
    OBVIOUS
  <2> QED BY <1>2, <1>4, <1>5, <1>6, <2>1 DEF TypesInv
<1>8. Fine(parser, NotKeys)'
  <2>1. \A not : Paired(<< >>, {}, not) /\ Nots(<< >>, not)
    BY DEF Paired, Presses, Releases, Nots
  <2>2. ToSet(<< >>) = {}
    BY ShortSets
  <2>3. parser'.sequence = << >> /\ parser'.pressed = << >>
    BY <1>5, <1>6
  <2> QED BY <2>1, <2>2, <2>3 DEF Fine
<1>9. GroupsKept'
  BY <1>5, <1>6 DEF GroupsKept
<1>10. PressesArePaired'
  BY <1>5 DEF PressesArePaired
<1> QED BY <1>7, <1>8, <1>9, <1>10 DEF ParserInv

LEMMA ParserInvInitially == Init => ParserInv
<1> SUFFICES ASSUME Init PROVE ParserInv
  OBVIOUS
<1>1. /\ status = "idle" /\ parser = Fresh /\ before = << >> /\ together = FALSE /\ modified = 0 /\ isInput = FALSE
      /\ noMightMatch = FALSE /\ onRelease = FALSE /\ hasModifier = FALSE
  BY DEF Init
<1>2. Fresh \in ParserType
  BY DEF Fresh, ParserType
<1>3. TypesInv
  <2>1. << >> \in Seq(Nat) /\ Len(<< >>) = 0
    OBVIOUS
  <2> QED BY <1>1, <1>2, <2>1 DEF TypesInv
<1>4. PressesArePaired
  BY <1>1 DEF PressesArePaired
<1> QED BY <1>1, <1>3, <1>4 DEF ParserInv

LEMMA ParserInvKept == ParserInv /\ [Next]_vars => ParserInv'
<1> SUFFICES ASSUME ParserInv, [Next]_vars PROVE ParserInv'
  OBVIOUS
<1>1. CASE Start
  BY <1>1, StartStep
<1>2. CASE ReadTimeout \/ ReadNotTimeout
  BY <1>2, TimeoutSteps
<1>3. CASE ReadNot
  BY <1>3, NotStep
<1>4. CASE ReadLiteral
  BY <1>4, LiteralStep
<1>5. CASE ReadLiteralKey
  BY <1>5, LiteralKeyStep
<1>6. CASE ReadLongLiteral
  BY <1>6, LongLiteralStep
<1>7. CASE ReadCommand
  BY <1>7, CommandStep
<1>8. CASE ReadOnRelease
  BY <1>8, OnReleaseStep
<1>9. CASE ReadNoMightMatch
  BY <1>9, NoMightMatchStep
<1>10. CASE BeginTogether
  BY <1>10, BeginTogetherStep
<1>11. CASE EndTogether
  BY <1>11, EndTogetherStep
<1>12. CASE BeginModified
  BY <1>12, BeginModifiedStep
<1>13. CASE EndModified
  BY <1>13, EndModifiedStep
<1>14. CASE ReadKey
  BY <1>14, KeyStep
<1>15. CASE ReadInvalid
  BY <1>15, InvalidStep
<1>16. CASE Finish
  BY <1>16, FinishStep
<1>17. CASE UNCHANGED vars
  <2>1. /\ expression' = expression /\ vocabulary' = vocabulary /\ status' = status /\ isInput' = isInput
        /\ parser' = parser /\ before' = before /\ together' = together /\ modified' = modified
        /\ noMightMatch' = noMightMatch /\ onRelease' = onRelease /\ hasModifier' = hasModifier
    BY <1>17 DEF vars, group_vars, flag_vars
  <2>2. TypesInv'
    BY <2>1 DEF ParserInv, TypesInv
  <2>3. (status = "parsing" => GroupsKept /\ Fine(parser, NotKeys))'
    BY <2>1 DEF ParserInv, GroupsKept, Fine, NotKeys
  <2>4. PressesArePaired'
    BY <2>1 DEF ParserInv, PressesArePaired
  <2> QED BY <2>2, <2>3, <2>4 DEF ParserInv
<1> QED BY <1>1, <1>2, <1>3, <1>4, <1>5, <1>6, <1>7, <1>8, <1>9, <1>10, <1>11, <1>12, <1>13, <1>14,
           <1>15, <1>16, <1>17 DEF Next

-----------------------------------------------------------------------------
(* The variables of the parser have their types in each state, each group  *)
(* that is open has its entry in m_keys_pressed_before_modifier_group and  *)
(* nothing is left of a finished expression (ParseKeySequence.cpp).        *)
THEOREM ParserTypeCorrect == Spec => []TypeOK
<1>1. ParserInv => TypeOK
  <2> SUFFICES ASSUME ParserInv PROVE TypeOK
    OBVIOUS
  <2>1. parser.sequence \in Seq(EventType)
    BY ParserIs DEF ParserInv, TypesInv
  <2>2. ToSet(parser.sequence) \subseteq EventType
    BY <2>1 DEF ToSet
  <2> QED BY <2>2 DEF TypeOK, ParserInv, TypesInv
<1> QED BY <1>1, ParserInvInitially, ParserInvKept, PTL DEF Spec

(* Whatever an expression is made of, and whatever was parsed before it:   *)
(* what its events press they release behind it, but for what a mapping    *)
(* holds with its trigger, and they release only what they press or name   *)
(* as !K (ParseKeySequence.cpp:173-384).                                   *)
THEOREM ExpressionsArePaired == Spec => []PressesArePaired
<1>1. ParserInv => PressesArePaired
  BY DEF ParserInv
<1> QED BY <1>1, ParserInvInitially, ParserInvKept, PTL DEF Spec

=============================================================================
