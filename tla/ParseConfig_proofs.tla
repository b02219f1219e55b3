------------------------- MODULE ParseConfig_proofs -------------------------
(***************************************************************************)
(* What is proved of the contexts a configuration becomes, for all         *)
(* configurations: of any vocabulary and length, with any logical keys,    *)
(* stages, filters, commands and forwarded modifiers.                      *)
(***************************************************************************)
EXTENDS ParseConfig, KeyEvents_proofs

\* Key events with the first n logical keys.
Events(n) == [key : KeysWith(n), state : KeyStates, value : 0..MaxTimeout]
Inputs(n) == [input : SequencesWith(n), output : Int]
CommandOutputs(n) == [index : CommandIndices, output : SequencesWith(n)]

\* The output of an input is in the context, or that of a known command.
IsThere(context, index, known) ==
  IF index < 0 THEN -index \in known ELSE index + 1 \in 1..Len(context.outputs)

\* What ContextsAreWhole says of each context alone, and of all of them.
WholeContexts(n, known) ==
  { c \in ContextsWith(n) :
      /\ \A i \in 1..Len(c.inputs) : IsThere(c, c.inputs[i].output, known)
      /\ c.beginStage => c.modifier = << >> }
FallOn(cs) ==
  \A i \in 1..Len(cs) : cs[i].fallthrough => i < Len(cs) /\ ~cs[i + 1].beginStage

\* The inductive invariant: types, and all contexts are whole.
CommandsType == Seq([name : STRING, mapped : BOOLEAN])
Types ==
  /\ vocabulary \in Vocabularies /\ lines \in Seq(vocabulary.lines)
  /\ status \in {"reading", "forward", "optimize", "replace", "suppress", "done", "error"}
  /\ commands \in CommandsType
  /\ Len(logical) <= Len(LogicalKeys) /\ logical \in Definitions(Len(logical))
  /\ Remaining \in 0..Len(logical)
  /\ forwardModifiers \in Seq(KeysWith(Len(logical)))
  /\ systemMatched \in BOOLEAN /\ afterEmptyBlock \in BOOLEAN /\ allowUnmapped \in BOOLEAN
Inv ==
  /\ Types /\ Len(contexts) > 0
  /\ contexts \in Seq(WholeContexts(Remaining, DOMAIN commands)) /\ FallOn(contexts)

-----------------------------------------------------------------------------
(* More keys, more commands *)

LEMMA SequencesGrow ==
  ASSUME NEW A, NEW B, A \subseteq B
  PROVE  Seq(A) \subseteq Seq(B)
OBVIOUS

LEMMA KeysGrow ==
  ASSUME NEW m \in Nat, NEW n \in Nat, m <= n
  PROVE  /\ KeysWith(m) \subseteq KeysWith(n)
         /\ SequencesWith(m) \subseteq SequencesWith(n)
<1>1. KeysWith(m) \subseteq KeysWith(n)
  BY DEF KeysWith
<1>2. Events(m) \subseteq Events(n)
  BY <1>1 DEF Events
<1>3. SequencesWith(m) \subseteq SequencesWith(n)
  BY <1>2, SequencesGrow DEF SequencesWith, Events
<1> QED BY <1>1, <1>3

LEMMA ContextsGrow ==
  ASSUME NEW m \in Nat, NEW n \in Nat, m <= n
  PROVE  ContextsWith(m) \subseteq ContextsWith(n)
<1>1. SequencesWith(m) \subseteq SequencesWith(n)
  BY KeysGrow
<1>2. Inputs(m) \subseteq Inputs(n) /\ CommandOutputs(m) \subseteq CommandOutputs(n)
  BY <1>1 DEF Inputs, CommandOutputs
<1>3. /\ InputsWith(m) \subseteq InputsWith(n) /\ OutputsWith(m) \subseteq OutputsWith(n)
      /\ CommandsWith(m) \subseteq CommandsWith(n)
  BY <1>1, <1>2, SequencesGrow DEF InputsWith, OutputsWith, CommandsWith, Inputs, CommandOutputs
<1> QED BY <1>1, <1>3 DEF ContextsWith

LEMMA WholeContextsGrow ==
  ASSUME NEW m \in Nat, NEW n \in Nat, m <= n, NEW known, NEW more, known \subseteq more
  PROVE  WholeContexts(m, known) \subseteq WholeContexts(n, more)
<1>1. ContextsWith(m) \subseteq ContextsWith(n)
  BY ContextsGrow
<1>2. \A c, index : IsThere(c, index, known) => IsThere(c, index, more)
  BY DEF IsThere
<1> QED BY <1>1, <1>2 DEF WholeContexts

\* The parts of a context.
LEMMA ContextParts ==
  ASSUME NEW n, NEW c \in ContextsWith(n)
  PROVE  /\ DOMAIN c.inputs = 1..Len(c.inputs) /\ Len(c.inputs) \in Nat
         /\ DOMAIN c.outputs = 1..Len(c.outputs) /\ Len(c.outputs) \in Nat
         /\ \A i \in 1..Len(c.inputs) :
              c.inputs[i].input \in SequencesWith(n) /\ c.inputs[i].output \in Int
         /\ \A i \in 1..Len(c.outputs) : c.outputs[i] \in SequencesWith(n)
<1>1. /\ c.inputs \in Seq(Inputs(n)) /\ c.outputs \in Seq(SequencesWith(n))
  BY DEF ContextsWith, InputsWith, OutputsWith, Inputs
<1>2. \A i \in 1..Len(c.inputs) : c.inputs[i] \in Inputs(n)
  BY <1>1
<1> QED BY <1>1, <1>2 DEF Inputs

LEMMA WholeIs ==
  ASSUME NEW n, contexts \in Seq(ContextsWith(n)),
         DOMAIN commands = 1..Len(commands)
  PROVE  OutputsAreThere /\ FallthroughEnds /\ StagesBeginUnfiltered
           <=> contexts \in Seq(WholeContexts(n, DOMAIN commands)) /\ FallOn(contexts)
<1>1. DOMAIN contexts = 1..Len(contexts) /\ \A i \in 1..Len(contexts) : contexts[i] \in ContextsWith(n)
  OBVIOUS
<1>2. FallthroughEnds <=> FallOn(contexts)
  BY <1>1 DEF FallthroughEnds, FallOn
<1>3. ASSUME NEW i \in 1..Len(contexts)
      PROVE  contexts[i] \in WholeContexts(n, DOMAIN commands)
               <=> /\ \A in \in ToSet(contexts[i].inputs) : OutputIsThere(contexts[i], in.output)
                   /\ contexts[i].beginStage => contexts[i].modifier = << >>
  <2> DEFINE c == contexts[i]
  <2>1. c \in ContextsWith(n)
    BY <1>1
  <2>2. /\ DOMAIN c.inputs = 1..Len(c.inputs) /\ DOMAIN c.outputs = 1..Len(c.outputs)
    BY <2>1, ContextParts
  <2> HIDE DEF c
  <2>3. (\A in \in ToSet(c.inputs) : OutputIsThere(c, in.output))
          <=> \A j \in 1..Len(c.inputs) : IsThere(c, c.inputs[j].output, DOMAIN commands)
    BY <2>2 DEF ToSet, OutputIsThere, IsThere
  <2>4. c \in WholeContexts(n, DOMAIN commands)
               <=> /\ \A in \in ToSet(c.inputs) : OutputIsThere(c, in.output)
                   /\ c.beginStage => c.modifier = << >>
    BY <2>1, <2>3 DEF WholeContexts
  <2> QED BY <2>4 DEF c
<1>4. OutputsAreThere /\ StagesBeginUnfiltered
        <=> \A i \in 1..Len(contexts) : contexts[i] \in WholeContexts(n, DOMAIN commands)
  BY <1>1, <1>3 DEF OutputsAreThere, StagesBeginUnfiltered, ToSet
<1>5. contexts \in Seq(WholeContexts(n, DOMAIN commands))
        <=> \A i \in 1..Len(contexts) : contexts[i] \in WholeContexts(n, DOMAIN commands)
  BY <1>1
<1> QED BY <1>2, <1>4, <1>5

LEMMA ContextsAre ==
  commands \in CommandsType =>
    (ContextsAreWhole <=> /\ contexts \in Seq(WholeContexts(Remaining, DOMAIN commands))
                          /\ FallOn(contexts))
<1> SUFFICES ASSUME commands \in CommandsType
             PROVE  ContextsAreWhole <=> /\ contexts \in Seq(WholeContexts(Remaining, DOMAIN commands))
                                         /\ FallOn(contexts)
  OBVIOUS
<1> DEFINE n == Remaining
           W == WholeContexts(n, DOMAIN commands)
<1>1. DOMAIN commands = 1..Len(commands)
  BY DEF CommandsType
<1>2. Seq(W) \subseteq Seq(ContextsWith(n))
  <2>1. W \subseteq ContextsWith(n)
    BY DEF WholeContexts
  <2> QED BY <2>1, SequencesGrow
<1> HIDE DEF n
<1>3. contexts \in Seq(ContextsWith(n)) =>
        (OutputsAreThere /\ FallthroughEnds /\ StagesBeginUnfiltered
           <=> contexts \in Seq(W) /\ FallOn(contexts))
  BY <1>1, WholeIs
<1> HIDE DEF W
<1>4. ContextsAreWhole <=> contexts \in Seq(W) /\ FallOn(contexts)
  BY <1>2, <1>3 DEF ContextsAreWhole, n
<1> QED BY <1>4 DEF W, n

LEMMA InvIs == Inv => TypeOK /\ ContextsAreWhole
<1> SUFFICES ASSUME Inv PROVE TypeOK /\ ContextsAreWhole
  OBVIOUS
<1> DEFINE W == WholeContexts(Remaining, DOMAIN commands)
<1>1. Types /\ Len(contexts) > 0 /\ contexts \in Seq(W) /\ FallOn(contexts)
  BY DEF Inv
<1>2. ContextsAreWhole
  BY <1>1, ContextsAre DEF Types
<1>3. Len(logical) \in Nat /\ Remaining \in Nat /\ Remaining <= Len(logical)
  BY <1>1 DEF Types, Definitions
<1>4. W \subseteq ContextsWith(Len(logical))
  <2> DEFINE r == Remaining
  <2> HIDE DEF r
  <2>1. ContextsWith(r) \subseteq ContextsWith(Len(logical))
    BY <1>3, ContextsGrow DEF r
  <2> QED BY <2>1 DEF WholeContexts, r
<1> HIDE DEF W
<1>5. contexts \in Seq(ContextsWith(Len(logical)))
  BY <1>1, <1>4, SequencesGrow
<1> QED BY <1>1, <1>2, <1>5 DEF Types, TypeOK, CommandsType

-----------------------------------------------------------------------------
(* Names of keys, and expressions *)

LEMMA NamedKeyIs ==
  ASSUME logical \in Definitions(Len(logical)), NEW name
  PROVE  /\ LogicalKey(name) \in 0..Len(logical)
         /\ LogicalKey(name) > 0 =>
              {logical[LogicalKey(name)].left, logical[LogicalKey(name)].right} \subseteq KeysWith(Len(logical))
         /\ IsKey(name) \/ name \in OtherKeys => KeyByName(name) \in KeysWith(Len(logical))
<1> DEFINE n == Len(logical)
           l == LogicalKey(name)
<1>1. n \in Nat /\ DOMAIN logical = 1..n
  BY DEF Definitions
<1>2. \A i \in 1..n : /\ logical[i].both = LogicalKeys[i]
                      /\ {logical[i].left, logical[i].right} \subseteq KeysWith(i - 1)
  BY DEF Definitions
<1>3. l \in 0..n
  <2>1. {i \in DOMAIN logical : logical[i].name = name} \in SUBSET (1..n)
    BY <1>1
  <2> QED BY <1>1, <2>1, FirstOfIs DEF LogicalKey
<1> HIDE DEF l
<1>4. l > 0 => l \in 1..n /\ l - 1 \in Nat /\ l - 1 <= n
  BY <1>1, <1>3
<1>5. l > 0 => {logical[l].left, logical[l].right} \subseteq KeysWith(n)
  BY <1>1, <1>2, <1>4, KeysGrow
<1>6. l > 0 => logical[l].both \in KeysWith(n)
  BY <1>2, <1>4 DEF KeysWith
<1>7. l = 0 /\ (IsKey(name) \/ name \in OtherKeys) => name \in KeysWith(n)
  BY DEF KeysWith, IsKey, OtherKeys, l
<1>8. IsKey(name) \/ name \in OtherKeys => KeyByName(name) \in KeysWith(n)
  BY <1>3, <1>6, <1>7 DEF KeyByName, l
<1> QED BY <1>3, <1>5, <1>8 DEF l

LEMMA ParsedIs ==
  ASSUME logical \in Definitions(Len(logical)), NEW sequence \in Expressions, AreKeys(sequence)
  PROVE  Parsed(sequence) \in SequencesWith(Len(logical))
<1> DEFINE n == Len(logical)
           f == [i \in DOMAIN sequence |-> [sequence[i] EXCEPT !.key = KeyByName(@)]]
<1> DEFINE Parts == [key : STRING, state : KeyStates, value : 0..MaxTimeout]
<1>0. sequence \in Seq(Parts)
  BY DEF Expressions
<1>1. /\ Len(sequence) \in Nat /\ DOMAIN sequence = 1..Len(sequence)
      /\ \A i \in DOMAIN sequence : sequence[i] \in Parts
  <2> HIDE DEF Parts
  <2> QED BY <1>0
<1>2. ASSUME NEW i \in DOMAIN sequence
      PROVE  [sequence[i] EXCEPT !.key = KeyByName(@)] \in Events(n)
  <2>1. IsKey(sequence[i].key) \/ sequence[i].key \in OtherKeys
    BY DEF AreKeys, OtherKeys
  <2>2. KeyByName(sequence[i].key) \in KeysWith(n)
    BY <2>1, NamedKeyIs
  <2> QED BY <1>1, <2>2 DEF Events
<1>3. f \in [1..Len(sequence) -> Events(n)]
  BY <1>1, <1>2
<1>4. Parsed(sequence) = SubSeq(f, 1, Len(sequence))
  BY DEF Parsed, Map
<1> HIDE DEF f
<1>5. Parsed(sequence) \in Seq(Events(n))
  BY <1>1, <1>3, <1>4, MapIs
<1> QED BY <1>5 DEF SequencesWith, Events

\* The steps of Modifiers.
LEMMA ModifiersSteps ==
  ASSUME NEW n \in Nat, NEW sequence \in SequencesWith(n)
  PROVE  \E a : /\ a[0] = << >> /\ Modifiers(sequence) = a[Len(sequence)]
                /\ \A k \in 1..Len(sequence) : a[k] = AddModifier(a[k - 1], sequence[k])
<1> DEFINE m == Len(sequence)
           T == [k \in 0..m |-> Seq(Events(n))]
           G == [k \in 1..m |-> [x \in T[k - 1] |-> AddModifier(x, sequence[k])]]
           Is(f) == f = [s \in SUBSET (1..m) |->
                           IF s = {} THEN << >> ELSE AddModifier(f[s \ {Max(s)}], sequence[Max(s)])]
           f == CHOOSE f : Is(f)
           a == [k \in 0..m |-> f[1..k]]
<1>0. sequence \in Seq(Events(n))
  BY DEF SequencesWith, Events
<1>1. m \in Nat /\ DOMAIN sequence = 1..m /\ \A i \in 1..m : sequence[i] \in Events(n)
  BY <1>0
<1>2. /\ << >> \in T[0]
      /\ \A i \in 1..m : T[i - 1] \subseteq T[i]
      /\ \A i \in 1..m : \A x \in T[i - 1] : AddModifier(x, sequence[i]) \in T[i]
  <2> DEFINE S == Seq(Events(n))
  <2>1. \A x \in S : \A e \in Events(n) : AddModifier(x, e) \in S
    BY DEF AddModifier
  <2>2. << >> \in S /\ \A k \in 0..m : T[k] = S
    OBVIOUS
  <2>3. 0 \in 0..m /\ \A i \in 1..m : i \in 0..m /\ i - 1 \in 0..m
    BY <1>1
  <2> HIDE DEF S, T
  <2> QED BY <1>1, <2>1, <2>2, <2>3
<1>3. \E g : Is(g)
  <2>1. \A i \in 1..m : \A x \in T[i - 1] : G[i][x] = AddModifier(x, sequence[i])
    OBVIOUS
  <2> HIDE DEF T, G
  <2>2. \A i \in 1..m : \A x \in T[i - 1] : G[i][x] \in T[i]
    BY <1>2, <2>1
  <2>3. PICK g : IsFold(g, m, << >>, T, G)
    BY <1>1, <1>2, <2>2, FoldExists
  <2>4. \A s \in SUBSET (1..m) : s # {} => Max(s) \in 1..m
    BY <1>1, LastOfPositions
  <2>5. ASSUME NEW s \in SUBSET (1..m), s # {}
        PROVE  G[Max(s)][g[s \ {Max(s)}]] = AddModifier(g[s \ {Max(s)}], sequence[Max(s)])
    <3>1. Max(s) \in 1..m /\ g[s \ {Max(s)}] \in T[Max(s) - 1]
      BY <2>3, <2>4, <2>5 DEF IsFold
    <3> QED BY <2>1, <3>1
  <2>6. Is(g)
    BY <2>3, <2>5 DEF IsFold
  <2> QED BY <2>6
<1>4. Is(f)
  BY <1>3
<1>5. Modifiers(sequence) = f[1..m]
  BY <1>1 DEF Modifiers, FoldLeft, MapThenFoldSet
<1> HIDE DEF f
<1>6. a[0] = << >>
  <2>1. 1..0 \in SUBSET (1..m) /\ 1..0 = {} /\ 0 \in 0..m
    BY <1>1
  <2> QED BY <1>4, <2>1
<1>7. ASSUME NEW k \in 1..m PROVE a[k] = AddModifier(a[k - 1], sequence[k])
  <2>1. k \in Nat /\ k # 0 /\ k \in 0..m /\ k - 1 \in 0..m /\ 1..k \in SUBSET (1..m)
    BY <1>1
  <2>2. Max(1..k) = k /\ (1..k) \ {Max(1..k)} = 1..(k - 1) /\ 1..k # {}
    BY <2>1, Segments
  <2>3. f[1..k] = AddModifier(f[1..(k - 1)], sequence[k])
    BY <1>4, <2>1, <2>2
  <2> QED BY <2>1, <2>3
<1>8. a[m] = f[1..m]
  BY <1>1
<1> HIDE DEF a
<1> QED BY <1>5, <1>6, <1>7, <1>8

LEMMA ModifiersIs ==
  ASSUME NEW n \in Nat, NEW sequence \in SequencesWith(n)
  PROVE  Modifiers(sequence) \in SequencesWith(n)
<1> DEFINE m == Len(sequence)
           S == Seq(Events(n))
<1>0. sequence \in Seq(Events(n))
  BY DEF SequencesWith, Events
<1>1. m \in Nat /\ \A i \in 1..m : sequence[i] \in Events(n)
  BY <1>0
<1>2. PICK a : /\ a[0] = << >> /\ Modifiers(sequence) = a[m]
               /\ \A k \in 1..m : a[k] = AddModifier(a[k - 1], sequence[k])
  BY ModifiersSteps
<1>3. << >> \in S /\ \A x \in S : \A e \in Events(n) : AddModifier(x, e) \in S
  BY DEF AddModifier
<1> HIDE DEF S
<1>4. \A k \in 0..m : a[k] \in S
  <2>1. a[0] \in S /\ \A k \in 1..m : a[k - 1] \in S => a[k] \in S
    BY <1>1, <1>2, <1>3
  <2> QED BY <1>1, <2>1, ChainStaysIn
<1>5. Modifiers(sequence) \in Seq(Events(n))
  BY <1>1, <1>2, <1>4 DEF S
<1> QED BY <1>5 DEF SequencesWith, Events

\* The steps of ForwardedAll.
LEMMA OnceSteps ==
  ASSUME NEW K, NEW keys \in Seq(K)
  PROVE  \E a : /\ a[0] = << >> /\ FoldLeft(Once, << >>, keys) = a[Len(keys)]
                /\ \A k \in 1..Len(keys) : a[k] = Once(a[k - 1], keys[k])
<1> DEFINE m == Len(keys)
           T == [k \in 0..m |-> Seq(K)]
           G == [k \in 1..m |-> [x \in T[k - 1] |-> Once(x, keys[k])]]
           Is(f) == f = [s \in SUBSET (1..m) |->
                           IF s = {} THEN << >> ELSE Once(f[s \ {Max(s)}], keys[Max(s)])]
           f == CHOOSE f : Is(f)
           a == [k \in 0..m |-> f[1..k]]
<1>1. m \in Nat /\ DOMAIN keys = 1..m /\ \A i \in 1..m : keys[i] \in K
  OBVIOUS
<1>2. /\ << >> \in T[0]
      /\ \A i \in 1..m : T[i - 1] \subseteq T[i]
      /\ \A i \in 1..m : \A x \in T[i - 1] : Once(x, keys[i]) \in T[i]
  <2> DEFINE S == Seq(K)
  <2>1. \A x \in S : \A e \in K : Once(x, e) \in S
    BY DEF Once
  <2>2. << >> \in S /\ \A k \in 0..m : T[k] = S
    OBVIOUS
  <2>3. 0 \in 0..m /\ \A i \in 1..m : i \in 0..m /\ i - 1 \in 0..m
    BY <1>1
  <2> HIDE DEF S, T
  <2> QED BY <1>1, <2>1, <2>2, <2>3
<1>3. \E g : Is(g)
  <2>1. \A i \in 1..m : \A x \in T[i - 1] : G[i][x] = Once(x, keys[i])
    OBVIOUS
  <2> HIDE DEF T, G
  <2>2. \A i \in 1..m : \A x \in T[i - 1] : G[i][x] \in T[i]
    BY <1>2, <2>1
  <2>3. PICK g : IsFold(g, m, << >>, T, G)
    BY <1>1, <1>2, <2>2, FoldExists
  <2>4. \A s \in SUBSET (1..m) : s # {} => Max(s) \in 1..m
    BY <1>1, LastOfPositions
  <2>5. ASSUME NEW s \in SUBSET (1..m), s # {}
        PROVE  G[Max(s)][g[s \ {Max(s)}]] = Once(g[s \ {Max(s)}], keys[Max(s)])
    <3>1. Max(s) \in 1..m /\ g[s \ {Max(s)}] \in T[Max(s) - 1]
      BY <2>3, <2>4, <2>5 DEF IsFold
    <3> QED BY <2>1, <3>1
  <2>6. Is(g)
    BY <2>3, <2>5 DEF IsFold
  <2> QED BY <2>6
<1>4. Is(f)
  BY <1>3
<1>5. FoldLeft(Once, << >>, keys) = f[1..m]
  BY <1>1 DEF FoldLeft, MapThenFoldSet
<1> HIDE DEF f
<1>6. a[0] = << >>
  <2>1. 1..0 \in SUBSET (1..m) /\ 1..0 = {} /\ 0 \in 0..m
    BY <1>1
  <2> QED BY <1>4, <2>1
<1>7. ASSUME NEW k \in 1..m PROVE a[k] = Once(a[k - 1], keys[k])
  <2>1. k \in Nat /\ k # 0 /\ k \in 0..m /\ k - 1 \in 0..m /\ 1..k \in SUBSET (1..m)
    BY <1>1
  <2>2. Max(1..k) = k /\ (1..k) \ {Max(1..k)} = 1..(k - 1) /\ 1..k # {}
    BY <2>1, Segments
  <2>3. f[1..k] = Once(f[1..(k - 1)], keys[k])
    BY <1>4, <2>1, <2>2
  <2> QED BY <2>1, <2>3
<1>8. a[m] = f[1..m]
  BY <1>1
<1> HIDE DEF a
<1> QED BY <1>5, <1>6, <1>7, <1>8

LEMMA ForwardedAllIs ==
  ASSUME logical \in Definitions(Len(logical)), NEW names \in Seq(STRING),
         \A i \in DOMAIN names : names[i] \in DeviceKeys \/ LogicalKey(names[i]) > 0
  PROVE  ForwardedAll(names) \in Seq(KeysWith(Len(logical)))
<1> DEFINE K == KeysWith(Len(logical))
           n == Len(names)
           f == [i \in DOMAIN names |-> Forwarded(names[i])]
           keys == FlattenSeq(Map(names, Forwarded))
           m == Len(keys)
           S == Seq(K)
<1>1. n \in Nat /\ DOMAIN names = 1..n
  OBVIOUS
<1>2. ASSUME NEW i \in 1..n PROVE Forwarded(names[i]) \in Seq(K)
  <2>1. LogicalKey(names[i]) = 0 => names[i] \in K
    BY <1>1 DEF KeysWith, OtherKeys
  <2>2. LogicalKey(names[i]) \in 0..Len(logical) /\ Len(logical) \in Nat
    BY NamedKeyIs DEF Definitions
  <2>3. LogicalKey(names[i]) # 0 =>
          {logical[LogicalKey(names[i])].left, logical[LogicalKey(names[i])].right} \subseteq K
    BY <2>2, NamedKeyIs
  <2> HIDE DEF K
  <2> QED BY <2>1, <2>3 DEF Forwarded
<1> HIDE DEF K
<1>3. f \in [1..n -> Seq(K)] /\ Map(names, Forwarded) = SubSeq(f, 1, n)
  BY <1>1, <1>2 DEF Map
<1> HIDE DEF f
<1>4. Map(names, Forwarded) \in Seq(Seq(K))
  BY <1>1, <1>3, MapIs
<1>5. keys \in Seq(K)
  BY <1>4, FlattenParts
<1> HIDE DEF keys
<1>6. m \in Nat /\ \A i \in 1..m : keys[i] \in K
  BY <1>5
<1>7. PICK a : /\ a[0] = << >> /\ FoldLeft(Once, << >>, keys) = a[m]
               /\ \A k \in 1..m : a[k] = Once(a[k - 1], keys[k])
  BY <1>5, OnceSteps
<1>8. << >> \in S /\ \A x \in S : \A e \in K : Once(x, e) \in S
  BY DEF Once
<1> HIDE DEF S
<1>9. \A k \in 0..m : a[k] \in S
  <2>1. a[0] \in S /\ \A k \in 1..m : a[k - 1] \in S => a[k] \in S
    BY <1>6, <1>7, <1>8
  <2> QED BY <1>6, <2>1, ChainStaysIn
<1>10. FoldLeft(Once, << >>, keys) \in Seq(K)
  BY <1>6, <1>7, <1>9 DEF S
<1> QED BY <1>10 DEF ForwardedAll, keys, K

\* A key that is registered stands for two that were there before.
LEMMA RegisteredIs ==
  ASSUME NEW j \in Nat, j < Len(LogicalKeys), NEW keys \in Definitions(j), NEW name \in Names,
         NEW left \in KeysWith(j), NEW right \in KeysWith(j)
  PROVE  /\ Registered(keys, name, left, right) \in Definitions(j + 1)
         /\ Last(Registered(keys, name, left, right)).both \in KeysWith(j + 1)
<1> DEFINE Key(n) == [name : Names, both : ToSet(LogicalKeys), left : KeysWith(n), right : KeysWith(n)]
           key == [name |-> name, both |-> LogicalKeys[j + 1], left |-> left, right |-> right]
           next == Append(keys, key)
<1>1. keys \in Seq(Key(j)) /\ Len(keys) = j /\ DOMAIN keys = 1..j
  BY DEF Definitions
<1>2. \A i \in 1..j : keys[i].both = LogicalKeys[i] /\ {keys[i].left, keys[i].right} \subseteq KeysWith(i - 1)
  BY DEF Definitions
<1>3. KeysWith(j) \subseteq KeysWith(j + 1) /\ Key(j) \subseteq Key(j + 1)
  <2>1. KeysWith(j) \subseteq KeysWith(j + 1)
    BY KeysGrow
  <2> QED BY <2>1
<1>4. key \in Key(j + 1)
  <2>1. j + 1 \in DOMAIN LogicalKeys
    BY LogicalKeysAreEnough
  <2>2. LogicalKeys[j + 1] \in ToSet(LogicalKeys)
    BY <2>1 DEF ToSet
  <2> QED BY <1>3, <2>2
<1>5. /\ key.both = LogicalKeys[j + 1] /\ key.left \in KeysWith(j) /\ key.right \in KeysWith(j)
  OBVIOUS
<1> HIDE DEF key, Key
<1>6. next \in Seq(Key(j + 1)) /\ Len(next) = j + 1
  <2>1. keys \in Seq(Key(j + 1))
    BY <1>1, <1>3, SequencesGrow
  <2> QED BY <1>1, <1>4, <2>1
<1>7. \A i \in 1..(j + 1) : next[i] = IF i = j + 1 THEN key ELSE keys[i]
  BY <1>1
<1>a. Last(next) = key /\ Registered(keys, name, left, right) = next
  <2>1. Last(next) = key
    BY <1>1, <1>6, <1>7 DEF Last
  <2> QED BY <1>1, <2>1 DEF Registered, key
<1> HIDE DEF next
<1>8. \A i \in 1..(j + 1) : /\ next[i].both = LogicalKeys[i]
                            /\ {next[i].left, next[i].right} \subseteq KeysWith(i - 1)
  <2> SUFFICES ASSUME NEW i \in 1..(j + 1)
               PROVE  next[i].both = LogicalKeys[i] /\ {next[i].left, next[i].right} \subseteq KeysWith(i - 1)
    OBVIOUS
  <2>1. CASE i = j + 1
    <3>1. next[i] = key
      BY <1>7, <2>1
    <3>2. i - 1 = j
      BY <2>1
    <3> QED BY <1>5, <2>1, <3>1, <3>2
  <2>2. CASE i # j + 1
    <3>1. next[i] = keys[i] /\ i \in 1..j
      BY <1>7, <2>2
    <3> QED BY <1>2, <3>1
  <2> QED BY <2>1, <2>2
<1>9. Last(next).both \in KeysWith(j + 1)
  BY <1>5, <1>a DEF KeysWith
<1>10. next \in Definitions(j + 1)
  BY <1>6, <1>8 DEF Definitions, Key
<1> QED BY <1>9, <1>10, <1>a

\* The keys after some steps of a definition, and what the next one has on its left.
Registering(n) == [keys : Definitions(n), left : KeysWith(n)]

LEMMA RegisterNextIs ==
  ASSUME logical \in Definitions(Len(logical)), NEW j \in Nat, Len(logical) <= j, j < Len(LogicalKeys),
         NEW acc \in Registering(j), NEW name, IsKey(name)
  PROVE  RegisterNext(acc, name) \in Registering(j + 1)
<1>1. Len(logical) \in Nat
  BY DEF Definitions
<1>2. KeyByName(name) \in KeysWith(j)
  BY <1>1, NamedKeyIs, KeysGrow
<1>3. acc.keys \in Definitions(j) /\ acc.left \in KeysWith(j)
  BY DEF Registering
<1> DEFINE next == Registered(acc.keys, "$", acc.left, KeyByName(name))
<1>4. next \in Definitions(j + 1) /\ Last(next).both \in KeysWith(j + 1)
  <2>1. "$" \in Names
    BY DEF Names
  <2> QED BY <1>2, <1>3, <2>1, RegisteredIs
<1>5. RegisterNext(acc, name) = [keys |-> next, left |-> Last(next).both]
  BY DEF RegisterNext
<1> HIDE DEF next
<1> QED BY <1>4, <1>5 DEF Registering

\* The steps of RegisteredAll, between the first and the last key.
LEMMA RegisterSteps ==
  ASSUME logical \in Definitions(Len(logical)), NEW names \in Seq(STRING), NEW base \in Registering(Len(logical)),
         \A i \in 1..Len(names) : IsKey(names[i]), Len(logical) + Len(names) <= Len(LogicalKeys)
  PROVE  \E a : /\ a[0] = base /\ FoldLeft(RegisterNext, base, names) = a[Len(names)]
                /\ \A k \in 1..Len(names) : a[k] = RegisterNext(a[k - 1], names[k])
<1> DEFINE m == Len(names)
           L == Len(logical)
           T == [k \in 0..m |-> UNION {Registering(j) : j \in L..(L + k)}]
           G == [k \in 1..m |-> [x \in T[k - 1] |-> RegisterNext(x, names[k])]]
           Is(f) == f = [s \in SUBSET (1..m) |->
                           IF s = {} THEN base ELSE RegisterNext(f[s \ {Max(s)}], names[Max(s)])]
           f == CHOOSE f : Is(f)
           a == [k \in 0..m |-> f[1..k]]
<1>1. m \in Nat /\ DOMAIN names = 1..m /\ L \in Nat /\ Len(LogicalKeys) \in Nat
  BY LogicalKeysAreEnough DEF Definitions
<1>2. /\ base \in T[0]
      /\ \A i \in 1..m : T[i - 1] \subseteq T[i]
      /\ \A i \in 1..m : \A x \in T[i - 1] : RegisterNext(x, names[i]) \in T[i]
  <2>1. \A k \in 0..m : T[k] = UNION {Registering(j) : j \in L..(L + k)}
    OBVIOUS
  <2>2. base \in T[0]
    <3>1. 0 \in 0..m /\ L \in L..(L + 0)
      BY <1>1
    <3> QED BY <2>1, <3>1
  <2>3. ASSUME NEW i \in 1..m PROVE T[i - 1] \subseteq T[i]
    <3>1. i \in 0..m /\ i - 1 \in 0..m /\ L..(L + (i - 1)) \subseteq L..(L + i)
      BY <1>1
    <3> QED BY <2>1, <3>1
  <2>4. ASSUME NEW i \in 1..m, NEW x \in T[i - 1] PROVE RegisterNext(x, names[i]) \in T[i]
    <3>1. i \in 0..m /\ i - 1 \in 0..m
      BY <1>1
    <3>2. PICK j \in L..(L + (i - 1)) : x \in Registering(j)
      BY <2>1, <2>4, <3>1
    <3>3. j \in Nat /\ L <= j /\ j < Len(LogicalKeys) /\ j + 1 \in L..(L + i)
      BY <1>1
    <3>4. RegisterNext(x, names[i]) \in Registering(j + 1)
      BY <3>2, <3>3, RegisterNextIs
    <3> QED BY <2>1, <3>1, <3>3, <3>4
  <2> HIDE DEF T
  <2> QED BY <2>2, <2>3, <2>4
<1>3. \E g : Is(g)
  <2>1. \A i \in 1..m : \A x \in T[i - 1] : G[i][x] = RegisterNext(x, names[i])
    OBVIOUS
  <2> HIDE DEF T, G
  <2>2. \A i \in 1..m : \A x \in T[i - 1] : G[i][x] \in T[i]
    BY <1>2, <2>1
  <2>3. PICK g : IsFold(g, m, base, T, G)
    BY <1>1, <1>2, <2>2, FoldExists
  <2>4. \A s \in SUBSET (1..m) : s # {} => Max(s) \in 1..m
    BY <1>1, LastOfPositions
  <2>5. ASSUME NEW s \in SUBSET (1..m), s # {}
        PROVE  G[Max(s)][g[s \ {Max(s)}]] = RegisterNext(g[s \ {Max(s)}], names[Max(s)])
    <3>1. Max(s) \in 1..m /\ g[s \ {Max(s)}] \in T[Max(s) - 1]
      BY <2>3, <2>4, <2>5 DEF IsFold
    <3> QED BY <2>1, <3>1
  <2>6. Is(g)
    BY <2>3, <2>5 DEF IsFold
  <2> QED BY <2>6
<1>4. Is(f)
  BY <1>3
<1>5. FoldLeft(RegisterNext, base, names) = f[1..m]
  BY <1>1 DEF FoldLeft, MapThenFoldSet
<1> HIDE DEF f
<1>6. a[0] = base
  <2>1. 1..0 \in SUBSET (1..m) /\ 1..0 = {} /\ 0 \in 0..m
    BY <1>1
  <2> QED BY <1>4, <2>1
<1>7. ASSUME NEW k \in 1..m PROVE a[k] = RegisterNext(a[k - 1], names[k])
  <2>1. k \in Nat /\ k # 0 /\ k \in 0..m /\ k - 1 \in 0..m /\ 1..k \in SUBSET (1..m)
    BY <1>1
  <2>2. Max(1..k) = k /\ (1..k) \ {Max(1..k)} = 1..(k - 1) /\ 1..k # {}
    BY <2>1, Segments
  <2>3. f[1..k] = RegisterNext(f[1..(k - 1)], names[k])
    BY <1>4, <2>1, <2>2
  <2> QED BY <2>1, <2>3
<1>8. a[m] = f[1..m]
  BY <1>1
<1> HIDE DEF a
<1> QED BY <1>5, <1>6, <1>7, <1>8

LEMMA RegisteredAllIs ==
  ASSUME logical \in Definitions(Len(logical)), NEW name \in STRING, NEW names \in Seq(STRING), Len(names) > 1,
         \A i \in DOMAIN names : IsKey(names[i]), Len(logical) + Len(names) - 1 <= Len(LogicalKeys)
  PROVE  RegisteredAll(logical, name, names) \in Definitions(Len(logical) + Len(names) - 1)
<1> DEFINE L == Len(logical)
           n == Len(names)
           between == SubSeq(names, 2, Len(names) - 1)
           base == [keys |-> logical, left |-> KeyByName(names[1])]
           T == [k \in 0..(n - 2) |-> Registering(L + k)]
<1>1. L \in Nat /\ n \in Nat /\ n > 1 /\ DOMAIN names = 1..n /\ Len(LogicalKeys) \in Nat
  BY LogicalKeysAreEnough DEF Definitions
<1>2. /\ between \in Seq(STRING) /\ Len(between) = n - 2
      /\ \A i \in 1..(n - 2) : between[i] = names[i + 1]
  BY <1>1
<1>3. \A i \in 1..(n - 2) : IsKey(between[i])
  <2>1. \A i \in 1..(n - 2) : i + 1 \in 1..n
    BY <1>1
  <2> QED BY <1>1, <1>2, <2>1
<1> HIDE DEF between
<1>4. base \in Registering(L)
  <2>1. 1 \in DOMAIN names
    BY <1>1
  <2>2. KeyByName(names[1]) \in KeysWith(L)
    BY <2>1, NamedKeyIs
  <2> QED BY <2>2 DEF Registering
<1> HIDE DEF base
<1>5. PICK a : /\ a[0] = base /\ FoldLeft(RegisterNext, base, between) = a[n - 2]
               /\ \A k \in 1..(n - 2) : a[k] = RegisterNext(a[k - 1], between[k])
  <2>1. \A i \in 1..Len(between) : IsKey(between[i])
    BY <1>2, <1>3
  <2>2. Len(logical) + Len(between) <= Len(LogicalKeys)
    BY <1>1, <1>2
  <2>3. PICK a : /\ a[0] = base /\ FoldLeft(RegisterNext, base, between) = a[Len(between)]
                 /\ \A k \in 1..Len(between) : a[k] = RegisterNext(a[k - 1], between[k])
    BY <1>2, <1>4, <2>1, <2>2, RegisterSteps
  <2> QED BY <1>2, <2>3
<1>6. n - 2 \in Nat /\ n - 2 \in 0..(n - 2) /\ \A k \in 0..(n - 2) : T[k] = Registering(L + k)
  BY <1>1
<1> HIDE DEF T
<1>7. a[0] \in T[0]
  <2>1. 0 \in 0..(n - 2) /\ L + 0 = L
    BY <1>1
  <2> QED BY <1>4, <1>5, <1>6, <2>1
<1>8. ASSUME NEW k \in 1..(n - 2), a[k - 1] \in T[k - 1] PROVE a[k] \in T[k]
  <2>1. /\ k \in 0..(n - 2) /\ k - 1 \in 0..(n - 2) /\ L + (k - 1) \in Nat /\ L <= L + (k - 1)
        /\ L + (k - 1) < Len(LogicalKeys) /\ L + (k - 1) + 1 = L + k
    BY <1>1
  <2>2. a[k - 1] \in Registering(L + (k - 1)) /\ a[k] = RegisterNext(a[k - 1], between[k])
    BY <1>5, <1>6, <1>8, <2>1
  <2>3. RegisterNext(a[k - 1], between[k]) \in Registering(L + (k - 1) + 1)
    BY <1>3, <2>1, <2>2, RegisterNextIs
  <2> QED BY <1>6, <2>1, <2>2, <2>3
<1>9. a[n - 2] \in Registering(L + (n - 2))
  <2>1. \A k \in 0..(n - 2) : a[k] \in T[k]
    BY <1>6, <1>7, <1>8, ChainStays
  <2> QED BY <1>6, <2>1
<1> DEFINE inner == FoldLeft(RegisterNext, base, between)
<1>10. inner \in Registering(L + (n - 2))
  BY <1>5, <1>9
<1> HIDE DEF inner
<1>11. inner.keys \in Definitions(L + (n - 2)) /\ inner.left \in KeysWith(L + (n - 2))
  BY <1>10 DEF Registering
<1>12. KeyByName(Last(names)) \in KeysWith(L + (n - 2))
  <2>1. n \in DOMAIN names /\ Last(names) = names[n]
    BY <1>1 DEF Last
  <2>2. KeysWith(L) \subseteq KeysWith(L + (n - 2))
    BY <1>1, KeysGrow
  <2> QED BY <2>1, <2>2, NamedKeyIs
<1>b. name \in Names
  BY DEF Names
<1>13. /\ L + (n - 2) \in Nat /\ L + (n - 2) < Len(LogicalKeys) /\ L + (n - 2) + 1 = L + n - 1
  BY <1>1
<1>14. Registered(inner.keys, name, inner.left, KeyByName(Last(names))) \in Definitions(L + n - 1)
  BY <1>11, <1>12, <1>13, <1>b, RegisteredIs
<1> QED BY <1>14 DEF RegisteredAll, inner, base, between

-----------------------------------------------------------------------------
(* Contexts that are made while lines are read *)

LEMMA EventIs ==
  ASSUME NEW n, NEW key \in KeysWith(n)
  PROVE  /\ Press(key) \in Events(n) /\ Async(key) \in Events(n) /\ NotKey(key) \in Events(n)
         /\ Event(key, "OutputOnRelease") \in Events(n) /\ Event(key, "NoMightMatch") \in Events(n)
<1>1. 0 \in 0..MaxTimeout
  BY DEF MaxTimeout
<1>2. {"Down", "UpAsync", "Not", "OutputOnRelease", "NoMightMatch"} \subseteq KeyStates
  BY DEF KeyStates
<1> QED BY <1>1, <1>2 DEF Press, Async, NotKey, Event, Events

LEMMA NewContextIs ==
  ASSUME NEW n, NEW known, NEW filter \in Names, NEW system \in BOOLEAN,
         NEW modifier \in SequencesWith(n), NEW invert \in BOOLEAN
  PROVE  /\ [NewContext EXCEPT !.filter = filter, !.system = system, !.modifier = modifier,
                               !.invert = invert] \in WholeContexts(n, known)
         /\ [NewContext EXCEPT !.beginStage = TRUE] \in WholeContexts(n, known)
         /\ NewContext \in WholeContexts(n, known)
<1>1. << >> \in InputsWith(n) /\ << >> \in OutputsWith(n) /\ << >> \in CommandsWith(n) /\ << >> \in SequencesWith(n)
  BY DEF InputsWith, OutputsWith, CommandsWith, SequencesWith
<1>2. "" \in Names
  BY DEF Names
<1> DEFINE a == [NewContext EXCEPT !.filter = filter, !.system = system, !.modifier = modifier,
                                   !.invert = invert]
           b == [NewContext EXCEPT !.beginStage = TRUE]
<1>3. a \in ContextsWith(n) /\ b \in ContextsWith(n) /\ NewContext \in ContextsWith(n)
  BY <1>1, <1>2 DEF NewContext, ContextsWith
<1>4. \A c \in {a, b, NewContext} : c.inputs = << >> /\ (c.beginStage => c.modifier = << >>)
  <2>1. a.inputs = << >> /\ ~a.beginStage
    BY DEF NewContext
  <2>2. b.inputs = << >> /\ b.modifier = << >>
    BY DEF NewContext
  <2>3. NewContext.inputs = << >> /\ NewContext.modifier = << >>
    BY DEF NewContext
  <2> HIDE DEF a, b
  <2> QED BY <2>1, <2>2, <2>3
<1> HIDE DEF a, b
<1>5. \A c \in {a, b, NewContext} :
        /\ \A i \in 1..Len(c.inputs) : IsThere(c, c.inputs[i].output, known)
        /\ c.beginStage => c.modifier = << >>
  <2>1. Len(<< >>) = 0
    OBVIOUS
  <2> QED BY <1>4, <2>1
<1> QED BY <1>3, <1>5 DEF WholeContexts, a, b

\* An output stays there when outputs are added.
LEMMA IsThereStill ==
  ASSUME NEW index \in Int, NEW c, NEW d, NEW known, Len(c.outputs) \in Nat, Len(d.outputs) \in Nat,
         Len(d.outputs) >= Len(c.outputs), IsThere(c, index, known)
  PROVE  IsThere(d, index, known)
BY DEF IsThere

\* An input more, with an output that is there.
LEMMA WithInputIs ==
  ASSUME NEW n, NEW known, NEW c \in WholeContexts(n, known), NEW d \in ContextsWith(n),
         NEW in \in Inputs(n), d.inputs = Append(c.inputs, in),
         Len(d.outputs) >= Len(c.outputs), IsThere(d, in.output, known),
         d.beginStage = c.beginStage, d.modifier = c.modifier
  PROVE  d \in WholeContexts(n, known)
<1>1. /\ c \in ContextsWith(n) /\ (c.beginStage => c.modifier = << >>)
      /\ \A i \in 1..Len(c.inputs) : IsThere(c, c.inputs[i].output, known)
  BY DEF WholeContexts
<1>2. c.inputs \in Seq(Inputs(n)) /\ Len(c.outputs) \in Nat /\ Len(d.outputs) \in Nat
  BY <1>1 DEF ContextsWith, InputsWith, OutputsWith, Inputs
<1>3. ASSUME NEW i \in 1..Len(d.inputs) PROVE IsThere(d, d.inputs[i].output, known)
  <2>1. CASE i = Len(c.inputs) + 1
    <3>1. d.inputs[i] = in
      BY <1>2, <2>1
    <3> QED BY <3>1
  <2>2. CASE i # Len(c.inputs) + 1
    <3>1. i \in 1..Len(c.inputs) /\ d.inputs[i] = c.inputs[i]
      BY <1>2, <2>2
    <3>2. IsThere(c, d.inputs[i].output, known)
      BY <1>1, <3>1
    <3>3. d.inputs[i].output \in Int
      <4>1. c.inputs[i] \in Inputs(n)
        BY <1>2, <3>1
      <4> QED BY <3>1, <4>1 DEF Inputs
    <3> QED BY <1>2, <3>2, <3>3, IsThereStill
  <2> QED BY <2>1, <2>2
<1> QED BY <1>1, <1>3 DEF WholeContexts

LEMMA WithMappingIs ==
  ASSUME NEW n, NEW known, NEW c \in WholeContexts(n, known),
         NEW input \in SequencesWith(n), NEW output \in SequencesWith(n)
  PROVE  /\ WithMapping(c, input, output) \in WholeContexts(n, known)
         /\ WithMapping(c, input, output).fallthrough = c.fallthrough
         /\ WithMapping(c, input, output).beginStage = c.beginStage
<1> DEFINE in == [input |-> input, output |-> Len(c.outputs)]
           d == WithMapping(c, input, output)
<1>1. c \in ContextsWith(n)
  BY DEF WholeContexts
<1>2. c.inputs \in Seq(Inputs(n)) /\ c.outputs \in Seq(SequencesWith(n))
  BY <1>1 DEF ContextsWith, InputsWith, OutputsWith, Inputs
<1>3. in \in Inputs(n) /\ Len(c.outputs) \in Nat
  BY <1>2 DEF Inputs
<1>4. /\ Append(c.inputs, in) \in InputsWith(n) /\ Append(c.outputs, output) \in OutputsWith(n)
      /\ Len(Append(c.outputs, output)) = Len(c.outputs) + 1
  BY <1>2, <1>3 DEF InputsWith, OutputsWith, Inputs
<1>5. d = [c EXCEPT !.inputs = Append(c.inputs, in), !.outputs = Append(c.outputs, output)]
  BY DEF WithMapping
<1> HIDE DEF d
<1>6. /\ d \in ContextsWith(n) /\ d.inputs = Append(c.inputs, in) /\ d.outputs = Append(c.outputs, output)
      /\ d.beginStage = c.beginStage /\ d.modifier = c.modifier /\ d.fallthrough = c.fallthrough
  BY <1>1, <1>4, <1>5 DEF ContextsWith
<1>7. IsThere(d, in.output, known)
  BY <1>3, <1>4, <1>6 DEF IsThere
<1>8. Len(d.outputs) >= Len(c.outputs)
  BY <1>3, <1>4, <1>6
<1> HIDE DEF in
<1>9. d \in WholeContexts(n, known)
  BY <1>3, <1>6, <1>7, <1>8, WithInputIs
<1> QED BY <1>6, <1>9 DEF d

\* The current context, the last one, becomes another one.
LEMMA LastBecomes ==
  ASSUME NEW n, NEW known, NEW cs \in Seq(WholeContexts(n, known)), Len(cs) > 0, FallOn(cs),
         NEW c \in WholeContexts(n, known),
         c.fallthrough = Last(cs).fallthrough, c.beginStage = Last(cs).beginStage
  PROVE  /\ [cs EXCEPT ![Len(cs)] = c] \in Seq(WholeContexts(n, known))
         /\ FallOn([cs EXCEPT ![Len(cs)] = c]) /\ Len([cs EXCEPT ![Len(cs)] = c]) = Len(cs)
<1> DEFINE W == WholeContexts(n, known)
           ds == [cs EXCEPT ![Len(cs)] = c]
<1> HIDE DEF W
<1>1. cs \in Seq(W) /\ c \in W
  BY DEF W
<1>2. ds \in Seq(W) /\ Len(ds) = Len(cs) /\ Len(cs) \in Nat
  BY <1>1
<1>3. \A i \in 1..Len(cs) : ds[i] = IF i = Len(cs) THEN c ELSE cs[i]
  BY <1>1
<1>4. \A i \in 1..Len(cs) : ds[i].fallthrough = cs[i].fallthrough /\ ds[i].beginStage = cs[i].beginStage
  BY <1>3 DEF Last
<1> HIDE DEF ds
<1>5. FallOn(ds)
  <2> SUFFICES ASSUME NEW i \in 1..Len(ds), ds[i].fallthrough
               PROVE  i < Len(ds) /\ ~ds[i + 1].beginStage
    BY DEF FallOn
  <2>1. i < Len(cs) /\ ~cs[i + 1].beginStage
    BY <1>2, <1>4 DEF FallOn
  <2>2. i + 1 \in 1..Len(cs)
    BY <1>2, <2>1
  <2> QED BY <1>2, <1>4, <2>1, <2>2
<1> QED BY <1>2, <1>5 DEF W, ds

\* A context more, to which the last one may fall through.
LEMMA BeginIs ==
  ASSUME NEW n, NEW known, NEW cs \in Seq(WholeContexts(n, known)), Len(cs) > 0, FallOn(cs),
         NEW c \in WholeContexts(n, known), ~c.fallthrough, NEW falls \in BOOLEAN, falls => ~c.beginStage,
         NEW ds, ds = Append(IF falls THEN [cs EXCEPT ![Len(cs)].fallthrough = TRUE] ELSE cs, c)
  PROVE  ds \in Seq(WholeContexts(n, known)) /\ FallOn(ds) /\ Len(ds) > 0
<1> DEFINE W == WholeContexts(n, known)
           last == cs[Len(cs)]
           before == IF falls THEN [cs EXCEPT ![Len(cs)].fallthrough = TRUE] ELSE cs
<1>1. \A d \in W : /\ [d EXCEPT !.fallthrough = TRUE] \in W
                   /\ [d EXCEPT !.fallthrough = TRUE].fallthrough
                   /\ [d EXCEPT !.fallthrough = TRUE].beginStage = d.beginStage
  <2> SUFFICES ASSUME NEW d \in W
               PROVE  /\ [d EXCEPT !.fallthrough = TRUE] \in W
                      /\ [d EXCEPT !.fallthrough = TRUE].fallthrough
                      /\ [d EXCEPT !.fallthrough = TRUE].beginStage = d.beginStage
    OBVIOUS
  <2> DEFINE e == [d EXCEPT !.fallthrough = TRUE]
  <2>1. /\ d \in ContextsWith(n) /\ (d.beginStage => d.modifier = << >>)
        /\ \A i \in 1..Len(d.inputs) : IsThere(d, d.inputs[i].output, known)
    BY DEF WholeContexts
  <2>2. /\ e \in ContextsWith(n) /\ e.fallthrough /\ e.beginStage = d.beginStage /\ e.modifier = d.modifier
        /\ e.inputs = d.inputs /\ e.outputs = d.outputs
    BY <2>1 DEF ContextsWith
  <2> HIDE DEF e
  <2>3. \A i \in 1..Len(e.inputs) : IsThere(e, e.inputs[i].output, known)
    BY <2>1, <2>2 DEF IsThere
  <2>4. e \in W
    BY <2>1, <2>2, <2>3 DEF WholeContexts
  <2> QED BY <2>2, <2>4 DEF e
<1> HIDE DEF W
<1>2. cs \in Seq(W) /\ c \in W /\ last \in W /\ Len(cs) \in Nat
  BY DEF W
<1>3. /\ before \in Seq(W) /\ Len(before) = Len(cs)
      /\ \A i \in 1..Len(cs) :
           before[i] = IF falls /\ i = Len(cs) THEN [last EXCEPT !.fallthrough = TRUE] ELSE cs[i]
  BY <1>1, <1>2
<1>4. \A i \in 1..Len(cs) : before[i].beginStage = cs[i].beginStage
  BY <1>1, <1>2, <1>3
<1>5. \A i \in 1..Len(cs) : i # Len(cs) => before[i].fallthrough = cs[i].fallthrough
  BY <1>3
<1>6. falls \/ ~before[Len(cs)].fallthrough
  <2>1. Len(cs) \in 1..Len(cs) /\ ~(Len(cs) < Len(cs))
    BY <1>2
  <2>2. ~cs[Len(cs)].fallthrough
    BY <2>1 DEF FallOn
  <2> QED BY <1>3, <2>1, <2>2
<1> HIDE DEF before
<1>7. /\ ds \in Seq(W) /\ Len(ds) = Len(cs) + 1
      /\ \A i \in 1..(Len(cs) + 1) : ds[i] = IF i = Len(cs) + 1 THEN c ELSE before[i]
  BY <1>2, <1>3 DEF before
<1>8. FallOn(ds)
  <2> SUFFICES ASSUME NEW i \in 1..Len(ds), ds[i].fallthrough
               PROVE  i < Len(ds) /\ ~ds[i + 1].beginStage
    BY DEF FallOn
  <2>1. i # Len(cs) + 1
    BY <1>7
  <2>a. i \in 1..Len(cs) /\ i + 1 \in 1..(Len(cs) + 1) /\ i < Len(ds) /\ i \in 1..(Len(cs) + 1)
    <3>1. Len(ds) = Len(cs) + 1
      BY <1>7
    <3> QED BY <1>2, <2>1, <3>1
  <2>2. i \in 1..Len(cs) /\ ds[i] = before[i] /\ i + 1 \in 1..(Len(cs) + 1) /\ i < Len(ds)
    <3>1. ds[i] = before[i]
      BY <1>7, <2>1, <2>a
    <3> QED BY <2>a, <3>1
  <2>3. CASE i = Len(cs)
    <3>1. ds[i + 1] = c
      BY <1>7, <2>2, <2>3
    <3> QED BY <1>6, <2>2, <2>3, <3>1
  <2>4. CASE i # Len(cs)
    <3>1. i + 1 \in 1..Len(cs) /\ i + 1 # Len(cs) + 1
      BY <1>2, <2>2, <2>4
    <3>2. cs[i].fallthrough
      BY <1>5, <2>2, <2>4
    <3>3. ~cs[i + 1].beginStage
      BY <2>2, <3>2 DEF FallOn
    <3>4. ds[i + 1] = before[i + 1]
      BY <1>7, <2>2, <3>1
    <3> QED BY <1>4, <2>2, <3>1, <3>3, <3>4
  <2> QED BY <2>3, <2>4
<1> QED BY <1>2, <1>7, <1>8 DEF W

-----------------------------------------------------------------------------
(* Reading lines keeps the invariant *)

\* What every line that is read leaves to show.
LEMMA AfterLine ==
  ASSUME Inv, status = "reading", vocabulary' = vocabulary, lines' \in Seq(vocabulary.lines),
         status' \in {"reading", "forward", "error"},
         commands' \in CommandsType,
         Len(logical)' <= Len(LogicalKeys), logical' \in Definitions(Len(logical')),
         forwardModifiers' \in Seq(KeysWith(Len(logical'))),
         systemMatched' \in BOOLEAN, afterEmptyBlock' \in BOOLEAN, allowUnmapped' \in BOOLEAN,
         Len(contexts') > 0, contexts' \in Seq(WholeContexts(Len(logical'), DOMAIN commands')),
         FallOn(contexts')
  PROVE  Inv'
<1>1. Remaining' = Len(logical') /\ Len(logical') \in Nat
  BY DEF Remaining, Definitions
<1>2. Types'
  BY <1>1 DEF Inv, Types
<1> QED BY <1>1, <1>2 DEF Inv

\* What is known when a line is read.
LEMMA BeforeLine ==
  ASSUME Inv, status = "reading"
  PROVE  /\ Remaining = Len(logical) /\ Len(logical) \in Nat
         /\ contexts \in Seq(WholeContexts(Len(logical), DOMAIN commands))
         /\ Len(contexts) > 0 /\ FallOn(contexts) /\ Types
         /\ Last(contexts) \in WholeContexts(Len(logical), DOMAIN commands)
<1>1. Remaining = Len(logical)
  BY DEF Remaining
<1>2. /\ contexts \in Seq(WholeContexts(Len(logical), DOMAIN commands))
      /\ Len(contexts) > 0 /\ FallOn(contexts) /\ Types /\ Len(logical) \in Nat
  BY <1>1 DEF Inv, Types, Definitions
<1>3. Last(contexts) \in WholeContexts(Len(logical), DOMAIN commands)
  BY <1>2 DEF Last
<1> QED BY <1>1, <1>2, <1>3

LEMMA ReadsIs ==
  ASSUME Inv, NEW line \in vocabulary.lines, Reads(line)
  PROVE  /\ status = "reading" /\ vocabulary' = vocabulary /\ lines' \in Seq(vocabulary.lines)
         /\ line \in LineType
<1>1. status = "reading" /\ vocabulary' = vocabulary /\ lines' = Append(lines, line)
  BY DEF Reads
<1>2. lines \in Seq(vocabulary.lines) /\ vocabulary \in Vocabularies
  BY DEF Inv, Types
<1>3. vocabulary.lines \subseteq LineType
  BY <1>2, VocabulariesAreLines
<1> QED BY <1>1, <1>2, <1>3

\* A line that changes nothing but the status and settings.
LEMMA NothingChanges ==
  ASSUME Inv, status = "reading", vocabulary' = vocabulary, lines' \in Seq(vocabulary.lines),
         status' \in {"reading", "forward", "error"}, UNCHANGED <<contexts, commands, logical>>,
         systemMatched' = systemMatched, afterEmptyBlock' = afterEmptyBlock,
         allowUnmapped' \in BOOLEAN, forwardModifiers' \in Seq(KeysWith(Len(logical)))
  PROVE  Inv'
<1>1. /\ contexts \in Seq(WholeContexts(Len(logical), DOMAIN commands))
      /\ Len(contexts) > 0 /\ FallOn(contexts) /\ Types
  BY BeforeLine
<1>2. /\ commands' \in CommandsType /\ Len(logical)' <= Len(LogicalKeys)
      /\ logical' \in Definitions(Len(logical')) /\ forwardModifiers' \in Seq(KeysWith(Len(logical')))
      /\ systemMatched' \in BOOLEAN /\ afterEmptyBlock' \in BOOLEAN
  BY <1>1 DEF Types
<1>3. contexts' \in Seq(WholeContexts(Len(logical'), DOMAIN commands')) /\ Len(contexts') > 0 /\ FallOn(contexts')
  BY <1>1
<1> QED BY <1>2, <1>3, AfterLine

LEMMA FailsStep ==
  ASSUME Inv, NEW line \in vocabulary.lines, Reads(line), Fails
  PROVE  Inv'
<1>1. status = "reading" /\ vocabulary' = vocabulary /\ lines' \in Seq(vocabulary.lines)
  BY ReadsIs
<1>2. forwardModifiers \in Seq(KeysWith(Len(logical))) /\ allowUnmapped \in BOOLEAN
  BY DEF Inv, Types
<1>3. /\ status' = "error" /\ UNCHANGED <<contexts, commands, logical>>
      /\ systemMatched' = systemMatched /\ afterEmptyBlock' = afterEmptyBlock
      /\ allowUnmapped' = allowUnmapped /\ forwardModifiers' = forwardModifiers
  BY DEF Fails, setting_vars
<1> QED BY <1>1, <1>2, <1>3, NothingChanges

\* The current context becomes another one, with which commands may be added.
LEMMA IsInStep ==
  ASSUME Inv, NEW line \in vocabulary.lines, Reads(line), NEW context, IsIn(context),
         commands' \in CommandsType, DOMAIN commands \subseteq DOMAIN commands',
         context \in WholeContexts(Len(logical), DOMAIN commands'),
         context.fallthrough = Last(contexts).fallthrough, context.beginStage = Last(contexts).beginStage
  PROVE  Inv'
<1>1. status = "reading" /\ vocabulary' = vocabulary /\ lines' \in Seq(vocabulary.lines)
  BY ReadsIs
<1>2. /\ contexts' = [contexts EXCEPT ![Len(contexts)] = context] /\ afterEmptyBlock' = FALSE
      /\ status' = status /\ logical' = logical /\ systemMatched' = systemMatched
      /\ allowUnmapped' = allowUnmapped /\ forwardModifiers' = forwardModifiers
  BY DEF IsIn
<1>3. /\ contexts \in Seq(WholeContexts(Len(logical), DOMAIN commands))
      /\ Len(contexts) > 0 /\ FallOn(contexts) /\ Types /\ Len(logical) \in Nat
  BY <1>1, BeforeLine
<1>4. contexts \in Seq(WholeContexts(Len(logical), DOMAIN commands'))
  <2>1. WholeContexts(Len(logical), DOMAIN commands) \subseteq WholeContexts(Len(logical), DOMAIN commands')
    BY <1>3, WholeContextsGrow
  <2> QED BY <1>3, <2>1, SequencesGrow
<1>5. /\ contexts' \in Seq(WholeContexts(Len(logical), DOMAIN commands'))
      /\ Len(contexts') > 0 /\ FallOn(contexts')
  <2> DEFINE known == DOMAIN commands'
             n == Len(logical)
  <2>1. contexts \in Seq(WholeContexts(n, known)) /\ context \in WholeContexts(n, known)
    BY <1>4
  <2> HIDE DEF known, n
  <2>2. /\ [contexts EXCEPT ![Len(contexts)] = context] \in Seq(WholeContexts(n, known))
        /\ FallOn([contexts EXCEPT ![Len(contexts)] = context])
        /\ Len([contexts EXCEPT ![Len(contexts)] = context]) = Len(contexts)
    BY <1>3, <2>1, LastBecomes
  <2>3. contexts' \in Seq(WholeContexts(n, known)) /\ Len(contexts') > 0 /\ FallOn(contexts')
    BY <1>2, <1>3, <2>2
  <2> QED BY <2>3 DEF known, n
<1>6. /\ Len(logical)' <= Len(LogicalKeys)
      /\ logical' \in Definitions(Len(logical')) /\ forwardModifiers' \in Seq(KeysWith(Len(logical')))
      /\ systemMatched' \in BOOLEAN /\ afterEmptyBlock' \in BOOLEAN /\ allowUnmapped' \in BOOLEAN
  BY <1>2, <1>3 DEF Types
<1>7. status' \in {"reading", "forward", "error"} /\ Len(logical') = Len(logical)
  BY <1>1, <1>2
<1> QED BY <1>1, <1>5, <1>6, <1>7, AfterLine

\* A context is added, to which the last one may fall through.
LEMMA BeginStep ==
  ASSUME Inv, NEW line \in vocabulary.lines, Reads(line), NEW context, Begin(context),
         context \in WholeContexts(Len(logical), DOMAIN commands), ~context.fallthrough
  PROVE  Inv'
<1>1. status = "reading" /\ vocabulary' = vocabulary /\ lines' \in Seq(vocabulary.lines)
  BY ReadsIs
<1> DEFINE falls == FallsThrough(afterEmptyBlock, context)
<1>2. /\ contexts' = Append(IF falls THEN [contexts EXCEPT ![Len(contexts)].fallthrough = TRUE]
                            ELSE contexts, context)
      /\ afterEmptyBlock' = ~context.beginStage /\ systemMatched' = context.system
      /\ status' = status /\ logical' = logical /\ commands' = commands
      /\ allowUnmapped' = allowUnmapped /\ forwardModifiers' = forwardModifiers
  BY DEF Begin
<1>3. /\ contexts \in Seq(WholeContexts(Len(logical), DOMAIN commands))
      /\ Len(contexts) > 0 /\ FallOn(contexts) /\ Types /\ Len(logical) \in Nat
  BY <1>1, BeforeLine
<1>4. context.beginStage \in BOOLEAN /\ context.system \in BOOLEAN
  BY DEF WholeContexts, ContextsWith
<1>5. falls \in BOOLEAN /\ (falls => ~context.beginStage)
  BY <1>3, <1>4 DEF FallsThrough, Types
<1> HIDE DEF falls
<1>6. /\ contexts' \in Seq(WholeContexts(Len(logical), DOMAIN commands))
      /\ Len(contexts') > 0 /\ FallOn(contexts')
  BY <1>2, <1>3, <1>5, BeginIs
<1>7. /\ Len(logical)' <= Len(LogicalKeys) /\ commands' \in CommandsType
      /\ logical' \in Definitions(Len(logical')) /\ forwardModifiers' \in Seq(KeysWith(Len(logical')))
      /\ systemMatched' \in BOOLEAN /\ afterEmptyBlock' \in BOOLEAN /\ allowUnmapped' \in BOOLEAN
  BY <1>2, <1>3, <1>4 DEF Types
<1>8. /\ status' \in {"reading", "forward", "error"}
      /\ contexts' \in Seq(WholeContexts(Len(logical'), DOMAIN commands'))
  BY <1>1, <1>2, <1>6
<1> QED BY <1>1, <1>6, <1>7, <1>8, AfterLine

-----------------------------------------------------------------------------
(* Each line keeps the invariant. *)

\* What lines of a kind have.
LEMMA LinesAre ==
  ASSUME NEW line \in LineType
  PROVE  /\ line.kind = "mapping" => line.input \in Expressions /\ line.output \in Expressions
         /\ line.kind = "command" => line.input \in Expressions /\ line.name \in STRING
         /\ line.kind = "output" => line.name \in STRING /\ line.output \in Expressions
         /\ line.kind = "context" => /\ line.filter \in STRING /\ line.system \in BOOLEAN
                                     /\ line.modifier \in Expressions /\ line.invert \in BOOLEAN
         /\ line.kind = "logical" => line.name \in STRING /\ line.keys \in Seq(STRING) /\ Len(line.keys) > 1
         /\ line.kind = "toggle-active" => line.input \in Expressions
         /\ line.kind = "forward-modifiers" => line.keys \in Seq(STRING)
         /\ line.kind = "allow-unmapped-commands" => line.value \in BOOLEAN
<1> HIDE DEF Expressions
<1> DEFINE Keys == {keys \in Seq(STRING) : Len(keys) > 1}
           S == Seq(STRING)
<1>1. \A keys \in Keys : keys \in S /\ Len(keys) > 1
  OBVIOUS
<1> HIDE DEF Keys, S
<1>2. line \in [kind : {"empty", "stage", "done"}]
    \cup [kind : {"context"}, filter : STRING, system : BOOLEAN,
          modifier : Expressions, invert : BOOLEAN]
    \cup [kind : {"mapping"}, input : Expressions, output : Expressions]
    \cup [kind : {"command"}, input : Expressions, name : STRING]
    \cup [kind : {"output"}, name : STRING, output : Expressions]
    \cup [kind : {"logical"}, name : STRING, keys : Keys]
    \cup [kind : {"toggle-active"}, input : Expressions]
    \cup [kind : {"forward-modifiers"}, keys : S]
    \cup [kind : {"allow-unmapped-commands"}, value : BOOLEAN]
  BY DEF LineType, Keys, S
<1>3. /\ line.kind = "mapping" => line.input \in Expressions /\ line.output \in Expressions
      /\ line.kind = "command" => line.input \in Expressions /\ line.name \in STRING
      /\ line.kind = "output" => line.name \in STRING /\ line.output \in Expressions
  BY <1>2
<1>4. /\ line.kind = "context" => /\ line.filter \in STRING /\ line.system \in BOOLEAN
                                  /\ line.modifier \in Expressions /\ line.invert \in BOOLEAN
      /\ line.kind = "logical" => line.name \in STRING /\ line.keys \in Keys
      /\ line.kind = "toggle-active" => line.input \in Expressions
      /\ line.kind = "forward-modifiers" => line.keys \in S
      /\ line.kind = "allow-unmapped-commands" => line.value \in BOOLEAN
  BY <1>2
<1> QED BY <1>1, <1>3, <1>4 DEF S

LEMMA ReadEmptyLineStep == Inv /\ ReadEmptyLine => Inv'
<1> SUFFICES ASSUME Inv, ReadEmptyLine PROVE Inv'
  OBVIOUS
<1>1. PICK line \in LinesOf("empty") : Reads(line)
  BY DEF ReadEmptyLine
<1>2. line \in vocabulary.lines /\ status = "reading"
  BY <1>1 DEF LinesOf, Reads
<1>3. IsIn(CurrentContext) /\ commands' = commands
  BY DEF ReadEmptyLine
<1>4. /\ Last(contexts) \in WholeContexts(Len(logical), DOMAIN commands) /\ commands \in CommandsType
  BY <1>2, BeforeLine DEF Types
<1>5. CurrentContext = Last(contexts)
  BY DEF CurrentContext
<1> QED BY <1>1, <1>2, <1>3, <1>4, <1>5, IsInStep

LEMMA ReadMappingStep == Inv /\ ReadMapping => Inv'
<1> SUFFICES ASSUME Inv, ReadMapping PROVE Inv'
  OBVIOUS
<1>1. PICK line \in LinesOf("mapping") :
        /\ Reads(line)
        /\ IF AreKeys(line.input) /\ IsOutput(line.output)
           THEN /\ IsIn(WithMapping(CurrentContext, Parsed(line.input), Parsed(line.output)))
                /\ UNCHANGED commands
           ELSE Fails
  BY DEF ReadMapping
<1>2. line \in vocabulary.lines /\ line.kind = "mapping"
  BY DEF LinesOf
<1>3. status = "reading" /\ line \in LineType
  BY <1>1, <1>2, ReadsIs
<1>4. CASE ~(AreKeys(line.input) /\ IsOutput(line.output))
  BY <1>1, <1>2, <1>4, FailsStep
<1>5. CASE AreKeys(line.input) /\ IsOutput(line.output)
  <2>1. line.input \in Expressions /\ line.output \in Expressions /\ AreKeys(line.output)
    BY <1>2, <1>3, <1>5, LinesAre DEF IsOutput
  <2>2. Last(contexts) \in WholeContexts(Len(logical), DOMAIN commands) /\ Types
    BY <1>3, BeforeLine
  <2>3. /\ Parsed(line.input) \in SequencesWith(Len(logical))
        /\ Parsed(line.output) \in SequencesWith(Len(logical))
    BY <1>5, <2>1, <2>2, ParsedIs DEF Types
  <2> DEFINE context == WithMapping(Last(contexts), Parsed(line.input), Parsed(line.output))
  <2>4. /\ context \in WholeContexts(Len(logical), DOMAIN commands)
        /\ context.fallthrough = Last(contexts).fallthrough /\ context.beginStage = Last(contexts).beginStage
    BY <2>2, <2>3, WithMappingIs
  <2>5. IsIn(context) /\ commands' = commands
    BY <1>1, <1>5 DEF CurrentContext
  <2>6. commands' \in CommandsType /\ DOMAIN commands \subseteq DOMAIN commands'
    BY <2>2, <2>5 DEF Types
  <2>7. context \in WholeContexts(Len(logical), DOMAIN commands')
    BY <2>4, <2>5
  <2> HIDE DEF context
  <2> QED BY <1>1, <1>2, <2>4, <2>5, <2>6, <2>7, IsInStep
<1> QED BY <1>4, <1>5

\* The command of a name.
LEMMA CommandIs ==
  ASSUME commands \in CommandsType, NEW name
  PROVE  /\ Command(name) \in 0..Len(commands) /\ DOMAIN commands = 1..Len(commands)
         /\ Len(commands) \in Nat
         /\ Command(name) = 0 => \A i \in DOMAIN commands : commands[i].name # name
         /\ Command(name) > 0 => commands[Command(name)].name = name
<1> DEFINE positions == {i \in DOMAIN commands : commands[i].name = name}
           n == Len(commands)
<1>1. DOMAIN commands = 1..n /\ n \in Nat
  BY DEF CommandsType
<1>2. positions \in SUBSET (1..n)
  BY <1>1
<1>3. Command(name) = FirstOf(positions)
  BY DEF Command
<1>a. positions = {} => \A i \in DOMAIN commands : commands[i].name # name
  OBVIOUS
<1>b. \A i \in positions : commands[i].name = name /\ i > 0
  BY <1>1
<1> HIDE DEF positions
<1>4. /\ FirstOf(positions) \in 0..n
      /\ positions = {} => FirstOf(positions) = 0
      /\ positions # {} => FirstOf(positions) \in positions
  BY <1>1, <1>2, FirstOfIs
<1>5. positions # {} => FirstOf(positions) > 0 /\ commands[FirstOf(positions)].name = name
  BY <1>4, <1>b
<1> QED BY <1>1, <1>3, <1>4, <1>5, <1>a

LEMMA FirstPosition ==
  ASSUME NEW n \in Nat, NEW positions \in SUBSET (1..n), positions # {}
  PROVE  FirstOf(positions) \in 1..n /\ FirstOf(positions) > 0
BY FirstOfIs

LEMMA ReadCommandStep == Inv /\ ReadCommand => Inv'
<1> SUFFICES ASSUME Inv, ReadCommand PROVE Inv'
  OBVIOUS
<1>1. PICK line \in LinesOf("command") :
        /\ Reads(line)
        /\ IF AreKeys(line.input)
           THEN /\ commands' = IF Command(line.name) > 0 THEN commands
                               ELSE Append(commands, [name |-> line.name, mapped |-> FALSE])
                /\ IsIn([CurrentContext EXCEPT !.inputs =
                           Append(@, [input |-> Parsed(line.input), output |-> -Command(line.name)'])])
           ELSE Fails
  BY DEF ReadCommand
<1>2. line \in vocabulary.lines /\ line.kind = "command"
  BY DEF LinesOf
<1>3. status = "reading" /\ line \in LineType
  BY <1>1, <1>2, ReadsIs
<1>4. CASE ~AreKeys(line.input)
  BY <1>1, <1>2, <1>4, FailsStep
<1>5. CASE AreKeys(line.input)
  <2>1. line.input \in Expressions /\ line.name \in STRING
    BY <1>2, <1>3, LinesAre
  <2>2. Last(contexts) \in WholeContexts(Len(logical), DOMAIN commands) /\ Types /\ Len(logical) \in Nat
    BY <1>3, BeforeLine
  <2>3. Parsed(line.input) \in SequencesWith(Len(logical))
    BY <1>5, <2>1, <2>2, ParsedIs DEF Types
  <2> DEFINE command == [name |-> line.name, mapped |-> FALSE]
             C == [name : STRING, mapped : BOOLEAN]
  <2>4. commands \in Seq(C) /\ command \in C
    BY <2>1, <2>2 DEF Types, CommandsType
  <2>5. /\ Append(commands, command) \in Seq(C)
        /\ DOMAIN commands \subseteq DOMAIN Append(commands, command)
        /\ Len(commands) + 1 \in DOMAIN Append(commands, command)
        /\ Append(commands, command)[Len(commands) + 1] = command
    BY <2>4
  <2>6. /\ commands' \in CommandsType /\ DOMAIN commands \subseteq DOMAIN commands'
        /\ \E i \in DOMAIN commands' : commands'[i].name = line.name
    <3>1. CASE Command(line.name) > 0
      <4>1. Command(line.name) \in DOMAIN commands /\ commands[Command(line.name)].name = line.name
        BY <2>2, <3>1, CommandIs DEF Types
      <4> QED BY <1>1, <1>5, <2>2, <3>1, <4>1 DEF Types
    <3>2. CASE ~(Command(line.name) > 0)
      <4>1. commands' = Append(commands, command)
        BY <1>1, <1>5, <3>2
      <4> QED BY <2>5, <4>1 DEF CommandsType
    <3> QED BY <3>1, <3>2
  <2> HIDE DEF command, C
  <2>7. Command(line.name)' \in DOMAIN commands' /\ Command(line.name)' > 0
    <3> DEFINE positions == {i \in DOMAIN commands' : commands'[i].name = line.name}
    <3>1. Command(line.name)' = FirstOf(positions)
      BY DEF Command
    <3>2. DOMAIN commands' = 1..Len(commands') /\ Len(commands') \in Nat
      BY <2>6 DEF CommandsType
    <3>3. positions \in SUBSET (1..Len(commands')) /\ positions # {}
      BY <2>6, <3>2
    <3> HIDE DEF positions
    <3>4. FirstOf(positions) \in 1..Len(commands') /\ FirstOf(positions) > 0
      BY <3>2, <3>3, FirstPosition
    <3> QED BY <3>1, <3>2, <3>4 DEF Command
  <2> DEFINE index == -(Command(line.name)')
             in == [input |-> Parsed(line.input), output |-> index]
             c == Last(contexts)
             known == DOMAIN commands'
             d == [c EXCEPT !.inputs = Append(@, in)]
             n == Len(logical)
  <2>8. IsIn(d)
    BY <1>1, <1>5 DEF CurrentContext
  <2>9. Command(line.name)' \in Nat
    BY <2>6, <2>7 DEF CommandsType
  <2>10. in \in Inputs(n) /\ index < 0 /\ -index \in known
    BY <2>3, <2>7, <2>9 DEF Inputs
  <2>11. c \in WholeContexts(n, known)
    <3>1. WholeContexts(n, DOMAIN commands) \subseteq WholeContexts(n, known)
      BY <2>2, <2>6, WholeContextsGrow
    <3> QED BY <2>2, <3>1
  <2> HIDE DEF index, in, c, known, n
  <2>12. /\ d \in ContextsWith(n) /\ d.inputs = Append(c.inputs, in) /\ d.outputs = c.outputs
         /\ d.beginStage = c.beginStage /\ d.modifier = c.modifier /\ d.fallthrough = c.fallthrough
    <3>1. c \in ContextsWith(n)
      BY <2>11 DEF WholeContexts
    <3>2. c.inputs \in Seq(Inputs(n))
      BY <3>1 DEF ContextsWith, InputsWith, Inputs
    <3>3. Append(c.inputs, in) \in Seq(Inputs(n))
      BY <3>2, <2>10
    <3> DEFINE ins == Append(c.inputs, in)
    <3>4. ins \in InputsWith(n)
      BY <3>3 DEF InputsWith, Inputs
    <3> HIDE DEF ins
    <3>5. [c EXCEPT !.inputs = ins] \in ContextsWith(n)
      BY <3>1, <3>4 DEF ContextsWith
    <3>6. d = [c EXCEPT !.inputs = ins]
      BY <3>1 DEF ContextsWith, ins
    <3>7. /\ [c EXCEPT !.inputs = ins].inputs = ins /\ [c EXCEPT !.inputs = ins].outputs = c.outputs
          /\ [c EXCEPT !.inputs = ins].beginStage = c.beginStage
          /\ [c EXCEPT !.inputs = ins].modifier = c.modifier
          /\ [c EXCEPT !.inputs = ins].fallthrough = c.fallthrough
      BY <3>1 DEF ContextsWith
    <3> QED BY <3>5, <3>6, <3>7 DEF ins
  <2> HIDE DEF d
  <2>13. d \in WholeContexts(n, known)
    <3>1. in.output = index
      BY DEF in
    <3>2. IsThere(d, in.output, known)
      BY <2>10, <3>1 DEF IsThere
    <3>3. Len(c.outputs) \in Nat
      <4>1. c \in ContextsWith(n)
        BY <2>11 DEF WholeContexts
      <4> QED BY <4>1, ContextParts
    <3>4. Len(d.outputs) >= Len(c.outputs)
      BY <2>12, <3>3
    <3> QED BY <2>10, <2>11, <2>12, <3>2, <3>4, WithInputIs
  <2>14. /\ d \in WholeContexts(Len(logical), DOMAIN commands')
         /\ d.fallthrough = Last(contexts).fallthrough /\ d.beginStage = Last(contexts).beginStage
    BY <2>12, <2>13 DEF n, known, c
  <2> QED BY <1>1, <1>2, <2>6, <2>8, <2>14, IsInStep
<1> QED BY <1>4, <1>5

LEMMA ReadOutputStep == Inv /\ ReadOutput => Inv'
<1> SUFFICES ASSUME Inv, ReadOutput PROVE Inv'
  OBVIOUS
<1>1. PICK line \in LinesOf("output") :
        LET command == Command(line.name)
            outputs == CurrentContext.commandOutputs
        IN
        /\ Reads(line)
        /\ IF \/ command = 0 /\ ~allowUnmapped
              \/ ~IsOutput(line.output)
              \/ command > 0 /\ \E i \in DOMAIN outputs : outputs[i].index = -command
           THEN Fails
           ELSE IF command = 0
           THEN IsIn(CurrentContext) /\ UNCHANGED commands
           ELSE /\ commands' = [commands EXCEPT ![command].mapped = TRUE]
                /\ IsIn([CurrentContext EXCEPT !.commandOutputs =
                           Append(@, [index |-> -command, output |-> Parsed(line.output)])])
  BY DEF ReadOutput
<1> DEFINE command == Command(line.name)
           n == Len(logical)
           c == Last(contexts)
           output == [index |-> -command, output |-> Parsed(line.output)]
           d == [c EXCEPT !.commandOutputs = Append(@, output)]
<1>2. line \in vocabulary.lines /\ line.kind = "output" /\ Reads(line)
  BY <1>1 DEF LinesOf
<1>3. status = "reading" /\ line \in LineType
  BY <1>2, ReadsIs
<1>4. line.output \in Expressions /\ line.name \in STRING
  BY <1>2, <1>3, LinesAre
<1>5. c \in WholeContexts(n, DOMAIN commands) /\ Types /\ n \in Nat /\ commands \in CommandsType
  BY <1>3, BeforeLine DEF Types
<1>6. command \in 0..Len(commands) /\ DOMAIN commands = 1..Len(commands) /\ Len(commands) \in Nat
  BY <1>5, CommandIs
<1>7. \/ Fails
      \/ IsIn(c) /\ commands' = commands
      \/ /\ command # 0 /\ AreKeys(line.output) /\ IsIn(d)
         /\ commands' = [commands EXCEPT ![command].mapped = TRUE]
  BY <1>1, Zenon DEF IsOutput, CurrentContext
<1> HIDE DEF command
<1>8. CASE Fails
  BY <1>2, <1>8, FailsStep
<1>9. CASE IsIn(c) /\ commands' = commands
  BY <1>2, <1>5, <1>9, IsInStep
<1>10. CASE /\ command # 0 /\ AreKeys(line.output) /\ IsIn(d)
            /\ commands' = [commands EXCEPT ![command].mapped = TRUE]
  <2>1. command \in DOMAIN commands /\ -command \in CommandIndices
    BY <1>6, <1>10 DEF CommandIndices
  <2>2. commands' \in CommandsType /\ DOMAIN commands' = DOMAIN commands
    <3> DEFINE C == [name : STRING, mapped : BOOLEAN]
    <3>0. commands \in Seq(C)
      BY <1>5 DEF CommandsType
    <3>1. commands \in Seq(C) /\ commands[command] \in C
      <4> HIDE DEF C
      <4> QED BY <2>1, <3>0
    <3>2. [commands[command] EXCEPT !.mapped = TRUE] \in C
      BY <3>1
    <3>3. commands' = [commands EXCEPT ![command] = [commands[command] EXCEPT !.mapped = TRUE]]
      BY <1>10
    <3> DEFINE e == [commands[command] EXCEPT !.mapped = TRUE]
    <3> HIDE DEF C, e
    <3>4. [commands EXCEPT ![command] = e] \in Seq(C) /\ DOMAIN [commands EXCEPT ![command] = e] = DOMAIN commands
      BY <2>1, <3>1, <3>2 DEF e
    <3> QED BY <3>3, <3>4 DEF CommandsType, C, e
  <2>3. Parsed(line.output) \in SequencesWith(n)
    BY <1>4, <1>5, <1>10, ParsedIs DEF Types
  <2>4. output \in CommandOutputs(n)
    BY <2>1, <2>3 DEF CommandOutputs
  <2> HIDE DEF output, c, n
  <2>5. c \in ContextsWith(n) /\ c.commandOutputs \in Seq(CommandOutputs(n))
    BY <1>5 DEF WholeContexts, ContextsWith, CommandsWith, CommandOutputs
  <2> DEFINE outputs == Append(c.commandOutputs, output)
  <2>6. outputs \in CommandsWith(n)
    BY <2>4, <2>5 DEF CommandsWith, CommandOutputs
  <2>7. d = [c EXCEPT !.commandOutputs = outputs]
    BY <2>5 DEF ContextsWith
  <2> HIDE DEF outputs, d
  <2>8. /\ d \in ContextsWith(n) /\ d.inputs = c.inputs /\ d.outputs = c.outputs
        /\ d.beginStage = c.beginStage /\ d.modifier = c.modifier /\ d.fallthrough = c.fallthrough
    BY <2>5, <2>6, <2>7 DEF ContextsWith
  <2>9. d \in WholeContexts(n, DOMAIN commands)
    BY <1>5, <2>8 DEF WholeContexts, IsThere
  <2>10. /\ d \in WholeContexts(Len(logical), DOMAIN commands')
         /\ d.fallthrough = Last(contexts).fallthrough /\ d.beginStage = Last(contexts).beginStage
    BY <2>2, <2>8, <2>9 DEF c, n
  <2> QED BY <1>2, <1>10, <2>2, <2>10, IsInStep
<1> QED BY <1>7, <1>8, <1>9, <1>10

LEMMA ReadContextStep == Inv /\ ReadContext => Inv'
<1> SUFFICES ASSUME Inv, ReadContext PROVE Inv'
  OBVIOUS
<1>1. PICK line \in LinesOf("context") :
        /\ Reads(line)
        /\ IF IsOutput(line.modifier)
           THEN Begin([NewContext EXCEPT !.filter = line.filter, !.system = line.system,
                         !.modifier = Modifiers(Parsed(line.modifier)), !.invert = line.invert])
           ELSE Fails
  BY DEF ReadContext
<1> DEFINE n == Len(logical)
           modifier == Modifiers(Parsed(line.modifier))
           context == [NewContext EXCEPT !.filter = line.filter, !.system = line.system,
                                         !.modifier = modifier, !.invert = line.invert]
<1>2. line \in vocabulary.lines /\ line.kind = "context"
  BY DEF LinesOf
<1>3. status = "reading" /\ line \in LineType
  BY <1>1, <1>2, ReadsIs
<1>4. CASE ~IsOutput(line.modifier)
  BY <1>1, <1>2, <1>4, FailsStep
<1>5. CASE IsOutput(line.modifier)
  <2>1. /\ line.filter \in Names /\ line.system \in BOOLEAN /\ line.modifier \in Expressions
        /\ line.invert \in BOOLEAN /\ AreKeys(line.modifier)
    BY <1>2, <1>3, <1>5, LinesAre DEF IsOutput, Names
  <2>2. Types /\ n \in Nat
    BY <1>3, BeforeLine
  <2>3. Parsed(line.modifier) \in SequencesWith(n)
    BY <2>1, <2>2, ParsedIs DEF Types
  <2>4. modifier \in SequencesWith(n)
    BY <2>2, <2>3, ModifiersIs
  <2> HIDE DEF modifier
  <2>5. context \in WholeContexts(n, DOMAIN commands)
    BY <2>1, <2>4, NewContextIs
  <2>6. ~context.fallthrough
    BY DEF NewContext
  <2>7. Begin(context)
    BY <1>1, <1>5 DEF modifier
  <2> HIDE DEF context
  <2> QED BY <1>1, <1>2, <2>5, <2>6, <2>7, BeginStep
<1> QED BY <1>4, <1>5

LEMMA ReadStageStep == Inv /\ ReadStage => Inv'
<1> SUFFICES ASSUME Inv, ReadStage PROVE Inv'
  OBVIOUS
<1> DEFINE context == [NewContext EXCEPT !.beginStage = TRUE]
<1>1. PICK line \in LinesOf("stage") : Reads(line)
  BY DEF ReadStage
<1>2. line \in vocabulary.lines /\ Begin(context)
  BY DEF LinesOf, ReadStage
<1>3. context \in WholeContexts(Len(logical), DOMAIN commands)
  <2>1. "" \in Names /\ TRUE \in BOOLEAN /\ << >> \in SequencesWith(Len(logical))
    BY DEF Names, SequencesWith
  <2> QED BY <2>1, NewContextIs
<1>4. ~context.fallthrough
  BY DEF NewContext
<1> HIDE DEF context
<1> QED BY <1>1, <1>2, <1>3, <1>4, BeginStep

LEMMA ReadLogicalKeyStep == Inv /\ ReadLogicalKey => Inv'
<1> SUFFICES ASSUME Inv, ReadLogicalKey PROVE Inv'
  OBVIOUS
<1>1. PICK line \in LinesOf("logical") :
        /\ Reads(line)
        /\ IF /\ \A i \in DOMAIN line.keys : IsKey(line.keys[i])
              /\ Len(logical) + Len(line.keys) - 1 <= Len(LogicalKeys)
           THEN /\ logical' = RegisteredAll(logical, line.name, line.keys)
                /\ UNCHANGED <<status, contexts, commands, setting_vars>>
           ELSE Fails
  BY DEF ReadLogicalKey
<1>2. line \in vocabulary.lines /\ line.kind = "logical"
  BY DEF LinesOf
<1>3. status = "reading" /\ line \in LineType /\ vocabulary' = vocabulary /\ lines' \in Seq(vocabulary.lines)
  BY <1>1, <1>2, ReadsIs
<1>4. line.name \in STRING /\ line.keys \in Seq(STRING) /\ Len(line.keys) > 1
  BY <1>2, <1>3, LinesAre
<1> DEFINE Known == /\ \A i \in DOMAIN line.keys : IsKey(line.keys[i])
                    /\ Len(logical) + Len(line.keys) - 1 <= Len(LogicalKeys)
<1>5. CASE ~Known
  BY <1>1, <1>2, <1>5, FailsStep
<1>6. CASE Known
  <2> DEFINE n == Len(logical)
             m == Len(logical) + Len(line.keys) - 1
  <2>1. /\ contexts \in Seq(WholeContexts(n, DOMAIN commands)) /\ n \in Nat
        /\ Len(contexts) > 0 /\ FallOn(contexts) /\ Types
    BY <1>3, BeforeLine
  <2>2. logical' \in Definitions(m)
    BY <1>1, <1>4, <1>6, <2>1, RegisteredAllIs DEF Types
  <2>3. Len(logical') = m
    BY <2>2 DEF Definitions
  <2>4. m \in Nat /\ n <= m /\ m <= Len(LogicalKeys)
    BY <1>4, <1>6, <2>1
  <2>5. /\ status' = status /\ contexts' = contexts /\ commands' = commands /\ systemMatched' = systemMatched
        /\ afterEmptyBlock' = afterEmptyBlock /\ allowUnmapped' = allowUnmapped
        /\ forwardModifiers' = forwardModifiers
    BY <1>1, <1>6 DEF setting_vars
  <2> HIDE DEF n, m
  <2>6. WholeContexts(n, DOMAIN commands) \subseteq WholeContexts(m, DOMAIN commands)
    BY <2>1, <2>4, WholeContextsGrow
  <2>7. KeysWith(n) \subseteq KeysWith(m)
    BY <2>1, <2>4, KeysGrow
  <2>8. contexts \in Seq(WholeContexts(m, DOMAIN commands)) /\ forwardModifiers \in Seq(KeysWith(m))
    <3>1. forwardModifiers \in Seq(KeysWith(n))
      BY <2>1 DEF Types, n
    <3> QED BY <2>1, <2>6, <2>7, <3>1, SequencesGrow
  <2>9. /\ contexts' \in Seq(WholeContexts(Len(logical'), DOMAIN commands'))
        /\ Len(contexts') > 0 /\ FallOn(contexts')
    BY <2>1, <2>3, <2>5, <2>8
  <2>10. /\ commands' \in CommandsType /\ Len(logical)' <= Len(LogicalKeys)
         /\ logical' \in Definitions(Len(logical')) /\ forwardModifiers' \in Seq(KeysWith(Len(logical')))
         /\ systemMatched' \in BOOLEAN /\ afterEmptyBlock' \in BOOLEAN /\ allowUnmapped' \in BOOLEAN
         /\ status' \in {"reading", "forward", "error"}
    BY <1>3, <2>1, <2>2, <2>3, <2>4, <2>5, <2>8 DEF Types
  <2> QED BY <1>3, <2>9, <2>10, AfterLine
<1> QED BY <1>5, <1>6

LEMMA IgnoreDirectiveStep == Inv /\ IgnoreDirective => Inv'
<1> SUFFICES ASSUME Inv, IgnoreDirective PROVE Inv'
  OBVIOUS
<1>1. PICK line \in vocabulary.lines : Reads(line)
  BY DEF IgnoreDirective, LinesOf
<1>2. line \in vocabulary.lines
  OBVIOUS
<1>3. status = "reading" /\ vocabulary' = vocabulary /\ lines' \in Seq(vocabulary.lines)
  BY <1>1, <1>2, ReadsIs
<1>4. /\ status' = status /\ UNCHANGED <<contexts, commands, logical>>
      /\ systemMatched' = systemMatched /\ afterEmptyBlock' = afterEmptyBlock
      /\ allowUnmapped' = allowUnmapped /\ forwardModifiers' = forwardModifiers
  BY DEF IgnoreDirective, setting_vars
<1>5. allowUnmapped \in BOOLEAN /\ forwardModifiers \in Seq(KeysWith(Len(logical)))
  BY DEF Inv, Types
<1> QED BY <1>3, <1>4, <1>5, NothingChanges

LEMMA ReadForwardModifiersStep == Inv /\ ReadForwardModifiers => Inv'
<1> SUFFICES ASSUME Inv, ReadForwardModifiers PROVE Inv'
  OBVIOUS
<1>1. PICK line \in vocabulary.lines :
        /\ Directive("forward-modifiers", line)
        /\ IF \A i \in DOMAIN line.keys : line.keys[i] \in DeviceKeys \/ LogicalKey(line.keys[i]) > 0
           THEN /\ forwardModifiers' = ForwardedAll(line.keys)
                /\ UNCHANGED <<status, contexts, commands, logical,
                               systemMatched, afterEmptyBlock, allowUnmapped>>
           ELSE Fails
  BY DEF ReadForwardModifiers
<1>2. Reads(line) /\ line.kind = "forward-modifiers"
  BY <1>1 DEF Directive, LinesOf
<1>3. /\ status = "reading" /\ line \in LineType /\ vocabulary' = vocabulary
      /\ lines' \in Seq(vocabulary.lines)
  BY <1>2, ReadsIs
<1>4. line.keys \in Seq(STRING)
  BY <1>2, <1>3, LinesAre
<1> DEFINE Known == \A i \in DOMAIN line.keys : line.keys[i] \in DeviceKeys \/ LogicalKey(line.keys[i]) > 0
<1>5. CASE ~Known
  BY <1>1, <1>2, <1>5, FailsStep
<1>6. CASE Known
  <2>1. logical \in Definitions(Len(logical)) /\ allowUnmapped \in BOOLEAN
    BY DEF Inv, Types
  <2>2. ForwardedAll(line.keys) \in Seq(KeysWith(Len(logical)))
    BY <1>4, <1>6, <2>1, ForwardedAllIs
  <2> QED BY <1>1, <1>3, <1>6, <2>1, <2>2, NothingChanges
<1> QED BY <1>5, <1>6

LEMMA ReadAllowUnmappedStep == Inv /\ ReadAllowUnmapped => Inv'
<1> SUFFICES ASSUME Inv, ReadAllowUnmapped PROVE Inv'
  OBVIOUS
<1>1. PICK line \in vocabulary.lines :
        Reads(line) /\ line.kind = "allow-unmapped-commands" /\ allowUnmapped' = line.value
  BY DEF ReadAllowUnmapped, Directive, LinesOf
<1>2. /\ status = "reading" /\ vocabulary' = vocabulary /\ lines' \in Seq(vocabulary.lines)
  BY <1>1, ReadsIs
<1>3. allowUnmapped' \in BOOLEAN /\ forwardModifiers \in Seq(KeysWith(Len(logical)))
  BY <1>1, <1>2, ReadsIs, LinesAre DEF Inv, Types
<1>4. /\ status' = status /\ UNCHANGED <<contexts, commands, logical>>
      /\ systemMatched' = systemMatched /\ afterEmptyBlock' = afterEmptyBlock
      /\ forwardModifiers' = forwardModifiers
  BY DEF ReadAllowUnmapped
<1> QED BY <1>2, <1>3, <1>4, NothingChanges

LEMMA EndSteps == Inv /\ (ReadDone \/ EndOfFile) => Inv'
<1> SUFFICES ASSUME Inv, ReadDone \/ EndOfFile PROVE Inv'
  OBVIOUS
<1>1. status = "reading" /\ vocabulary' = vocabulary /\ lines' \in Seq(vocabulary.lines)
  <2>1. CASE ReadDone
    <3>1. PICK line \in vocabulary.lines : Reads(line)
      BY <2>1 DEF ReadDone, Directive
    <3> QED BY <3>1, ReadsIs
  <2>2. CASE EndOfFile
    BY <2>2 DEF EndOfFile, file_vars, Inv, Types
  <2> QED BY <2>1, <2>2
<1>2. /\ status' = EndStatus /\ UNCHANGED <<contexts, commands, logical>>
      /\ systemMatched' = systemMatched /\ afterEmptyBlock' = afterEmptyBlock
      /\ allowUnmapped' = allowUnmapped /\ forwardModifiers' = forwardModifiers
  BY DEF ReadDone, EndOfFile, setting_vars
<1>3. status' \in {"reading", "forward", "error"}
  BY <1>2 DEF EndStatus
<1>4. allowUnmapped \in BOOLEAN /\ forwardModifiers \in Seq(KeysWith(Len(logical)))
  BY DEF Inv, Types
<1> QED BY <1>1, <1>2, <1>3, <1>4, NothingChanges

\* A context more in front of all others, which does not fall through.
LEMMA PrependIs ==
  ASSUME NEW W, NEW c \in W, ~c.fallthrough, NEW cs \in Seq(W), FallOn(cs)
  PROVE  /\ <<c>> \o cs \in Seq(W) /\ Len(<<c>> \o cs) > 0 /\ FallOn(<<c>> \o cs)
<1> DEFINE ds == <<c>> \o cs
<1>1. /\ ds \in Seq(W) /\ Len(ds) = Len(cs) + 1 /\ Len(cs) \in Nat /\ ds[1] = c
      /\ \A i \in 1..Len(cs) : ds[i + 1] = cs[i]
  OBVIOUS
<1> HIDE DEF ds
<1>2. FallOn(ds)
  <2> SUFFICES ASSUME NEW i \in 1..Len(ds), ds[i].fallthrough
               PROVE  i < Len(ds) /\ ~ds[i + 1].beginStage
    BY DEF FallOn
  <2>1. i # 1
    BY <1>1
  <2>2. i - 1 \in 1..Len(cs) /\ ds[(i - 1) + 1] = cs[i - 1] /\ (i - 1) + 1 = i
    BY <1>1, <2>1
  <2>3. i - 1 < Len(cs) /\ ~cs[(i - 1) + 1].beginStage
    BY <2>2 DEF FallOn
  <2>4. i \in 1..Len(cs) /\ ~cs[i].beginStage
    BY <1>1, <2>2, <2>3
  <2> QED BY <1>1, <2>3, <2>4
<1> QED BY <1>1, <1>2 DEF ds

LEMMA ToggleActiveIs ==
  ASSUME NEW n, NEW known, NEW input \in SequencesWith(n)
  PROVE  /\ ToggleActiveContext(input) \in WholeContexts(n, known)
         /\ ~ToggleActiveContext(input).fallthrough
<1> DEFINE before == IF input[1].state = "NoMightMatch" THEN << >> ELSE <<Event("none", "NoMightMatch")>>
           output == <<Press(ToggleActive), Event("none", "OutputOnRelease")>>
<1>1. "none" \in KeysWith(n) /\ ToggleActive \in KeysWith(n)
  BY LogicalKeysAreEnough DEF KeysWith, OtherKeys
<1>2. /\ Press(ToggleActive) \in Events(n) /\ Event("none", "OutputOnRelease") \in Events(n)
      /\ Event("none", "NoMightMatch") \in Events(n)
  BY <1>1, EventIs
<1>3. output \in Seq(Events(n)) /\ before \in Seq(Events(n)) /\ input \in Seq(Events(n))
  <2>1. input \in Seq(Events(n))
    BY DEF SequencesWith, Events
  <2>2. \A a, b \in Events(n) : <<a, b>> \in Seq(Events(n)) /\ <<a>> \in Seq(Events(n)) /\ << >> \in Seq(Events(n))
    OBVIOUS
  <2> QED BY <1>2, <2>1, <2>2
<1> HIDE DEF before, output
<1>4. before \o input \in Seq(Events(n))
  <2> DEFINE S == Events(n)
  <2> HIDE DEF S
  <2>1. before \in Seq(S) /\ input \in Seq(S)
    BY <1>3 DEF S
  <2>2. before \o input \in Seq(S)
    BY <2>1
  <2> QED BY <2>2 DEF S
<1>5. before \o input \in SequencesWith(n) /\ output \in SequencesWith(n)
  BY <1>3, <1>4 DEF SequencesWith, Events
<1>6. NewContext \in WholeContexts(n, known)
  <2>1. "" \in Names /\ TRUE \in BOOLEAN /\ << >> \in SequencesWith(n)
    BY DEF Names, SequencesWith
  <2> QED BY <2>1, NewContextIs
<1>7. /\ WithMapping(NewContext, before \o input, output) \in WholeContexts(n, known)
      /\ WithMapping(NewContext, before \o input, output).fallthrough = NewContext.fallthrough
  BY <1>5, <1>6, WithMappingIs
<1>8. ToggleActiveContext(input) = WithMapping(NewContext, before \o input, output)
  BY DEF ToggleActiveContext, before, output
<1>9. NewContext.fallthrough = FALSE
  BY DEF NewContext
<1> QED BY <1>7, <1>8, <1>9

LEMMA ReadToggleActiveStep == Inv /\ ReadToggleActive => Inv'
<1> SUFFICES ASSUME Inv, ReadToggleActive PROVE Inv'
  OBVIOUS
<1>1. PICK line \in vocabulary.lines :
        /\ Directive("toggle-active", line)
        /\ IF AreKeys(line.input)
           THEN /\ contexts' = <<ToggleActiveContext(Parsed(line.input))>> \o contexts
                /\ UNCHANGED <<status, commands, logical, setting_vars>>
           ELSE Fails
  BY DEF ReadToggleActive
<1>2. Reads(line) /\ line.kind = "toggle-active"
  BY <1>1 DEF Directive, LinesOf
<1>3. /\ status = "reading" /\ line \in LineType /\ vocabulary' = vocabulary
      /\ lines' \in Seq(vocabulary.lines)
  BY <1>2, ReadsIs
<1>4. CASE ~AreKeys(line.input)
  BY <1>1, <1>2, <1>4, FailsStep
<1>5. CASE AreKeys(line.input)
  <2> DEFINE n == Len(logical)
             c == ToggleActiveContext(Parsed(line.input))
             W == WholeContexts(n, DOMAIN commands)
  <2>1. /\ contexts \in Seq(W) /\ FallOn(contexts) /\ Types
    BY <1>3, BeforeLine
  <2>2. Parsed(line.input) \in SequencesWith(n)
    <3>1. line.input \in Expressions
      BY <1>2, <1>3, LinesAre
    <3> QED BY <1>5, <2>1, <3>1, ParsedIs DEF Types
  <2>3. c \in W /\ ~c.fallthrough
    BY <2>2, ToggleActiveIs
  <2>4. /\ contexts' = <<c>> \o contexts /\ status' = status /\ commands' = commands
        /\ logical' = logical /\ systemMatched' = systemMatched /\ afterEmptyBlock' = afterEmptyBlock
        /\ allowUnmapped' = allowUnmapped /\ forwardModifiers' = forwardModifiers
    BY <1>1, <1>5 DEF setting_vars
  <2> HIDE DEF W, c
  <2>5. contexts' \in Seq(W) /\ Len(contexts') > 0 /\ FallOn(contexts')
    <3>1. <<c>> \o contexts \in Seq(W) /\ Len(<<c>> \o contexts) > 0 /\ FallOn(<<c>> \o contexts)
      BY <2>1, <2>3, PrependIs
    <3> QED BY <2>4, <3>1
  <2>6. /\ commands' \in CommandsType /\ Len(logical)' <= Len(LogicalKeys)
        /\ logical' \in Definitions(Len(logical')) /\ forwardModifiers' \in Seq(KeysWith(Len(logical')))
        /\ systemMatched' \in BOOLEAN /\ afterEmptyBlock' \in BOOLEAN /\ allowUnmapped' \in BOOLEAN
        /\ status' \in {"reading", "forward", "error"}
    BY <1>3, <2>1, <2>4 DEF Types
  <2>7. contexts' \in Seq(WholeContexts(Len(logical'), DOMAIN commands'))
    BY <2>4, <2>5 DEF W
  <2> QED BY <1>3, <2>5, <2>6, <2>7, AfterLine
<1> QED BY <1>4, <1>5

-----------------------------------------------------------------------------
(* After the last line *)

\* What each step after the last line leaves to show.
LEMMA AfterStep ==
  ASSUME Inv, NEW from, NEW to, Continues(from, to),
         to \in {"optimize", "replace", "suppress", "done"}, Remaining' \in 0..Len(logical),
         Len(contexts') > 0, contexts' \in Seq(WholeContexts(Remaining', DOMAIN commands)),
         FallOn(contexts')
  PROVE  Inv'
<1>1. /\ status' = to /\ vocabulary' = vocabulary /\ lines' = lines /\ commands' = commands
      /\ logical' = logical /\ systemMatched' = systemMatched /\ afterEmptyBlock' = afterEmptyBlock
      /\ allowUnmapped' = allowUnmapped /\ forwardModifiers' = forwardModifiers
  BY DEF Continues, file_vars, setting_vars
<1>2. Types'
  BY <1>1 DEF Inv, Types
<1> QED BY <1>1, <1>2 DEF Inv

\* The outputs of the inputs are those of known commands, or some of so many.
HasOutput(index, size, known) ==
  \/ index < 0 /\ -index \in known
  \/ index >= 0 /\ index < size
AllThere(inputs, size, known) ==
  \A i \in 1..Len(inputs) : HasOutput(inputs[i].output, size, known)

\* A context with other inputs and outputs, which are whole.
WithMappings(c, inputs, outputs) == [c EXCEPT !.inputs = inputs, !.outputs = outputs]

LEMMA OtherMappingsAre ==
  ASSUME NEW n, NEW known, NEW c \in WholeContexts(n, known),
         NEW inputs \in InputsWith(n), NEW outputs \in OutputsWith(n),
         AllThere(inputs, Len(outputs), known)
  PROVE  /\ WithMappings(c, inputs, outputs) \in WholeContexts(n, known)
         /\ WithMappings(c, inputs, outputs).fallthrough = c.fallthrough
         /\ WithMappings(c, inputs, outputs).beginStage = c.beginStage
<1> DEFINE d == WithMappings(c, inputs, outputs)
<1>1. c \in ContextsWith(n) /\ (c.beginStage => c.modifier = << >>)
  BY DEF WholeContexts
<1>2. /\ d \in ContextsWith(n) /\ d.inputs = inputs /\ d.outputs = outputs
      /\ d.fallthrough = c.fallthrough /\ d.beginStage = c.beginStage /\ d.modifier = c.modifier
  BY <1>1 DEF ContextsWith, WithMappings
<1>3. Len(outputs) \in Nat /\ \A i \in 1..Len(inputs) : inputs[i].output \in Int
  <2>1. outputs \in Seq(SequencesWith(n)) /\ inputs \in Seq(Inputs(n))
    BY DEF OutputsWith, InputsWith, Inputs
  <2>2. \A i \in 1..Len(inputs) : inputs[i] \in Inputs(n)
    BY <2>1
  <2> QED BY <2>1, <2>2 DEF Inputs
<1>4. \A i \in 1..Len(d.inputs) : IsThere(d, d.inputs[i].output, known)
  BY <1>2, <1>3 DEF IsThere, AllThere, HasOutput
<1>5. d \in WholeContexts(n, known)
  <2> HIDE DEF d
  <2> QED BY <1>1, <1>2, <1>4 DEF WholeContexts
<1> QED BY <1>2, <1>5

\* Each context becomes another one that falls through like it.
LEMMA EachBecomes ==
  ASSUME NEW W, NEW V, NEW cs \in Seq(W), FallOn(cs), NEW ds, DOMAIN ds = DOMAIN cs,
         ds = [i \in DOMAIN cs |-> ds[i]],
         \A i \in DOMAIN cs : /\ ds[i] \in V /\ ds[i].fallthrough = cs[i].fallthrough
                              /\ ds[i].beginStage = cs[i].beginStage
  PROVE  ds \in Seq(V) /\ FallOn(ds) /\ Len(ds) = Len(cs) /\ SubSeq(ds, 1, Len(cs)) = ds
<1>1. DOMAIN cs = 1..Len(cs) /\ Len(cs) \in Nat
  OBVIOUS
<1>2. ds \in [1..Len(cs) -> V]
  BY <1>1
<1>3. ds \in Seq(V) /\ Len(ds) = Len(cs) /\ SubSeq(ds, 1, Len(cs)) = ds
  BY <1>1, <1>2, MapIs
<1>4. FallOn(ds)
  <2> SUFFICES ASSUME NEW i \in 1..Len(ds), ds[i].fallthrough
               PROVE  i < Len(ds) /\ ~ds[i + 1].beginStage
    BY DEF FallOn
  <2>1. i \in DOMAIN cs /\ cs[i].fallthrough
    BY <1>1, <1>3
  <2>2. i < Len(cs) /\ ~cs[i + 1].beginStage
    BY <1>1, <2>1 DEF FallOn
  <2>3. i + 1 \in DOMAIN cs
    BY <1>1, <2>1, <2>2
  <2> QED BY <1>3, <2>2, <2>3
<1> QED BY <1>3, <1>4

\* The outputs of forwarded modifiers are behind those of the context.
LEMMA WithForwardsIs ==
  ASSUME NEW n, NEW known, NEW c \in WholeContexts(n, known), forwardModifiers \in Seq(KeysWith(n))
  PROVE  /\ WithForwards(c) \in WholeContexts(n, known)
         /\ WithForwards(c).fallthrough = c.fallthrough /\ WithForwards(c).beginStage = c.beginStage
<1>1. CASE ~c.beginStage
  BY <1>1 DEF WithForwards
<1>2. CASE c.beginStage
  <2> DEFINE m == Len(forwardModifiers)
             ins == [i \in 1..m |->
                       [input  |-> <<Press(forwardModifiers[i]), Async(forwardModifiers[i])>>,
                        output |-> Len(c.outputs) + m - i]]
             presses == [i \in DOMAIN forwardModifiers |-> <<Press(forwardModifiers[i])>>]
             outs == Reverse(Map(forwardModifiers, LAMBDA key : <<Press(key)>>))
             d == [c EXCEPT !.inputs = ins \o c.inputs, !.outputs = c.outputs \o outs]
  <2>1. WithForwards(c) = d
    <3>1. c \in ContextsWith(n)
      BY DEF WholeContexts
    <3> QED BY <1>2, <3>1 DEF WithForwards, ContextsWith
  <2>2. /\ m \in Nat /\ DOMAIN forwardModifiers = 1..m
        /\ \A i \in 1..m : forwardModifiers[i] \in KeysWith(n)
    OBVIOUS
  <2>3. /\ c \in ContextsWith(n) /\ Len(c.outputs) \in Nat /\ Len(c.inputs) \in Nat
        /\ c.inputs \in Seq(Inputs(n)) /\ c.outputs \in Seq(SequencesWith(n))
        /\ \A i \in 1..Len(c.inputs) : IsThere(c, c.inputs[i].output, known)
    <3>1. c \in ContextsWith(n) /\ \A i \in 1..Len(c.inputs) : IsThere(c, c.inputs[i].output, known)
      BY DEF WholeContexts
    <3>2. c.inputs \in Seq(Inputs(n)) /\ c.outputs \in Seq(SequencesWith(n))
      BY <3>1 DEF ContextsWith, InputsWith, OutputsWith, Inputs
    <3> QED BY <3>1, <3>2
  <2>4. ASSUME NEW i \in 1..m
        PROVE  /\ <<Press(forwardModifiers[i]), Async(forwardModifiers[i])>> \in SequencesWith(n)
               /\ <<Press(forwardModifiers[i])>> \in SequencesWith(n)
    <3>1. Press(forwardModifiers[i]) \in Events(n) /\ Async(forwardModifiers[i]) \in Events(n)
      BY <2>2, EventIs
    <3>2. \A a, b \in Events(n) : <<a, b>> \in Seq(Events(n)) /\ <<a>> \in Seq(Events(n))
      OBVIOUS
    <3>3. /\ <<Press(forwardModifiers[i]), Async(forwardModifiers[i])>> \in Seq(Events(n))
          /\ <<Press(forwardModifiers[i])>> \in Seq(Events(n))
      BY <3>1, <3>2
    <3> QED BY <3>3 DEF SequencesWith, Events
  <2>5. ins \in Seq(Inputs(n)) /\ Len(ins) = m
    <3>1. ASSUME NEW i \in 1..m PROVE ins[i] \in Inputs(n)
      <4>1. Len(c.outputs) + m - i \in Int
        BY <2>2, <2>3
      <4> QED BY <2>4, <4>1 DEF Inputs
    <3>2. ins \in [1..m -> Inputs(n)]
      BY <3>1
    <3> HIDE DEF ins, m
    <3> QED BY <2>2, <3>2, MapIs
  <2>6. outs \in Seq(SequencesWith(n)) /\ Len(outs) = m
    <3> DEFINE S == SequencesWith(n)
               mapped == Map(forwardModifiers, LAMBDA key : <<Press(key)>>)
    <3>1. presses \in [1..m -> S] /\ mapped = SubSeq(presses, 1, m)
      BY <2>2, <2>4 DEF Map
    <3> HIDE DEF presses, S, m
    <3>2. mapped \in Seq(S) /\ Len(mapped) = m
      BY <2>2, <3>1, MapIs
    <3> HIDE DEF mapped
    <3>3. Reverse(mapped) \in Seq(S) /\ Len(Reverse(mapped)) = m
      <4> DEFINE f == [j \in 1..m |-> mapped[m - j + 1]]
      <4>1. Reverse(mapped) = f
        BY <3>2 DEF Reverse
      <4>2. f \in [1..m -> S]
        <5>1. ASSUME NEW j \in 1..m PROVE mapped[m - j + 1] \in S
          <6>1. m - j + 1 \in 1..m
            BY <2>2
          <6> QED BY <3>2, <6>1
        <5> QED BY <5>1
      <4> HIDE DEF f
      <4> QED BY <2>2, <4>1, <4>2, MapIs
    <3> QED BY <3>3 DEF mapped, S
  <2>7. \A i \in 1..m : ins[i].output = Len(c.outputs) + m - i
    OBVIOUS
  <2> HIDE DEF ins, outs, m
  <2> DEFINE inputs == ins \o c.inputs
             outputs == c.outputs \o outs
             I == Inputs(n)
             S == SequencesWith(n)
  <2> HIDE DEF I, S
  <2>8. /\ inputs \in Seq(I) /\ Len(inputs) = m + Len(c.inputs)
        /\ \A i \in 1..m : inputs[i] = ins[i]
        /\ \A i \in 1..Len(c.inputs) : inputs[m + i] = c.inputs[i]
    <3>1. ins \in Seq(I) /\ c.inputs \in Seq(I)
      BY <2>3, <2>5 DEF I
    <3>2. /\ inputs \in Seq(I) /\ Len(inputs) = Len(ins) + Len(c.inputs)
          /\ \A k \in 1..Len(ins) : inputs[k] = ins[k]
          /\ \A k \in 1..Len(c.inputs) : inputs[Len(ins) + k] = c.inputs[k]
      BY <3>1, Concatenation
    <3> HIDE DEF inputs
    <3> QED BY <2>5, <3>2
  <2>9. outputs \in Seq(S) /\ Len(outputs) = Len(c.outputs) + m
    <3>1. outs \in Seq(S) /\ c.outputs \in Seq(S)
      BY <2>3, <2>6 DEF S
    <3>2. outputs \in Seq(S) /\ Len(outputs) = Len(c.outputs) + Len(outs)
      BY <3>1, Concatenation
    <3> HIDE DEF outputs
    <3> QED BY <2>6, <3>2
  <2> HIDE DEF inputs, outputs
  <2>10. ASSUME NEW i \in 1..Len(inputs)
         PROVE  \/ inputs[i].output < 0 /\ -inputs[i].output \in known
                \/ inputs[i].output >= 0 /\ inputs[i].output < Len(outputs)
    <3>1. CASE i \in 1..m
      <4>1. inputs[i].output = Len(c.outputs) + m - i
        BY <2>7, <2>8, <3>1
      <4>2. /\ Len(c.outputs) + m - i >= 0 /\ Len(c.outputs) + m - i < Len(outputs)
        BY <2>2, <2>3, <2>9, <3>1
      <4> QED BY <4>1, <4>2
    <3>2. CASE i \notin 1..m
      <4>1. i - m \in 1..Len(c.inputs) /\ m + (i - m) = i
        BY <2>2, <2>3, <2>8, <3>2
      <4>2. inputs[i] = c.inputs[i - m] /\ IsThere(c, c.inputs[i - m].output, known)
        BY <2>3, <2>8, <4>1
      <4>3. c.inputs[i - m].output \in Int
        BY <2>3, <4>1, ContextParts
      <4> DEFINE o == c.inputs[i - m].output
      <4>4. (o < 0 => -o \in known) /\ (~(o < 0) => o + 1 \in 1..Len(c.outputs)) /\ o \in Int
        BY <4>2, <4>3 DEF IsThere
      <4>5. inputs[i].output = o
        BY <4>2
      <4> HIDE DEF o
      <4>6. ~(o < 0) => o >= 0 /\ o < Len(outputs)
        BY <2>2, <2>3, <2>9, <4>4
      <4> QED BY <4>4, <4>5, <4>6
    <3> QED BY <3>1, <3>2
  <2>11. inputs \in InputsWith(n) /\ outputs \in OutputsWith(n)
    BY <2>8, <2>9 DEF InputsWith, OutputsWith, Inputs, I, S
  <2>12. d = WithMappings(c, inputs, outputs)
    BY DEF inputs, outputs, WithMappings
  <2> HIDE DEF d
  <2>13. AllThere(inputs, Len(outputs), known)
    BY <2>10 DEF AllThere, HasOutput
  <2>14. d \in WholeContexts(n, known) /\ d.fallthrough = c.fallthrough /\ d.beginStage = c.beginStage
    BY <2>11, <2>12, <2>13, OtherMappingsAre
  <2> QED BY <2>1, <2>14
<1> QED BY <1>1, <1>2

LEMMA PrependForwardModifiersStep == Inv /\ PrependForwardModifiers => Inv'
<1> SUFFICES ASSUME Inv, PrependForwardModifiers PROVE Inv'
  OBVIOUS
<1> DEFINE n == Len(logical)
           W == WholeContexts(n, DOMAIN commands)
           ds == [i \in DOMAIN contexts |-> WithForwards(contexts[i])]
<1>1. Continues("forward", "optimize") /\ contexts' = SubSeq(ds, 1, Len(contexts))
  BY DEF PrependForwardModifiers, Map
<1>2. status = "forward" /\ status' = "optimize" /\ logical' = logical
  BY <1>1 DEF Continues
<1>3. Remaining = n /\ Remaining' = n /\ n \in Nat
  BY <1>2 DEF Remaining, Inv, Types, Definitions
<1>4. contexts \in Seq(W) /\ FallOn(contexts) /\ Len(contexts) > 0 /\ forwardModifiers \in Seq(KeysWith(n))
  BY <1>3 DEF Inv, Types
<1>5. \A i \in DOMAIN contexts :
        /\ ds[i] \in W /\ ds[i].fallthrough = contexts[i].fallthrough
        /\ ds[i].beginStage = contexts[i].beginStage
  <2> SUFFICES ASSUME NEW i \in DOMAIN contexts
               PROVE  /\ ds[i] \in W /\ ds[i].fallthrough = contexts[i].fallthrough
                      /\ ds[i].beginStage = contexts[i].beginStage
    OBVIOUS
  <2>1. ds[i] = WithForwards(contexts[i])
    OBVIOUS
  <2>2. contexts[i] \in W
    BY <1>4
  <2> HIDE DEF ds
  <2> QED BY <1>4, <2>1, <2>2, WithForwardsIs
<1>6. DOMAIN ds = DOMAIN contexts /\ ds = [i \in DOMAIN contexts |-> ds[i]]
  OBVIOUS
<1> HIDE DEF ds, W
<1>7. ds \in Seq(W) /\ FallOn(ds) /\ Len(ds) = Len(contexts) /\ SubSeq(ds, 1, Len(contexts)) = ds
  BY <1>4, <1>5, <1>6, EachBecomes
<1>8. contexts' \in Seq(WholeContexts(Remaining', DOMAIN commands)) /\ Len(contexts') > 0 /\ FallOn(contexts')
  BY <1>1, <1>3, <1>4, <1>7 DEF W
<1> QED BY <1>1, <1>3, <1>8, AfterStep

-----------------------------------------------------------------------------
(* Removing the contexts without effect, the last one first *)

LEMMA RemovedIs ==
  ASSUME NEW W, NEW cs \in Seq(W), NEW p \in 1..Len(cs)
  PROVE  /\ RemoveAt(cs, p) \in Seq(W) /\ Len(RemoveAt(cs, p)) = Len(cs) - 1
         /\ \A i \in 1..(Len(cs) - 1) : RemoveAt(cs, p)[i] = IF i < p THEN cs[i] ELSE cs[i + 1]
<1> DEFINE a == SubSeq(cs, 1, p - 1)
           b == SubSeq(cs, p + 1, Len(cs))
<1>1. /\ a \in Seq(W) /\ Len(a) = p - 1 /\ \A i \in 1..(p - 1) : a[i] = cs[i]
  OBVIOUS
<1>2. /\ b \in Seq(W) /\ Len(b) = Len(cs) - p /\ \A i \in 1..(Len(cs) - p) : b[i] = cs[i + p]
  OBVIOUS
<1>3. RemoveAt(cs, p) = a \o b /\ Len(cs) \in Nat
  BY DEF RemoveAt
<1> HIDE DEF a, b
<1>4. /\ a \o b \in Seq(W) /\ Len(a \o b) = Len(a) + Len(b)
      /\ \A k \in 1..Len(a) : (a \o b)[k] = a[k]
      /\ \A k \in 1..Len(b) : (a \o b)[Len(a) + k] = b[k]
  <2>1. a \in Seq(W) /\ b \in Seq(W)
    BY <1>1, <1>2
  <2> QED BY <2>1, Concatenation
<1> DEFINE s == a \o b
<1>5. s \in Seq(W) /\ Len(s) = Len(cs) - 1
  BY <1>1, <1>2, <1>3, <1>4
<1>6. ASSUME NEW i \in 1..(Len(cs) - 1)
      PROVE  s[i] = IF i < p THEN cs[i] ELSE cs[i + 1]
  <2>1. CASE i < p
    <3>1. i \in 1..(p - 1)
      BY <2>1
    <3>2. s[i] = a[i]
      BY <1>1, <1>4, <3>1
    <3> QED BY <1>1, <2>1, <3>1, <3>2
  <2>2. CASE ~(i < p)
    <3>1. i - (p - 1) \in 1..(Len(cs) - p) /\ (p - 1) + (i - (p - 1)) = i /\ (i - (p - 1)) + p = i + 1
      BY <1>3, <2>2
    <3>2. s[(p - 1) + (i - (p - 1))] = b[i - (p - 1)]
      BY <1>1, <1>2, <1>4, <3>1
    <3>3. b[i - (p - 1)] = cs[(i - (p - 1)) + p]
      BY <1>2, <3>1
    <3> QED BY <2>2, <3>1, <3>2, <3>3
  <2> QED BY <2>1, <2>2
<1> QED BY <1>3, <1>5, <1>6

\* The mappings of a context are also whole in another one.
LEMMA GivenIs ==
  ASSUME NEW n, NEW known, NEW cs \in Seq(WholeContexts(n, known)), NEW p \in 1..Len(cs)
  PROVE  /\ GivenMappings(cs, p) \in Seq(WholeContexts(n, known)) /\ Len(GivenMappings(cs, p)) = Len(cs)
         /\ \A i \in 1..Len(cs) : GivenMappings(cs, p)[i].beginStage = cs[i].beginStage
         /\ \A i \in 1..Len(cs) : i # p - 1 => GivenMappings(cs, p)[i] = cs[i]
<1> DEFINE W == WholeContexts(n, known)
           e == cs[p]
           c == cs[p - 1]
           d == [c EXCEPT !.inputs = e.inputs, !.outputs = e.outputs,
                          !.commandOutputs = e.commandOutputs, !.fallthrough = FALSE]
<1>1. CASE ~(p > 1 /\ cs[p - 1].fallthrough)
  BY <1>1 DEF GivenMappings
<1>2. CASE p > 1 /\ cs[p - 1].fallthrough
  <2>1. p - 1 \in DOMAIN cs /\ c \in W /\ e \in W
    <3> HIDE DEF W
    <3> QED BY <1>2 DEF W
  <2>2. GivenMappings(cs, p) = [cs EXCEPT ![p - 1] = d]
    BY <1>2, <2>1 DEF GivenMappings
  <2> HIDE DEF c, e
  <2>3. /\ d \in ContextsWith(n) /\ d.inputs = e.inputs /\ d.outputs = e.outputs
        /\ d.beginStage = c.beginStage /\ d.modifier = c.modifier
    BY <2>1 DEF WholeContexts, ContextsWith
  <2> HIDE DEF d
  <2>4. d \in W
    BY <2>1, <2>3 DEF WholeContexts, IsThere
  <2> HIDE DEF W
  <2>5. cs \in Seq(W)
    BY DEF W
  <2> DEFINE ds == [cs EXCEPT ![p - 1] = d]
  <2>6. /\ ds \in Seq(W) /\ Len(ds) = Len(cs)
        /\ \A i \in 1..Len(cs) : ds[i] = IF i = p - 1 THEN d ELSE cs[i]
    BY <2>1, <2>4, <2>5
  <2> HIDE DEF ds
  <2>7. \A i \in 1..Len(cs) : ds[i].beginStage = cs[i].beginStage
    BY <2>3, <2>6 DEF c
  <2> QED BY <2>2, <2>6, <2>7 DEF ds, W
<1> QED BY <1>1, <1>2

\* What is there before the p-th context is looked at: those behind it fall
\* through to one of the same stage, and it does if a context was kept.
Optimizing(W, p) ==
  { acc \in [contexts : Seq(W), beforeContext : BOOLEAN] :
      /\ p <= Len(acc.contexts)
      /\ \A i \in 1..Len(acc.contexts) :
           acc.contexts[i].fallthrough /\ (i # p \/ acc.beforeContext)
             => i < Len(acc.contexts) /\ ~acc.contexts[i + 1].beginStage }

\* What is kept.
LEMMA KeepsIs ==
  ASSUME NEW W, NEW p \in Nat, p > 0, NEW acc \in Optimizing(W, p),
         ~acc.contexts[p].fallthrough \/ acc.beforeContext
  PROVE  [acc EXCEPT !.beforeContext = TRUE] \in Optimizing(W, p - 1)
<1> DEFINE cs == acc.contexts
           S == Seq(W)
           new == [acc EXCEPT !.beforeContext = TRUE]
<1>1. acc \in [contexts : S, beforeContext : BOOLEAN]
  BY DEF Optimizing
<1>2. cs \in S /\ p <= Len(cs) /\ \A i \in 1..Len(cs) :
        cs[i].fallthrough /\ (i # p \/ acc.beforeContext) => i < Len(cs) /\ ~cs[i + 1].beginStage
  BY DEF Optimizing
<1> HIDE DEF S
<1>3. new \in [contexts : S, beforeContext : BOOLEAN] /\ new.contexts = cs
  BY <1>1
<1>4. Len(cs) \in Nat
  BY <1>2 DEF S
<1> HIDE DEF cs, new
<1>5. \A i \in 1..Len(cs) : cs[i].fallthrough => i < Len(cs) /\ ~cs[i + 1].beginStage
  BY <1>2 DEF cs
<1> QED BY <1>2, <1>3, <1>4, <1>5 DEF Optimizing, S, new

\* What is removed: what is before it does not fall through, or a context behind it was kept.
LEMMA RemovesIs ==
  ASSUME NEW W, NEW p \in Nat, p > 0, NEW acc \in Optimizing(W, p),
         NEW given \in Seq(W), Len(given) = Len(acc.contexts),
         \A i \in 1..Len(acc.contexts) : given[i].beginStage = acc.contexts[i].beginStage,
         \A i \in 1..Len(acc.contexts) : i # p - 1 => given[i] = acc.contexts[i],
         NEW before \in BOOLEAN, before => acc.beforeContext /\ acc.contexts[p].fallthrough
  PROVE  [contexts |-> RemoveAt(given, p), beforeContext |-> before] \in Optimizing(W, p - 1)
<1> DEFINE cs == acc.contexts
           ds == RemoveAt(given, p)
<1>1. p <= Len(cs) /\ \A i \in 1..Len(cs) :
        cs[i].fallthrough /\ (i # p \/ acc.beforeContext) => i < Len(cs) /\ ~cs[i + 1].beginStage
  BY DEF Optimizing
<1>2. Len(cs) \in Nat /\ p \in 1..Len(given)
  BY <1>1
<1>3. /\ ds \in Seq(W) /\ Len(ds) = Len(cs) - 1
      /\ \A i \in 1..(Len(cs) - 1) : ds[i] = IF i < p THEN given[i] ELSE given[i + 1]
  BY <1>2, RemovedIs
<1> HIDE DEF ds
<1>4. ASSUME NEW i \in 1..Len(ds), ds[i].fallthrough, i # p - 1 \/ before
      PROVE  i < Len(ds) /\ ~ds[i + 1].beginStage
  <2>0. i \in 1..(Len(cs) - 1)
    BY <1>3
  <2>1. CASE i < p - 1
    <3>1. ds[i] = cs[i] /\ i \in 1..Len(cs) /\ i # p
      BY <1>2, <1>3, <2>0, <2>1
    <3>2. ~cs[i + 1].beginStage
      BY <1>1, <1>4, <3>1
    <3>3. i + 1 \in 1..(Len(cs) - 1) /\ i + 1 < p /\ i + 1 \in 1..Len(cs) /\ i < Len(cs) - 1
      BY <1>1, <1>2, <2>0, <2>1
    <3>4. ds[i + 1].beginStage = cs[i + 1].beginStage
      BY <1>3, <3>3
    <3> QED BY <1>3, <3>2, <3>3, <3>4
  <2>2. CASE i = p - 1
    <3>1. before /\ cs[p].fallthrough /\ acc.beforeContext /\ p \in 1..Len(cs)
      BY <1>2, <1>4, <2>2
    <3>2. p < Len(cs) /\ ~cs[p + 1].beginStage
      BY <1>1, <3>1
    <3>3. p \in 1..(Len(cs) - 1) /\ p + 1 \in 1..Len(cs) /\ p + 1 # p - 1 /\ ~(p < p)
      BY <1>2, <3>2
    <3>4. ds[p] = given[p + 1] /\ given[p + 1] = cs[p + 1]
      BY <1>3, <3>3
    <3> QED BY <1>2, <1>3, <2>2, <3>2, <3>4
  <2>3. CASE i > p - 1
    <3>1. i + 1 \in 1..Len(cs) /\ i + 1 # p - 1 /\ ~(i < p) /\ i + 1 # p
      BY <1>2, <2>0, <2>3
    <3>2. ds[i] = given[i + 1] /\ given[i + 1] = cs[i + 1]
      BY <1>3, <2>0, <3>1
    <3>3. i + 1 < Len(cs) /\ ~cs[(i + 1) + 1].beginStage
      BY <1>1, <1>4, <3>1, <3>2
    <3>4. /\ i + 1 \in 1..(Len(cs) - 1) /\ ~(i + 1 < p) /\ (i + 1) + 1 \in 1..Len(cs)
          /\ (i + 1) + 1 # p - 1 /\ i < Len(cs) - 1
      BY <1>2, <2>0, <2>3, <3>3
    <3>5. ds[i + 1] = given[(i + 1) + 1] /\ given[(i + 1) + 1] = cs[(i + 1) + 1]
      BY <1>3, <3>4
    <3> QED BY <1>3, <3>3, <3>4, <3>5
  <2> QED BY <2>0, <2>1, <2>2, <2>3
<1> DEFINE new == [contexts |-> ds, beforeContext |-> before]
           S == Seq(W)
<1>5. new \in [contexts : S, beforeContext : BOOLEAN] /\ new.contexts = ds /\ new.beforeContext = before
  BY <1>3
<1>6. p - 1 <= Len(ds)
  BY <1>1, <1>2, <1>3
<1> HIDE DEF new
<1>7. \A i \in 1..Len(new.contexts) :
           new.contexts[i].fallthrough /\ (i # p - 1 \/ new.beforeContext)
             => i < Len(new.contexts) /\ ~new.contexts[i + 1].beginStage
  BY <1>4, <1>5
<1>8. new \in Optimizing(W, p - 1)
  BY <1>5, <1>6, <1>7 DEF Optimizing
<1> QED BY <1>8 DEF new, ds

LEMMA OptimizeContextIs ==
  ASSUME NEW n, NEW known, NEW p \in Nat, p > 0, NEW acc \in Optimizing(WholeContexts(n, known), p)
  PROVE  OptimizeContext(acc, p) \in Optimizing(WholeContexts(n, known), p - 1)
<1> DEFINE W == WholeContexts(n, known)
           cs == acc.contexts
<1> HIDE DEF W
<1>1. /\ acc \in [contexts : Seq(W), beforeContext : BOOLEAN] /\ cs \in Seq(W)
      /\ p <= Len(cs) /\ acc.beforeContext \in BOOLEAN /\ acc \in Optimizing(W, p)
  BY DEF Optimizing, W
<1>2. p \in 1..Len(cs)
  BY <1>1
<1>3. /\ cs[p].fallthrough \in BOOLEAN
  BY <1>1, <1>2 DEF W, WholeContexts, ContextsWith
<1>4. OptimizeContext(acc, p) =
        IF cs[p].fallthrough
        THEN IF ~cs[p].system \/ ~acc.beforeContext
             THEN [acc EXCEPT !.contexts = RemoveAt(cs, p)] ELSE acc
        ELSE IF ~cs[p].system \/ HasNoEffect(cs, p)
        THEN [contexts |-> RemoveAt(GivenMappings(cs, p), p), beforeContext |-> FALSE]
        ELSE [acc EXCEPT !.beforeContext = TRUE]
  BY DEF OptimizeContext
<1>5. CASE cs[p].fallthrough /\ (~cs[p].system \/ ~acc.beforeContext)
  <2>1. OptimizeContext(acc, p) = [contexts |-> RemoveAt(cs, p), beforeContext |-> acc.beforeContext]
    BY <1>1, <1>4, <1>5
  <2>2. [contexts |-> RemoveAt(cs, p), beforeContext |-> acc.beforeContext] \in Optimizing(W, p - 1)
    BY <1>1, <1>5, RemovesIs
  <2> QED BY <2>1, <2>2 DEF W
<1>6. CASE cs[p].fallthrough /\ ~(~cs[p].system \/ ~acc.beforeContext)
  <2>1. OptimizeContext(acc, p) = [acc EXCEPT !.beforeContext = TRUE]
    BY <1>1, <1>4, <1>6
  <2> QED BY <1>1, <1>6, <2>1, KeepsIs DEF W
<1>7. CASE ~cs[p].fallthrough /\ (~cs[p].system \/ HasNoEffect(cs, p))
  <2> DEFINE given == GivenMappings(cs, p)
  <2>1. OptimizeContext(acc, p) = [contexts |-> RemoveAt(given, p), beforeContext |-> FALSE]
    BY <1>4, <1>7
  <2>2. /\ given \in Seq(W) /\ Len(given) = Len(cs)
        /\ \A i \in 1..Len(cs) : given[i].beginStage = cs[i].beginStage
        /\ \A i \in 1..Len(cs) : i # p - 1 => given[i] = cs[i]
    BY <1>1, <1>2, GivenIs DEF W
  <2> HIDE DEF given
  <2>3. [contexts |-> RemoveAt(given, p), beforeContext |-> FALSE] \in Optimizing(W, p - 1)
    BY <1>1, <2>2, RemovesIs
  <2> QED BY <2>1, <2>3 DEF W
<1>8. CASE ~cs[p].fallthrough /\ ~(~cs[p].system \/ HasNoEffect(cs, p))
  <2>1. OptimizeContext(acc, p) = [acc EXCEPT !.beforeContext = TRUE]
    BY <1>4, <1>8
  <2> QED BY <1>1, <1>8, <2>1, KeepsIs DEF W
<1> QED BY <1>5, <1>6, <1>7, <1>8

\* What is left in the steps of a fold that leaves some out, too.
Shortened(W, p) ==
  { acc \in [contexts : Seq(W), beforeContext : BOOLEAN] : p <= Len(acc.contexts) }

LEMMA ShortenedIs ==
  ASSUME NEW n, NEW known, NEW p \in Nat, p > 0, NEW acc \in Shortened(WholeContexts(n, known), p)
  PROVE  OptimizeContext(acc, p) \in Shortened(WholeContexts(n, known), p - 1)
<1> DEFINE W == WholeContexts(n, known)
           cs == acc.contexts
           S == Seq(W)
           given == GivenMappings(cs, p)
<1> HIDE DEF W
<1>1. /\ acc \in [contexts : S, beforeContext : BOOLEAN] /\ cs \in S /\ p <= Len(cs)
  BY DEF Shortened, W
<1>2. p \in 1..Len(cs) /\ Len(cs) \in Nat
  BY <1>1
<1>3. RemoveAt(cs, p) \in S /\ Len(RemoveAt(cs, p)) = Len(cs) - 1
  BY <1>1, <1>2, RemovedIs
<1>4. given \in S /\ Len(given) = Len(cs)
  BY <1>1, <1>2, GivenIs DEF W
<1> HIDE DEF given
<1>5. RemoveAt(given, p) \in S /\ Len(RemoveAt(given, p)) = Len(cs) - 1
  BY <1>1, <1>2, <1>4, RemovedIs
<1> HIDE DEF S
<1> DEFINE removed == [acc EXCEPT !.contexts = RemoveAt(cs, p)]
           replaced == [contexts |-> RemoveAt(given, p), beforeContext |-> FALSE]
           kept == [acc EXCEPT !.beforeContext = TRUE]
<1>6. OptimizeContext(acc, p) \in {acc, removed, replaced, kept}
  BY DEF OptimizeContext, given
<1>7. \A new \in {acc, removed, replaced, kept} :
        new \in [contexts : S, beforeContext : BOOLEAN] /\ p - 1 <= Len(new.contexts)
  <2>1. removed \in [contexts : S, beforeContext : BOOLEAN] /\ removed.contexts = RemoveAt(cs, p)
    BY <1>1, <1>3
  <2>2. replaced \in [contexts : S, beforeContext : BOOLEAN] /\ replaced.contexts = RemoveAt(given, p)
    BY <1>5
  <2>3. kept \in [contexts : S, beforeContext : BOOLEAN] /\ kept.contexts = cs
    BY <1>1
  <2> HIDE DEF removed, replaced, kept
  <2>4. p - 1 <= Len(cs) /\ p - 1 <= Len(cs) - 1
    BY <1>1, <1>2
  <2> QED BY <1>1, <1>3, <1>5, <2>1, <2>2, <2>3, <2>4
<1> QED BY <1>6, <1>7 DEF Shortened, S, W

\* The contexts in an order.
OptimizedIn(cs, order) ==
  FoldLeft(OptimizeContext, [contexts |-> cs, beforeContext |-> FALSE], order)

\* The steps of Optimized: the k-th looks at the k-th context from behind.
AreOptimizeSteps(a, cs, order) ==
  /\ a[0] = [contexts |-> cs, beforeContext |-> FALSE] /\ OptimizedIn(cs, order) = a[Len(order)]
  /\ \A k \in 1..Len(order) : a[k] = OptimizeContext(a[k - 1], order[k])
LEMMA OptimizeSteps ==
  ASSUME NEW n, NEW known, NEW cs \in Seq(WholeContexts(n, known)), NEW order,
         Len(order) = Len(cs), DOMAIN order = 1..Len(cs),
         \A k \in 1..Len(cs) : order[k] = Len(cs) - k + 1
  PROVE  \E a : AreOptimizeSteps(a, cs, order)
<1> DEFINE m == Len(order)
           base == [contexts |-> cs, beforeContext |-> FALSE]
           W == WholeContexts(n, known)
           T == [k \in 0..m |-> Shortened(W, m - k)]
           G == [k \in 1..m |-> [x \in T[k - 1] |-> OptimizeContext(x, order[k])]]
           Is(f) == f = [s \in SUBSET (1..m) |->
                           IF s = {} THEN [contexts |-> cs, beforeContext |-> FALSE] ELSE OptimizeContext(f[s \ {Max(s)}], order[Max(s)])]
           f == CHOOSE f : Is(f)
           a == [k \in 0..m |-> f[1..k]]
<1>1. m \in Nat /\ DOMAIN order = 1..m /\ \A i \in 1..m : order[i] = m - i + 1
  <2>1. Len(cs) \in Nat
    OBVIOUS
  <2> QED BY <2>1
<1>2. /\ [contexts |-> cs, beforeContext |-> FALSE] \in T[0]
      /\ \A i \in 1..m : T[i - 1] \subseteq T[i]
      /\ \A i \in 1..m : \A x \in T[i - 1] : OptimizeContext(x, order[i]) \in T[i]
  <2> HIDE DEF W
  <2>1. \A k \in 0..m : T[k] = Shortened(W, m - k)
    OBVIOUS
  <2>2. base \in T[0]
    <3>1. 0 \in 0..m /\ m - 0 <= Len(cs)
      BY <1>1
    <3> DEFINE S == Seq(W)
    <3>2. cs \in S
      BY DEF W
    <3> HIDE DEF S, T
    <3>3. base \in [contexts : S, beforeContext : BOOLEAN] /\ base.contexts = cs
      BY <3>2
    <3> HIDE DEF base
    <3> QED BY <2>1, <3>1, <3>3 DEF Shortened, S
  <2>3. ASSUME NEW i \in 1..m PROVE T[i - 1] \subseteq T[i]
    <3>1. i \in 0..m /\ i - 1 \in 0..m
      BY <1>1
    <3>2. Shortened(W, m - (i - 1)) \subseteq Shortened(W, m - i)
      <4> SUFFICES ASSUME NEW acc \in Shortened(W, m - (i - 1)) PROVE acc \in Shortened(W, m - i)
        OBVIOUS
      <4>1. m - (i - 1) <= Len(acc.contexts) /\ Len(acc.contexts) \in Nat
        BY DEF Shortened
      <4>2. m - i <= Len(acc.contexts)
        BY <1>1, <4>1
      <4> QED BY <4>2 DEF Shortened
    <3> QED BY <2>1, <3>1, <3>2
  <2>4. ASSUME NEW i \in 1..m, NEW x \in T[i - 1] PROVE OptimizeContext(x, order[i]) \in T[i]
    <3>1. i \in 0..m /\ i - 1 \in 0..m /\ order[i] = m - i + 1
      BY <1>1
    <3>2. /\ m - i + 1 \in Nat /\ m - i + 1 > 0 /\ m - (i - 1) = m - i + 1 /\ (m - i + 1) - 1 = m - i
      BY <1>1
    <3>3. x \in Shortened(W, m - i + 1)
      BY <2>1, <3>1, <3>2
    <3>4. OptimizeContext(x, m - i + 1) \in Shortened(W, (m - i + 1) - 1)
      BY <3>2, <3>3, ShortenedIs DEF W
    <3> QED BY <2>1, <3>1, <3>2, <3>4
  <2> HIDE DEF T
  <2> QED BY <2>2, <2>3, <2>4 DEF base
<1>3. \E g : Is(g)
  <2>1. \A i \in 1..m : \A x \in T[i - 1] : G[i][x] = OptimizeContext(x, order[i])
    OBVIOUS
  <2> HIDE DEF T, G
  <2>2. \A i \in 1..m : \A x \in T[i - 1] : G[i][x] \in T[i]
    BY <1>2, <2>1
  <2>3. PICK g : IsFold(g, m, [contexts |-> cs, beforeContext |-> FALSE], T, G)
    BY <1>1, <1>2, <2>2, FoldExists
  <2>4. \A s \in SUBSET (1..m) : s # {} => Max(s) \in 1..m
    BY <1>1, LastOfPositions
  <2>5. ASSUME NEW s \in SUBSET (1..m), s # {}
        PROVE  G[Max(s)][g[s \ {Max(s)}]] = OptimizeContext(g[s \ {Max(s)}], order[Max(s)])
    <3>1. Max(s) \in 1..m /\ g[s \ {Max(s)}] \in T[Max(s) - 1]
      BY <2>3, <2>4, <2>5 DEF IsFold
    <3> QED BY <2>1, <3>1
  <2>6. Is(g)
    BY <2>3, <2>5 DEF IsFold
  <2> QED BY <2>6
<1>4. Is(f)
  BY <1>3
<1>5. OptimizedIn(cs, order) = f[1..m]
  BY <1>1 DEF OptimizedIn, FoldLeft, MapThenFoldSet
<1> HIDE DEF f
<1>6. a[0] = [contexts |-> cs, beforeContext |-> FALSE]
  <2>1. 1..0 \in SUBSET (1..m) /\ 1..0 = {} /\ 0 \in 0..m
    BY <1>1
  <2> QED BY <1>4, <2>1
<1>7. ASSUME NEW k \in 1..m PROVE a[k] = OptimizeContext(a[k - 1], order[k])
  <2>1. k \in Nat /\ k # 0 /\ k \in 0..m /\ k - 1 \in 0..m /\ 1..k \in SUBSET (1..m)
    BY <1>1
  <2>2. Max(1..k) = k /\ (1..k) \ {Max(1..k)} = 1..(k - 1) /\ 1..k # {}
    BY <2>1, Segments
  <2>3. f[1..k] = OptimizeContext(f[1..(k - 1)], order[k])
    BY <1>4, <2>1, <2>2
  <2> QED BY <2>1, <2>3
<1>8. a[m] = f[1..m]
  BY <1>1
<1> HIDE DEF a
<1> QED BY <1>5, <1>6, <1>7, <1>8 DEF AreOptimizeSteps

LEMMA OptimizedIs ==
  ASSUME NEW n, NEW known, NEW cs \in Seq(WholeContexts(n, known)), FallOn(cs)
  PROVE  Optimized(cs) \in Seq(WholeContexts(n, known)) /\ FallOn(Optimized(cs))
<1> DEFINE W == WholeContexts(n, known)
           m == Len(cs)
           order == Reverse([i \in DOMAIN cs |-> i])
           base == [contexts |-> cs, beforeContext |-> FALSE]
           T == [k \in 0..m |-> Optimizing(W, m - k)]
<1>0. DOMAIN cs = 1..m /\ m \in Nat
  OBVIOUS
<1>1. DOMAIN order = 1..m /\ Len(order) = m /\ \A k \in 1..m : order[k] = m - k + 1
  <2> DEFINE positions == [i \in 1..m |-> i]
  <2>1. Len(positions) = m /\ \A i \in 1..m : positions[i] = i
    BY <1>0
  <2>2. order = Reverse(positions)
    BY <1>0
  <2> HIDE DEF positions, order, m
  <2>3. order = [j \in 1..m |-> positions[m - j + 1]]
    BY <2>1, <2>2 DEF Reverse
  <2>4. \A j \in 1..m : m - j + 1 \in 1..m
    BY <1>0
  <2> QED BY <1>0, <2>1, <2>3, <2>4
<1>2. PICK a : /\ a[0] = base /\ OptimizedIn(cs, order) = a[m]
               /\ \A k \in 1..m : a[k] = OptimizeContext(a[k - 1], order[k])
  <2>1. /\ \A k \in 1..Len(cs) : order[k] = Len(cs) - k + 1
        /\ Len(order) = Len(cs) /\ DOMAIN order = 1..Len(cs)
    BY <1>0, <1>1
  <2> HIDE DEF order, base, m, W, T
  <2>2. PICK a : AreOptimizeSteps(a, cs, order)
    BY <2>1, OptimizeSteps
  <2>3. /\ a[0] = base /\ OptimizedIn(cs, order) = a[Len(order)]
        /\ \A k \in 1..Len(order) : a[k] = OptimizeContext(a[k - 1], order[k])
    BY <2>2 DEF AreOptimizeSteps, base
  <2> QED BY <1>1, <2>3
<1>3. Optimized(cs) = a[m].contexts
  BY <1>2 DEF Optimized, OptimizedIn
<1> HIDE DEF order
<1>4. base \in Optimizing(W, m)
  <2> DEFINE S == Seq(W)
  <2>1. cs \in S
    OBVIOUS
  <2> HIDE DEF S
  <2>2. base \in [contexts : S, beforeContext : BOOLEAN] /\ base.contexts = cs /\ base.beforeContext = FALSE
    BY <2>1
  <2> HIDE DEF base
  <2>3. \A i \in 1..Len(cs) : cs[i].fallthrough => i < Len(cs) /\ ~cs[i + 1].beginStage
    BY DEF FallOn
  <2>4. m = Len(cs) /\ m <= Len(base.contexts) /\ m \in Nat
    BY <1>0, <2>2
  <2> HIDE DEF m, W
  <2> QED BY <2>2, <2>3, <2>4 DEF Optimizing, S
<1> HIDE DEF base
<1>5. \A k \in 0..m : T[k] = Optimizing(W, m - k)
  OBVIOUS
<1> HIDE DEF T
<1>6. \A k \in 0..m : a[k] \in T[k]
  <2>1. a[0] \in T[0]
    <3>1. 0 \in 0..m /\ m - 0 = m
      BY <1>0
    <3> QED BY <1>2, <1>4, <1>5, <3>1
  <2>2. ASSUME NEW k \in 1..m, a[k - 1] \in T[k - 1] PROVE a[k] \in T[k]
    <3>1. k \in 0..m /\ k - 1 \in 0..m /\ order[k] = m - k + 1
      BY <1>0, <1>1
    <3>2. /\ m - k + 1 \in Nat /\ m - k + 1 > 0 /\ m - (k - 1) = m - k + 1 /\ (m - k + 1) - 1 = m - k
      BY <1>0
    <3> DEFINE p == m - k + 1
    <3>3. a[k - 1] \in Optimizing(W, p)
      BY <1>5, <2>2, <3>1, <3>2
    <3>4. p \in Nat /\ p > 0 /\ order[k] = p /\ p - 1 = m - k
      BY <3>1, <3>2
    <3> HIDE DEF p
    <3>5. OptimizeContext(a[k - 1], p) \in Optimizing(W, p - 1)
      BY <3>3, <3>4, OptimizeContextIs
    <3> QED BY <1>2, <1>5, <3>1, <3>4, <3>5
  <2> QED BY <1>0, <2>1, <2>2, ChainStays
<1>7. a[m] \in Optimizing(W, 0)
  <2>1. m \in 0..m /\ m - m = 0
    BY <1>0
  <2> QED BY <1>5, <1>6, <2>1
<1>8. /\ a[m].contexts \in Seq(W)
      /\ \A i \in 1..Len(a[m].contexts) :
           a[m].contexts[i].fallthrough /\ (i # 0 \/ a[m].beforeContext)
             => i < Len(a[m].contexts) /\ ~a[m].contexts[i + 1].beginStage
  BY <1>7 DEF Optimizing
<1>9. FallOn(a[m].contexts)
  BY <1>8 DEF FallOn
<1> QED BY <1>3, <1>8, <1>9

LEMMA OptimizeContextsStep == Inv /\ OptimizeContexts => Inv'
<1> SUFFICES ASSUME Inv, OptimizeContexts PROVE Inv'
  OBVIOUS
<1> DEFINE n == Len(logical)
           W == WholeContexts(n, DOMAIN commands)
           ds == Optimized(contexts)
<1>1. /\ Continues("optimize", "replace") /\ unreplaced' = n
      /\ contexts' = IF ds = << >> THEN <<NewContext>> ELSE ds
  BY DEF OptimizeContexts
<1>2. status = "optimize" /\ status' = "replace"
  BY <1>1 DEF Continues
<1>3. Remaining = n /\ Remaining' = n /\ n \in Nat
  BY <1>1, <1>2 DEF Remaining, Inv, Types, Definitions
<1>4. contexts \in Seq(W) /\ FallOn(contexts)
  BY <1>3 DEF Inv
<1>5. ds \in Seq(W) /\ FallOn(ds)
  BY <1>4, OptimizedIs
<1>6. NewContext \in W /\ NewContext.fallthrough = FALSE
  <2>1. "" \in Names /\ TRUE \in BOOLEAN /\ << >> \in SequencesWith(n)
    BY DEF Names, SequencesWith
  <2>2. NewContext \in W
    BY <2>1, NewContextIs
  <2> QED BY <2>2 DEF NewContext
<1> HIDE DEF ds, W
<1>7. contexts' \in Seq(W) /\ Len(contexts') > 0 /\ FallOn(contexts')
  <2>1. CASE ds = << >>
    <3> DEFINE c == NewContext
    <3>1. contexts' = <<c>> /\ c \in W /\ c.fallthrough = FALSE
      BY <1>1, <1>6, <2>1
    <3> HIDE DEF c
    <3> QED BY <3>1 DEF FallOn
  <2>2. CASE ds # << >>
    <3>1. Len(ds) > 0
      BY <1>5, <2>2
    <3> QED BY <1>1, <1>5, <2>2, <3>1
  <2> QED BY <2>1, <2>2
<1>8. contexts' \in Seq(WholeContexts(Remaining', DOMAIN commands)) /\ Remaining' \in 0..Len(logical)
  BY <1>3, <1>7 DEF W
<1> QED BY <1>1, <1>7, <1>8, AfterStep

-----------------------------------------------------------------------------
(* Replacing the last logical key that is left, the n-th *)

ReplacedKeys(n) ==
  [name : Names, both : {LogicalKeys[n]}, left : KeysWith(n - 1), right : KeysWith(n - 1)]

LEMMA OtherKeyIs ==
  ASSUME NEW n \in Nat, n > 0, NEW key \in KeysWith(n), key # LogicalKeys[n]
  PROVE  key \in KeysWith(n - 1)
<1>1. \A i \in 1..n : i = n \/ i \in 1..(n - 1)
  OBVIOUS
<1> QED BY <1>1 DEF KeysWith

LEMMA OtherEventIs ==
  ASSUME NEW n \in Nat, n > 0, NEW event \in Events(n), event.key # LogicalKeys[n]
  PROVE  event \in Events(n - 1)
<1>1. event.key \in KeysWith(n - 1)
  BY OtherKeyIs DEF Events
<1> QED BY <1>1 DEF Events

LEMMA UnmentionedIs ==
  ASSUME NEW n \in Nat, n > 0, NEW sequence \in SequencesWith(n), ~Mentions(sequence, LogicalKeys[n])
  PROVE  sequence \in SequencesWith(n - 1)
<1>1. sequence \in Seq(Events(n))
  BY DEF SequencesWith, Events
<1>2. \A i \in DOMAIN sequence : sequence[i] \in Events(n) /\ sequence[i].key # LogicalKeys[n]
  BY <1>1 DEF Mentions
<1>3. \A i \in DOMAIN sequence : sequence[i] \in Events(n - 1)
  BY <1>2, OtherEventIs
<1>4. sequence \in Seq(Events(n - 1))
  BY <1>1, <1>3
<1> QED BY <1>4 DEF SequencesWith, Events

LEMMA ReplaceKeyIs ==
  ASSUME NEW n \in Nat, n > 0, NEW sequence \in SequencesWith(n), NEW key \in KeysWith(n - 1)
  PROVE  ReplaceKey(sequence, LogicalKeys[n], key) \in SequencesWith(n - 1)
<1> DEFINE m == Len(sequence)
           f == [i \in DOMAIN sequence |->
                   IF sequence[i].key = LogicalKeys[n] THEN [sequence[i] EXCEPT !.key = key] ELSE sequence[i]]
<1>1. sequence \in Seq(Events(n))
  BY DEF SequencesWith, Events
<1>2. m \in Nat /\ DOMAIN sequence = 1..m /\ \A i \in 1..m : sequence[i] \in Events(n)
  BY <1>1
<1>3. ASSUME NEW i \in 1..m
      PROVE  (IF sequence[i].key = LogicalKeys[n] THEN [sequence[i] EXCEPT !.key = key]
              ELSE sequence[i]) \in Events(n - 1)
  <2>1. sequence[i] \in Events(n)
    BY <1>2
  <2>2. [sequence[i] EXCEPT !.key = key] \in Events(n - 1)
    BY <2>1 DEF Events
  <2> QED BY <2>1, <2>2, OtherEventIs
<1>4. f \in [1..m -> Events(n - 1)]
  BY <1>2, <1>3
<1>5. ReplaceKey(sequence, LogicalKeys[n], key) = SubSeq(f, 1, m)
  BY DEF ReplaceKey, Map
<1> HIDE DEF f, m
<1>6. SubSeq(f, 1, m) \in Seq(Events(n - 1))
  BY <1>2, <1>4, MapIs
<1> QED BY <1>5, <1>6 DEF SequencesWith, Events

LEMMA ReplaceNotKeyIs ==
  ASSUME NEW n \in Nat, n > 0, NEW sequence \in SequencesWith(n), NEW key \in ReplacedKeys(n)
  PROVE  /\ ReplaceNotKey(sequence, key) \in SequencesWith(n)
         /\ sequence = << >> => ReplaceNotKey(sequence, key) = << >>
<1> DEFINE m == Len(sequence)
           S == Seq(Events(n))
           f == [i \in DOMAIN sequence |->
                   IF sequence[i] = NotKey(key.both) THEN <<NotKey(key.left), NotKey(key.right)>>
                   ELSE <<sequence[i]>>]
           ss == SubSeq(f, 1, m)
<1>1. sequence \in Seq(Events(n))
  BY DEF SequencesWith, Events
<1>2. m \in Nat /\ DOMAIN sequence = 1..m /\ \A i \in 1..m : sequence[i] \in Events(n)
  BY <1>1
<1>3. NotKey(key.left) \in Events(n) /\ NotKey(key.right) \in Events(n)
  <2>1. n - 1 \in Nat /\ n - 1 <= n
    OBVIOUS
  <2>2. key.left \in KeysWith(n) /\ key.right \in KeysWith(n)
    BY <2>1, KeysGrow DEF ReplacedKeys
  <2> QED BY <2>2, EventIs
<1>4. \A a, b \in Events(n) : <<a, b>> \in S /\ <<a>> \in S
  OBVIOUS
<1> HIDE DEF S
<1>5. f \in [1..m -> S]
  BY <1>2, <1>3, <1>4
<1>6. ReplaceNotKey(sequence, key) = FlattenSeq(ss)
  BY DEF ReplaceNotKey, Map
<1> HIDE DEF f, m
<1>7. ss \in Seq(S) /\ ss = f /\ Len(ss) = m
  BY <1>2, <1>5, MapIs
<1> HIDE DEF ss
<1>8. FlattenSeq(ss) \in Seq(Events(n))
  BY <1>7, FlattenParts DEF S
<1>9. sequence = << >> => FlattenSeq(ss) = << >>
  <2> SUFFICES ASSUME sequence = << >> PROVE FlattenSeq(ss) = << >>
    OBVIOUS
  <2>1. Len(ss) = 0
    BY <1>7 DEF m
  <2> QED BY <2>1 DEF FlattenSeq
<1> QED BY <1>6, <1>8, <1>9 DEF SequencesWith, Events

LEMMA ElementsAre ==
  ASSUME NEW n
  PROVE  /\ \A inputs \in InputsWith(n) : \A i \in DOMAIN inputs : inputs[i] \in Inputs(n)
         /\ \A outputs \in CommandsWith(n) : \A i \in DOMAIN outputs : outputs[i] \in CommandOutputs(n)
<1> DEFINE I == Inputs(n)
           C == CommandOutputs(n)
<1>1. InputsWith(n) = Seq(I) /\ CommandsWith(n) = Seq(C)
  BY DEF InputsWith, Inputs, CommandsWith, CommandOutputs
<1> HIDE DEF I, C
<1>2. \A s \in Seq(I) : \A i \in DOMAIN s : s[i] \in I
  OBVIOUS
<1>3. \A s \in Seq(C) : \A i \in DOMAIN s : s[i] \in C
  OBVIOUS
<1> QED BY <1>1, <1>2, <1>3 DEF I, C

\* A sequence of sequences, inputs and outputs of commands with other key events.
LEMMA OtherOutputsAre ==
  ASSUME NEW m \in Nat, NEW n \in Nat, NEW outputs \in OutputsWith(m), NEW f,
         f = [i \in DOMAIN outputs |-> f[i]], \A i \in DOMAIN outputs : f[i] \in SequencesWith(n)
  PROVE  /\ SubSeq(f, 1, Len(outputs)) \in OutputsWith(n)
         /\ Len(SubSeq(f, 1, Len(outputs))) = Len(outputs)
         /\ SubSeq(f, 1, Len(outputs)) = f
<1> DEFINE S == SequencesWith(n)
<1>1. outputs \in Seq(SequencesWith(m))
  BY DEF OutputsWith
<1> HIDE DEF S
<1>2. DOMAIN outputs = 1..Len(outputs) /\ Len(outputs) \in Nat
  BY <1>1
<1>3. f \in [1..Len(outputs) -> S]
  BY <1>2 DEF S
<1>4. f \in Seq(S) /\ Len(f) = Len(outputs) /\ SubSeq(f, 1, Len(outputs)) = f
  BY <1>2, <1>3, MapIs
<1> QED BY <1>4 DEF OutputsWith, S

LEMMA OtherInputsAre ==
  ASSUME NEW m \in Nat, NEW n \in Nat, NEW inputs \in InputsWith(m), NEW f,
         f = [i \in DOMAIN inputs |-> f[i]],
         \A i \in DOMAIN inputs : f[i] \in Inputs(n) /\ f[i].output = inputs[i].output
  PROVE  /\ SubSeq(f, 1, Len(inputs)) \in InputsWith(n)
         /\ Len(SubSeq(f, 1, Len(inputs))) = Len(inputs)
         /\ \A i \in 1..Len(inputs) : SubSeq(f, 1, Len(inputs))[i].output = inputs[i].output
<1> DEFINE I == Inputs(n)
<1>1. inputs \in Seq(Inputs(m))
  BY DEF InputsWith, Inputs
<1> HIDE DEF I
<1>2. DOMAIN inputs = 1..Len(inputs) /\ Len(inputs) \in Nat
  BY <1>1
<1>3. f \in [1..Len(inputs) -> I]
  BY <1>2 DEF I
<1>4. f \in Seq(I) /\ Len(f) = Len(inputs) /\ SubSeq(f, 1, Len(inputs)) = f
  BY <1>2, <1>3, MapIs
<1> QED BY <1>2, <1>4 DEF InputsWith, Inputs, I

LEMMA OtherCommandOutputsAre ==
  ASSUME NEW m \in Nat, NEW n \in Nat, NEW outputs \in CommandsWith(m), NEW f,
         f = [i \in DOMAIN outputs |-> f[i]], \A i \in DOMAIN outputs : f[i] \in CommandOutputs(n)
  PROVE  SubSeq(f, 1, Len(outputs)) \in CommandsWith(n) /\ SubSeq(f, 1, Len(outputs)) = f
<1> DEFINE C == CommandOutputs(n)
<1>1. outputs \in Seq(CommandOutputs(m))
  BY DEF CommandsWith, CommandOutputs
<1> HIDE DEF C
<1>2. DOMAIN outputs = 1..Len(outputs) /\ Len(outputs) \in Nat
  BY <1>1
<1>3. f \in [1..Len(outputs) -> C]
  BY <1>2 DEF C
<1>4. f \in Seq(C) /\ SubSeq(f, 1, Len(outputs)) = f
  BY <1>2, <1>3, MapIs
<1> QED BY <1>4 DEF CommandsWith, CommandOutputs, C

\* All parts of a context are replaced.
WithParts(c, inputs, outputs, commandOutputs, modifier) ==
  [c EXCEPT !.inputs = inputs, !.outputs = outputs, !.commandOutputs = commandOutputs,
            !.modifier = modifier]

\* Contexts of which the modifier filters are not yet replaced, if n is more than m.
PartlyReplaced(m, n, known) ==
  { c \in [filter : Names, system : BOOLEAN, modifier : SequencesWith(n), invert : BOOLEAN,
           fallthrough : BOOLEAN, beginStage : BOOLEAN,
           inputs : InputsWith(m), outputs : OutputsWith(m), commandOutputs : CommandsWith(m)] :
      AllThere(c.inputs, Len(c.outputs), known) /\ (c.beginStage => c.modifier = << >>) }

LEMMA PartlyReplacedIs ==
  ASSUME NEW n, NEW known
  PROVE  PartlyReplaced(n, n, known) = WholeContexts(n, known)
<1>1. ASSUME NEW c \in ContextsWith(n)
      PROVE  AllThere(c.inputs, Len(c.outputs), known)
               <=> \A i \in 1..Len(c.inputs) : IsThere(c, c.inputs[i].output, known)
  <2>1. Len(c.outputs) \in Nat /\ \A i \in 1..Len(c.inputs) : c.inputs[i].output \in Int
    BY ContextParts
  <2>2. ASSUME NEW i \in 1..Len(c.inputs)
        PROVE  HasOutput(c.inputs[i].output, Len(c.outputs), known) <=> IsThere(c, c.inputs[i].output, known)
    <3> DEFINE index == c.inputs[i].output
    <3>1. index \in Int /\ Len(c.outputs) \in Nat
      BY <2>1
    <3> HIDE DEF index
    <3>2. HasOutput(index, Len(c.outputs), known) <=> IsThere(c, index, known)
      BY <3>1 DEF HasOutput, IsThere
    <3> QED BY <3>2 DEF index
  <2> QED BY <2>2 DEF AllThere
<1>2. \A c : c \in PartlyReplaced(n, n, known) <=> c \in WholeContexts(n, known)
  BY <1>1 DEF PartlyReplaced, WholeContexts, ContextsWith
<1> QED BY <1>2 DEF PartlyReplaced, WholeContexts

LEMMA WithPartsIs ==
  ASSUME NEW m, NEW n, NEW k, NEW l, NEW known, NEW c \in PartlyReplaced(k, l, known),
         NEW inputs \in InputsWith(m), NEW outputs \in OutputsWith(m),
         NEW commandOutputs \in CommandsWith(m), NEW modifier \in SequencesWith(n),
         AllThere(inputs, Len(outputs), known), c.modifier = << >> => modifier = << >>
  PROVE  /\ WithParts(c, inputs, outputs, commandOutputs, modifier) \in PartlyReplaced(m, n, known)
         /\ WithParts(c, inputs, outputs, commandOutputs, modifier).fallthrough = c.fallthrough
         /\ WithParts(c, inputs, outputs, commandOutputs, modifier).beginStage = c.beginStage
         /\ WithParts(c, inputs, outputs, commandOutputs, modifier).modifier = modifier
<1> DEFINE d == WithParts(c, inputs, outputs, commandOutputs, modifier)
<1>1. c \in [filter : Names, system : BOOLEAN, modifier : SequencesWith(l), invert : BOOLEAN,
             fallthrough : BOOLEAN, beginStage : BOOLEAN,
             inputs : InputsWith(k), outputs : OutputsWith(k), commandOutputs : CommandsWith(k)]
  BY DEF PartlyReplaced
<1>2. c.beginStage => c.modifier = << >>
  BY DEF PartlyReplaced
<1>3. /\ d \in [filter : Names, system : BOOLEAN, modifier : SequencesWith(n), invert : BOOLEAN,
                fallthrough : BOOLEAN, beginStage : BOOLEAN,
                inputs : InputsWith(m), outputs : OutputsWith(m), commandOutputs : CommandsWith(m)]
      /\ d.inputs = inputs /\ d.outputs = outputs /\ d.modifier = modifier
      /\ d.fallthrough = c.fallthrough /\ d.beginStage = c.beginStage
  BY <1>1 DEF WithParts
<1> HIDE DEF d
<1>4. d \in PartlyReplaced(m, n, known)
  BY <1>2, <1>3 DEF PartlyReplaced
<1> QED BY <1>3, <1>4 DEF d

LEMMA ReplacedNotsIs ==
  ASSUME NEW n \in Nat, n > 0, NEW known, NEW c \in WholeContexts(n, known), NEW key \in ReplacedKeys(n)
  PROVE  /\ ReplacedNots(c, key) \in WholeContexts(n, known)
         /\ ReplacedNots(c, key).fallthrough = c.fallthrough
         /\ ReplacedNots(c, key).beginStage = c.beginStage
<1> DEFINE f == [i \in DOMAIN c.inputs |-> [c.inputs[i] EXCEPT !.input = ReplaceNotKey(@, key)]]
           g == [i \in DOMAIN c.outputs |-> ReplaceNotKey(c.outputs[i], key)]
           h == [i \in DOMAIN c.commandOutputs |->
                   [c.commandOutputs[i] EXCEPT !.output = ReplaceNotKey(@, key)]]
           inputs == SubSeq(f, 1, Len(c.inputs))
           outputs == SubSeq(g, 1, Len(c.outputs))
           commandOutputs == SubSeq(h, 1, Len(c.commandOutputs))
           modifier == ReplaceNotKey(c.modifier, key)
<1>1. /\ c \in PartlyReplaced(n, n, known) /\ c \in ContextsWith(n)
      /\ c.inputs \in InputsWith(n) /\ c.outputs \in OutputsWith(n)
      /\ c.commandOutputs \in CommandsWith(n) /\ c.modifier \in SequencesWith(n)
      /\ AllThere(c.inputs, Len(c.outputs), known)
  BY PartlyReplacedIs DEF PartlyReplaced, ContextsWith
<1>2. ReplacedNots(c, key) = WithParts(c, inputs, outputs, commandOutputs, modifier)
  BY <1>1 DEF ReplacedNots, WithParts, Map, ContextsWith
<1>3. \A i \in DOMAIN c.inputs : f[i] \in Inputs(n) /\ f[i].output = c.inputs[i].output
  <2> SUFFICES ASSUME NEW i \in DOMAIN c.inputs
               PROVE  f[i] \in Inputs(n) /\ f[i].output = c.inputs[i].output
    OBVIOUS
  <2>1. c.inputs[i] \in Inputs(n)
    BY <1>1, ElementsAre
  <2>2. ReplaceNotKey(c.inputs[i].input, key) \in SequencesWith(n)
    BY <2>1, ReplaceNotKeyIs DEF Inputs
  <2> QED BY <2>1, <2>2 DEF Inputs
<1>4. \A i \in DOMAIN c.outputs : g[i] \in SequencesWith(n)
  <2> SUFFICES ASSUME NEW i \in DOMAIN c.outputs PROVE g[i] \in SequencesWith(n)
    OBVIOUS
  <2>1. c.outputs[i] \in SequencesWith(n)
    BY <1>1 DEF OutputsWith
  <2> QED BY <2>1, ReplaceNotKeyIs
<1>5. \A i \in DOMAIN c.commandOutputs : h[i] \in CommandOutputs(n)
  <2> SUFFICES ASSUME NEW i \in DOMAIN c.commandOutputs PROVE h[i] \in CommandOutputs(n)
    OBVIOUS
  <2>1. c.commandOutputs[i] \in CommandOutputs(n)
    BY <1>1, ElementsAre
  <2>2. ReplaceNotKey(c.commandOutputs[i].output, key) \in SequencesWith(n)
    BY <2>1, ReplaceNotKeyIs DEF CommandOutputs
  <2> QED BY <2>1, <2>2 DEF CommandOutputs
<1>6. /\ f = [i \in DOMAIN c.inputs |-> f[i]] /\ g = [i \in DOMAIN c.outputs |-> g[i]]
      /\ h = [i \in DOMAIN c.commandOutputs |-> h[i]]
  OBVIOUS
<1> HIDE DEF f, g, h
<1>7. /\ inputs \in InputsWith(n) /\ Len(inputs) = Len(c.inputs)
      /\ \A i \in 1..Len(c.inputs) : inputs[i].output = c.inputs[i].output
  <2> DEFINE before == c.inputs
  <2>1. /\ before \in InputsWith(n) /\ f = [i \in DOMAIN before |-> f[i]]
        /\ \A i \in DOMAIN before : f[i] \in Inputs(n) /\ f[i].output = before[i].output
    BY <1>1, <1>3, <1>6
  <2> HIDE DEF before
  <2>2. /\ SubSeq(f, 1, Len(before)) \in InputsWith(n)
        /\ Len(SubSeq(f, 1, Len(before))) = Len(before)
        /\ \A i \in 1..Len(before) : SubSeq(f, 1, Len(before))[i].output = before[i].output
    BY <2>1, OtherInputsAre
  <2> QED BY <2>2 DEF before
<1>8. outputs \in OutputsWith(n) /\ Len(outputs) = Len(c.outputs)
  BY <1>1, <1>4, <1>6, OtherOutputsAre
<1>9. commandOutputs \in CommandsWith(n)
  BY <1>1, <1>5, <1>6, OtherCommandOutputsAre
<1>10. modifier \in SequencesWith(n) /\ (c.modifier = << >> => modifier = << >>)
  BY <1>1, ReplaceNotKeyIs
<1> HIDE DEF inputs, outputs, commandOutputs, modifier
<1>11. AllThere(inputs, Len(outputs), known)
  BY <1>1, <1>7, <1>8 DEF AllThere
<1> DEFINE d == WithParts(c, inputs, outputs, commandOutputs, modifier)
<1>12. d \in PartlyReplaced(n, n, known) /\ d.fallthrough = c.fallthrough /\ d.beginStage = c.beginStage
  BY <1>1, <1>7, <1>8, <1>9, <1>10, <1>11, WithPartsIs
<1> HIDE DEF d
<1>13. d \in WholeContexts(n, known)
  BY <1>12, PartlyReplacedIs
<1> QED BY <1>2, <1>12, <1>13 DEF d

\* An input more, also in a context with more outputs.
LEMMA InputsGrow ==
  ASSUME NEW n, NEW known, NEW inputs \in InputsWith(n), NEW size \in Nat, NEW more \in Nat, size <= more,
         AllThere(inputs, size, known), NEW in \in Inputs(n), HasOutput(in.output, more, known)
  PROVE  Append(inputs, in) \in InputsWith(n) /\ AllThere(Append(inputs, in), more, known)
<1> DEFINE I == Inputs(n)
           new == Append(inputs, in)
<1>1. inputs \in Seq(I)
  BY DEF InputsWith, Inputs
<1>2. \A i \in I : i.output \in Int
  BY DEF Inputs
<1> HIDE DEF I
<1>3. /\ new \in Seq(I) /\ Len(new) = Len(inputs) + 1 /\ new[Len(inputs) + 1] = in
      /\ \A i \in 1..Len(inputs) : new[i] = inputs[i] /\ inputs[i] \in I
  BY <1>1 DEF I
<1>4. Len(inputs) \in Nat
  BY <1>1
<1> HIDE DEF new
<1>5. ASSUME NEW i \in 1..Len(new) PROVE HasOutput(new[i].output, more, known)
  <2>1. CASE i = Len(inputs) + 1
    BY <1>3, <2>1
  <2>2. CASE i # Len(inputs) + 1
    <3>1. i \in 1..Len(inputs)
      BY <1>3, <1>4, <2>2
    <3>2. new[i] = inputs[i] /\ HasOutput(inputs[i].output, size, known) /\ inputs[i].output \in Int
      BY <1>2, <1>3, <3>1 DEF AllThere
    <3> QED BY <3>2 DEF HasOutput
  <2> QED BY <2>1, <2>2
<1> QED BY <1>3, <1>5 DEF AllThere, InputsWith, Inputs, I, new

LEMMA TwoInputsGrow ==
  ASSUME NEW n, NEW known, NEW inputs \in InputsWith(n), NEW size \in Nat, NEW more \in Nat, size <= more,
         AllThere(inputs, size, known), NEW a \in Inputs(n), HasOutput(a.output, more, known),
         NEW b \in Inputs(n), HasOutput(b.output, more, known)
  PROVE  inputs \o <<a, b>> \in InputsWith(n) /\ AllThere(inputs \o <<a, b>>, more, known)
<1> DEFINE I == Inputs(n)
           one == Append(inputs, a)
<1>1. one \in InputsWith(n) /\ AllThere(one, more, known)
  BY InputsGrow
<1>2. inputs \in Seq(I)
  BY DEF InputsWith, Inputs
<1>3. inputs \o <<a, b>> = Append(one, b)
  <2> HIDE DEF I
  <2>1. a \in I /\ b \in I
    BY DEF I
  <2> QED BY <1>2, <2>1
<1> HIDE DEF one
<1>4. Append(one, b) \in InputsWith(n) /\ AllThere(Append(one, b), more, known)
  BY <1>1, InputsGrow
<1> QED BY <1>3, <1>4

\* The inputs that were looked at, and outputs with those that were added.
Duplicating(n, size, known) ==
  { acc \in [inputs : InputsWith(n - 1), outputs : OutputsWith(n)] :
      size <= Len(acc.outputs) /\ AllThere(acc.inputs, Len(acc.outputs), known) }

LEMMA DuplicatedIs ==
  ASSUME NEW n \in Nat, n > 0, NEW known, NEW size \in Nat, NEW acc \in Duplicating(n, size, known),
         NEW in \in Inputs(n), HasOutput(in.output, size, known), NEW key \in ReplacedKeys(n)
  PROVE  Duplicated(acc, in, key) \in Duplicating(n, size, known)
<1> DEFINE both == LogicalKeys[n]
           S == SequencesWith(n)
           left == [in EXCEPT !.input = ReplaceKey(@, both, key.left)]
           right == [in EXCEPT !.input = ReplaceKey(@, both, key.right)]
           len == Len(acc.outputs)
           out == in.output
<1>1. /\ acc \in [inputs : InputsWith(n - 1), outputs : OutputsWith(n)]
      /\ acc.inputs \in InputsWith(n - 1) /\ acc.outputs \in Seq(S) /\ size <= len
      /\ AllThere(acc.inputs, len, known)
  BY DEF Duplicating, OutputsWith
<1>2. len \in Nat
  BY <1>1
<1>3. in.input \in SequencesWith(n) /\ out \in Int
  BY DEF Inputs
<1>4. key.both = both /\ key.left \in KeysWith(n - 1) /\ key.right \in KeysWith(n - 1)
  BY DEF ReplacedKeys
<1>5. HasOutput(out, len, known) /\ HasOutput(out, len + 1, known) /\ HasOutput(len, len + 1, known)
  BY <1>1, <1>2, <1>3 DEF HasOutput
<1>6. /\ left \in Inputs(n - 1) /\ left.output = out
      /\ right \in Inputs(n - 1) /\ right.output = out
  <2>1. /\ ReplaceKey(in.input, both, key.left) \in SequencesWith(n - 1)
        /\ ReplaceKey(in.input, both, key.right) \in SequencesWith(n - 1)
    BY <1>3, <1>4, ReplaceKeyIs
  <2> QED BY <1>3, <2>1 DEF Inputs
<1>7. Duplicated(acc, in, key) =
        IF ~Mentions(in.input, both) THEN [acc EXCEPT !.inputs = Append(@, in)]
        ELSE IF out >= 0 /\ Mentions(acc.outputs[out + 1], both)
        THEN [inputs  |-> acc.inputs \o <<left, [right EXCEPT !.output = len]>>,
              outputs |-> Append(acc.outputs, ReplaceKey(acc.outputs[out + 1], both, key.right))]
        ELSE [acc EXCEPT !.inputs = @ \o <<left, right>>]
  BY <1>4 DEF Duplicated
<1>8. CASE ~Mentions(in.input, both)
  <2>1. in \in Inputs(n - 1)
    <3>1. in.input \in SequencesWith(n - 1)
      BY <1>3, <1>8, UnmentionedIs
    <3> QED BY <1>3, <3>1 DEF Inputs
  <2> DEFINE inputs == Append(acc.inputs, in)
  <2>2. inputs \in InputsWith(n - 1) /\ AllThere(inputs, len, known)
    <3> HIDE DEF len
    <3>1. len <= len /\ HasOutput(in.output, len, known)
      BY <1>2, <1>5
    <3> QED BY <1>1, <1>2, <2>1, <3>1, InputsGrow
  <2>3. Duplicated(acc, in, key) = [inputs |-> inputs, outputs |-> acc.outputs]
    BY <1>1, <1>7, <1>8
  <2> HIDE DEF inputs
  <2> QED BY <1>1, <2>2, <2>3 DEF Duplicating
<1>9. CASE Mentions(in.input, both) /\ out >= 0 /\ Mentions(acc.outputs[out + 1], both)
  <2> DEFINE other == [right EXCEPT !.output = len]
             inputs == acc.inputs \o <<left, other>>
             output == ReplaceKey(acc.outputs[out + 1], both, key.right)
             outputs == Append(acc.outputs, output)
  <2>1. other \in Inputs(n - 1) /\ other.output = len
    <3> HIDE DEF right
    <3> QED BY <1>2, <1>6 DEF Inputs
  <2>2. output \in S
    <3>1. out + 1 \in DOMAIN acc.outputs
      BY <1>1, <1>2, <1>3, <1>5, <1>9 DEF HasOutput
    <3>2. acc.outputs[out + 1] \in S
      <4> HIDE DEF S
      <4> QED BY <1>1, <3>1
    <3>3. output \in SequencesWith(n - 1)
      BY <1>4, <3>2, ReplaceKeyIs
    <3>4. n - 1 \in Nat /\ n - 1 <= n
      OBVIOUS
    <3> QED BY <3>3, <3>4, KeysGrow
  <2> HIDE DEF output, S, left, other, out
  <2>3. outputs \in Seq(S) /\ Len(outputs) = len + 1
    BY <1>1, <2>2
  <2>4. inputs \in InputsWith(n - 1) /\ AllThere(inputs, len + 1, known)
    <3>1. len + 1 \in Nat /\ len <= len + 1
      BY <1>2
    <3>2. HasOutput(left.output, len + 1, known) /\ HasOutput(other.output, len + 1, known)
      BY <1>5, <1>6, <2>1
    <3> QED BY <1>1, <1>2, <1>6, <2>1, <3>1, <3>2, TwoInputsGrow
  <2>5. Duplicated(acc, in, key) = [inputs |-> inputs, outputs |-> outputs]
    BY <1>7, <1>9 DEF left, other, output, out
  <2> HIDE DEF inputs, outputs
  <2>6. outputs \in OutputsWith(n) /\ size <= Len(outputs)
    BY <1>1, <1>2, <2>3 DEF OutputsWith, S
  <2> QED BY <2>3, <2>4, <2>5, <2>6 DEF Duplicating
<1>10. CASE Mentions(in.input, both) /\ ~(out >= 0 /\ Mentions(acc.outputs[out + 1], both))
  <2> DEFINE inputs == acc.inputs \o <<left, right>>
  <2>1. Duplicated(acc, in, key) = [inputs |-> inputs, outputs |-> acc.outputs]
    BY <1>1, <1>7, <1>10
  <2> HIDE DEF left, right, out
  <2>2. inputs \in InputsWith(n - 1) /\ AllThere(inputs, len, known)
    <3>1. len <= len /\ HasOutput(left.output, len, known) /\ HasOutput(right.output, len, known)
      BY <1>2, <1>5, <1>6
    <3> HIDE DEF len
    <3> QED BY <1>1, <1>2, <1>6, <3>1, TwoInputsGrow
  <2> HIDE DEF inputs
  <2> QED BY <1>1, <2>1, <2>2 DEF Duplicating
<1> QED BY <1>8, <1>9, <1>10

LEMMA DuplicatingIs ==
  ASSUME NEW n \in Nat, n > 0, NEW known, NEW c \in PartlyReplaced(n, n, known), NEW key \in ReplacedKeys(n)
  PROVE  /\ Len(c.inputs) \in Nat /\ DOMAIN c.inputs = 1..Len(c.inputs) /\ Len(c.outputs) \in Nat
         /\ [inputs |-> << >>, outputs |-> c.outputs] \in Duplicating(n, Len(c.outputs), known)
         /\ \A i \in 1..Len(c.inputs) : \A x \in Duplicating(n, Len(c.outputs), known) :
              Duplicated(x, c.inputs[i], key) \in Duplicating(n, Len(c.outputs), known)
<1>1. /\ c.inputs \in InputsWith(n) /\ c.outputs \in OutputsWith(n)
      /\ AllThere(c.inputs, Len(c.outputs), known)
  BY DEF PartlyReplaced
<1>2. Len(c.inputs) \in Nat /\ DOMAIN c.inputs = 1..Len(c.inputs) /\ Len(c.outputs) \in Nat
  <2>1. c \in ContextsWith(n)
    BY PartlyReplacedIs DEF WholeContexts
  <2> QED BY <2>1, ContextParts
<1>3. [inputs |-> << >>, outputs |-> c.outputs] \in Duplicating(n, Len(c.outputs), known)
  <2>1. << >> \in InputsWith(n - 1) /\ AllThere(<< >>, Len(c.outputs), known)
    BY DEF InputsWith, AllThere
  <2> QED BY <1>1, <1>2, <2>1 DEF Duplicating
<1>4. ASSUME NEW i \in 1..Len(c.inputs), NEW x \in Duplicating(n, Len(c.outputs), known)
      PROVE  Duplicated(x, c.inputs[i], key) \in Duplicating(n, Len(c.outputs), known)
  <2>1. c.inputs[i] \in Inputs(n) /\ HasOutput(c.inputs[i].output, Len(c.outputs), known)
    BY <1>1, <1>2, ElementsAre DEF AllThere
  <2> QED BY <1>2, <2>1, DuplicatedIs
<1> QED BY <1>2, <1>3, <1>4

\* The steps of DuplicatedAll.
LEMMA DuplicatedSteps ==
  ASSUME NEW n \in Nat, n > 0, NEW known, NEW c \in PartlyReplaced(n, n, known), NEW key \in ReplacedKeys(n)
  PROVE  \E a : /\ a[0] = [inputs |-> << >>, outputs |-> c.outputs] /\ DuplicatedAll(c, key) = a[Len(c.inputs)]
                /\ \A k \in 1..Len(c.inputs) : a[k] = Duplicated(a[k - 1], c.inputs[k], key)
<1> DEFINE m == Len(c.inputs)
           A == Duplicating(n, Len(c.outputs), known)
           base == [inputs |-> << >>, outputs |-> c.outputs]
           T == [k \in 0..m |-> A]
           G == [k \in 1..m |-> [x \in T[k - 1] |-> Duplicated(x, c.inputs[k], key)]]
           Is(f) == f = [s \in SUBSET (1..m) |->
                           IF s = {} THEN [inputs |-> << >>, outputs |-> c.outputs] ELSE Duplicated(f[s \ {Max(s)}], c.inputs[Max(s)], key)]
           f == CHOOSE f : Is(f)
           a == [k \in 0..m |-> f[1..k]]
<1>1. /\ m \in Nat /\ DOMAIN c.inputs = 1..m /\ base \in A
      /\ \A i \in 1..m : \A x \in A : Duplicated(x, c.inputs[i], key) \in A
  BY DuplicatingIs
<1>2. /\ [inputs |-> << >>, outputs |-> c.outputs] \in T[0]
      /\ \A i \in 1..m : T[i - 1] \subseteq T[i]
      /\ \A i \in 1..m : \A x \in T[i - 1] : Duplicated(x, c.inputs[i], key) \in T[i]
  <2>1. \A k \in 0..m : T[k] = A
    OBVIOUS
  <2>2. 0 \in 0..m /\ \A i \in 1..m : i \in 0..m /\ i - 1 \in 0..m
    BY <1>1
  <2> HIDE DEF T, A
  <2> QED BY <1>1, <2>1, <2>2
<1>3. \E g : Is(g)
  <2>1. \A i \in 1..m : \A x \in T[i - 1] : G[i][x] = Duplicated(x, c.inputs[i], key)
    OBVIOUS
  <2> HIDE DEF T, G
  <2>2. \A i \in 1..m : \A x \in T[i - 1] : G[i][x] \in T[i]
    BY <1>2, <2>1
  <2>3. PICK g : IsFold(g, m, [inputs |-> << >>, outputs |-> c.outputs], T, G)
    BY <1>1, <1>2, <2>2, FoldExists
  <2>4. \A s \in SUBSET (1..m) : s # {} => Max(s) \in 1..m
    BY <1>1, LastOfPositions
  <2>5. ASSUME NEW s \in SUBSET (1..m), s # {}
        PROVE  G[Max(s)][g[s \ {Max(s)}]] = Duplicated(g[s \ {Max(s)}], c.inputs[Max(s)], key)
    <3>1. Max(s) \in 1..m /\ g[s \ {Max(s)}] \in T[Max(s) - 1]
      BY <2>3, <2>4, <2>5 DEF IsFold
    <3> QED BY <2>1, <3>1
  <2>6. Is(g)
    BY <2>3, <2>5 DEF IsFold
  <2> QED BY <2>6
<1>4. Is(f)
  BY <1>3
<1>5. DuplicatedAll(c, key) = f[1..m]
  BY <1>1 DEF DuplicatedAll, FoldLeft, MapThenFoldSet
<1> HIDE DEF f
<1>6. a[0] = [inputs |-> << >>, outputs |-> c.outputs]
  <2>1. 1..0 \in SUBSET (1..m) /\ 1..0 = {} /\ 0 \in 0..m
    BY <1>1
  <2> QED BY <1>4, <2>1
<1>7. ASSUME NEW k \in 1..m PROVE a[k] = Duplicated(a[k - 1], c.inputs[k], key)
  <2>1. k \in Nat /\ k # 0 /\ k \in 0..m /\ k - 1 \in 0..m /\ 1..k \in SUBSET (1..m)
    BY <1>1
  <2>2. Max(1..k) = k /\ (1..k) \ {Max(1..k)} = 1..(k - 1) /\ 1..k # {}
    BY <2>1, Segments
  <2>3. f[1..k] = Duplicated(f[1..(k - 1)], c.inputs[k], key)
    BY <1>4, <2>1, <2>2
  <2> QED BY <2>1, <2>3
<1>8. a[m] = f[1..m]
  BY <1>1
<1> HIDE DEF a
<1> QED BY <1>5, <1>6, <1>7, <1>8

LEMMA DuplicatedAllIs ==
  ASSUME NEW n \in Nat, n > 0, NEW known, NEW c \in PartlyReplaced(n, n, known), NEW key \in ReplacedKeys(n)
  PROVE  DuplicatedAll(c, key) \in Duplicating(n, Len(c.outputs), known)
<1> DEFINE m == Len(c.inputs)
           base == [inputs |-> << >>, outputs |-> c.outputs]
           A == Duplicating(n, Len(c.outputs), known)
<1>1. m \in Nat /\ base \in A /\ \A i \in 1..m : \A x \in A : Duplicated(x, c.inputs[i], key) \in A
  BY DuplicatingIs
<1>2. PICK a : /\ a[0] = base /\ DuplicatedAll(c, key) = a[m]
               /\ \A k \in 1..m : a[k] = Duplicated(a[k - 1], c.inputs[k], key)
  BY DuplicatedSteps
<1> HIDE DEF A, base, m
<1>3. a[0] \in A /\ \A k \in 1..m : a[k - 1] \in A => a[k] \in A
  BY <1>1, <1>2
<1>4. \A k \in 0..m : a[k] \in A
  BY <1>1, <1>3, ChainStaysIn
<1>5. m \in 0..m
  BY <1>1
<1> QED BY <1>2, <1>4, <1>5 DEF A

LEMMA ReplacedIs ==
  ASSUME NEW n \in Nat, n > 0, NEW known, NEW c \in WholeContexts(n, known), NEW key \in ReplacedKeys(n)
  PROVE  /\ Replaced(c, key) \in PartlyReplaced(n - 1, n, known)
         /\ Replaced(c, key).fallthrough = c.fallthrough /\ Replaced(c, key).beginStage = c.beginStage
         /\ Replaced(c, key).modifier = c.modifier
<1> DEFINE duplicated == DuplicatedAll(c, key)
           both == LogicalKeys[n]
           g == [i \in DOMAIN duplicated.outputs |-> ReplaceKey(duplicated.outputs[i], key.both, key.left)]
           h == [i \in DOMAIN c.commandOutputs |->
                   [c.commandOutputs[i] EXCEPT !.output = ReplaceKey(@, key.both, key.left)]]
           outputs == SubSeq(g, 1, Len(duplicated.outputs))
           commandOutputs == SubSeq(h, 1, Len(c.commandOutputs))
<1>1. /\ c \in PartlyReplaced(n, n, known) /\ c \in ContextsWith(n) /\ c.modifier \in SequencesWith(n)
      /\ c.commandOutputs \in CommandsWith(n)
  BY PartlyReplacedIs DEF PartlyReplaced, ContextsWith
<1>2. Replaced(c, key) = WithParts(c, duplicated.inputs, outputs, commandOutputs, c.modifier)
  BY <1>1 DEF Replaced, WithParts, Map, ContextsWith
<1>3. key.both = both /\ key.left \in KeysWith(n - 1)
  BY DEF ReplacedKeys
<1>4. duplicated \in Duplicating(n, Len(c.outputs), known)
  BY <1>1, DuplicatedAllIs
<1> HIDE DEF duplicated
<1>5. /\ duplicated.inputs \in InputsWith(n - 1) /\ duplicated.outputs \in OutputsWith(n)
      /\ AllThere(duplicated.inputs, Len(duplicated.outputs), known)
  BY <1>4 DEF Duplicating
<1>6. \A i \in DOMAIN duplicated.outputs : g[i] \in SequencesWith(n - 1)
  <2> SUFFICES ASSUME NEW i \in DOMAIN duplicated.outputs PROVE g[i] \in SequencesWith(n - 1)
    OBVIOUS
  <2>1. duplicated.outputs[i] \in SequencesWith(n)
    BY <1>5 DEF OutputsWith
  <2>2. ReplaceKey(duplicated.outputs[i], key.both, key.left) \in SequencesWith(n - 1)
    BY <1>3, <2>1, ReplaceKeyIs
  <2> QED BY <2>2
<1>7. \A i \in DOMAIN c.commandOutputs : h[i] \in CommandOutputs(n - 1)
  <2> SUFFICES ASSUME NEW i \in DOMAIN c.commandOutputs PROVE h[i] \in CommandOutputs(n - 1)
    OBVIOUS
  <2>1. c.commandOutputs[i] \in CommandOutputs(n)
    BY <1>1, ElementsAre
  <2>2. ReplaceKey(c.commandOutputs[i].output, key.both, key.left) \in SequencesWith(n - 1)
    BY <1>3, <2>1, ReplaceKeyIs DEF CommandOutputs
  <2> QED BY <2>1, <2>2 DEF CommandOutputs
<1>8. /\ g = [i \in DOMAIN duplicated.outputs |-> g[i]] /\ h = [i \in DOMAIN c.commandOutputs |-> h[i]]
      /\ n - 1 \in Nat
  OBVIOUS
<1> HIDE DEF g, h
<1>9. outputs \in OutputsWith(n - 1) /\ Len(outputs) = Len(duplicated.outputs)
  <2> DEFINE before == duplicated.outputs
             r == n - 1
  <2>1. /\ before \in OutputsWith(n) /\ g = [i \in DOMAIN before |-> g[i]] /\ r \in Nat
        /\ \A i \in DOMAIN before : g[i] \in SequencesWith(r)
    BY <1>5, <1>6, <1>8
  <2> HIDE DEF before, r
  <2>2. /\ SubSeq(g, 1, Len(before)) \in OutputsWith(r)
        /\ Len(SubSeq(g, 1, Len(before))) = Len(before)
    BY <2>1, OtherOutputsAre
  <2> QED BY <2>2 DEF before, r, outputs
<1>10. commandOutputs \in CommandsWith(n - 1)
  BY <1>1, <1>7, <1>8, OtherCommandOutputsAre
<1> HIDE DEF outputs, commandOutputs
<1> DEFINE inputs == duplicated.inputs
           modifier == c.modifier
           d == WithParts(c, duplicated.inputs, outputs, commandOutputs, c.modifier)
<1>11. AllThere(duplicated.inputs, Len(outputs), known)
  BY <1>5, <1>9
<1>12. /\ d \in PartlyReplaced(n - 1, n, known)
       /\ d.fallthrough = c.fallthrough /\ d.beginStage = c.beginStage /\ d.modifier = c.modifier
  <2> DEFINE r == n - 1
  <2>1. /\ inputs \in InputsWith(r) /\ modifier \in SequencesWith(n)
        /\ outputs \in OutputsWith(r) /\ commandOutputs \in CommandsWith(r)
        /\ AllThere(inputs, Len(outputs), known)
    BY <1>1, <1>5, <1>9, <1>10, <1>11
  <2>2. c \in PartlyReplaced(n, n, known) /\ (c.modifier = << >> => modifier = << >>)
    BY <1>1
  <2>3. d = WithParts(c, inputs, outputs, commandOutputs, modifier) /\ c.modifier = modifier
    OBVIOUS
  <2> HIDE DEF inputs, modifier, d, r
  <2>4. /\ WithParts(c, inputs, outputs, commandOutputs, modifier) \in PartlyReplaced(r, n, known)
        /\ WithParts(c, inputs, outputs, commandOutputs, modifier).fallthrough = c.fallthrough
        /\ WithParts(c, inputs, outputs, commandOutputs, modifier).beginStage = c.beginStage
        /\ WithParts(c, inputs, outputs, commandOutputs, modifier).modifier = modifier
    BY <2>1, <2>2, WithPartsIs
  <2> QED BY <2>3, <2>4, Zenon DEF r
<1> QED BY <1>2, <1>12

LEMMA SplitIs ==
  ASSUME NEW n \in Nat, n > 0, NEW known, NEW c \in PartlyReplaced(n - 1, n, known), NEW key \in ReplacedKeys(n)
  PROVE  /\ Split(c, key) \in Seq(WholeContexts(n - 1, known)) /\ Len(Split(c, key)) \in 1..2
         /\ Split(c, key)[1].beginStage = c.beginStage
         /\ Split(c, key)[Len(Split(c, key))].fallthrough = c.fallthrough
         /\ \A k \in 1..Len(Split(c, key)) : k > 1 => ~Split(c, key)[k].beginStage
<1> DEFINE both == LogicalKeys[n]
           r == n - 1
           W == WholeContexts(r, known)
           left == ReplaceKey(c.modifier, both, key.left)
           right == ReplaceKey(c.modifier, both, key.right)
           first == [c EXCEPT !.modifier = left, !.fallthrough = TRUE,
                              !.inputs = << >>, !.outputs = << >>, !.commandOutputs = << >>]
           second == [c EXCEPT !.modifier = right]
           Parts(S) == [filter : Names, system : BOOLEAN, modifier : S, invert : BOOLEAN,
                        fallthrough : BOOLEAN, beginStage : BOOLEAN,
                        inputs : InputsWith(r), outputs : OutputsWith(r), commandOutputs : CommandsWith(r)]
<1>1. /\ key.both = both /\ key.left \in KeysWith(r) /\ key.right \in KeysWith(r)
  BY DEF ReplacedKeys
<1>2. /\ c \in Parts(SequencesWith(n)) /\ c.modifier \in SequencesWith(n)
      /\ AllThere(c.inputs, Len(c.outputs), known) /\ (c.beginStage => c.modifier = << >>)
  BY DEF PartlyReplaced
<1>3. \A d : /\ d \in Parts(SequencesWith(r)) /\ AllThere(d.inputs, Len(d.outputs), known)
             /\ (d.beginStage => d.modifier = << >>)
             => d \in W
  BY PartlyReplacedIs DEF PartlyReplaced
<1>4. \A d \in W : <<d>> \in Seq(W)
  <2> HIDE DEF W
  <2> QED OBVIOUS
<1>5. CASE ~Mentions(c.modifier, both)
  <2>1. c.modifier \in SequencesWith(r)
    BY <1>2, <1>5, UnmentionedIs
  <2>2. c \in Parts(SequencesWith(r))
    BY <1>2, <2>1
  <2> HIDE DEF Parts, W
  <2>3. c \in W
    BY <1>2, <1>3, <2>2
  <2>4. Split(c, key) = <<c>>
    BY <1>1, <1>5 DEF Split
  <2>5. <<c>> \in Seq(W) /\ Len(<<c>>) = 1 /\ <<c>>[1] = c
    BY <1>4, <2>3
  <2> QED BY <2>4, <2>5 DEF W, r
<1>6. CASE Mentions(c.modifier, both)
  <2>1. ~c.beginStage
    BY <1>2, <1>6 DEF Mentions
  <2>2. left \in SequencesWith(r) /\ right \in SequencesWith(r)
    BY <1>1, <1>2, ReplaceKeyIs
  <2>3. Split(c, key) = <<first, second>>
    BY <1>1, <1>6 DEF Split
  <2> HIDE DEF left, right, W
  <2>4. /\ << >> \in InputsWith(r) /\ << >> \in OutputsWith(r) /\ << >> \in CommandsWith(r)
        /\ AllThere(<< >>, 0, known)
    BY DEF InputsWith, OutputsWith, CommandsWith, AllThere
  <2>5. /\ first \in Parts(SequencesWith(r)) /\ first.inputs = << >> /\ first.outputs = << >>
        /\ first.beginStage = c.beginStage
    BY <1>2, <2>2, <2>4
  <2>6. /\ second \in Parts(SequencesWith(r)) /\ second.inputs = c.inputs /\ second.outputs = c.outputs
        /\ second.beginStage = c.beginStage /\ second.fallthrough = c.fallthrough
    BY <1>2, <2>2
  <2> HIDE DEF first, second, Parts
  <2>7. first \in W /\ second \in W
    <3>1. AllThere(first.inputs, Len(first.outputs), known)
      BY <2>4, <2>5
    <3>2. AllThere(second.inputs, Len(second.outputs), known)
      BY <1>2, <2>6
    <3>3. first \in W
      BY <1>3, <2>1, <2>5, <3>1
    <3>4. second \in W
      BY <1>3, <2>1, <2>6, <3>2
    <3> QED BY <3>3, <3>4
  <2>8. /\ <<first, second>> \in Seq(W) /\ Len(<<first, second>>) = 2
        /\ <<first, second>>[1] = first /\ <<first, second>>[2] = second
    BY <2>7
  <2>9. \A k \in 1..2 : k > 1 => k = 2
    OBVIOUS
  <2> QED BY <2>1, <2>3, <2>5, <2>6, <2>8, <2>9 DEF W, r
<1> QED BY <1>5, <1>6

\* What each context is split into falls through in itself, and on like it.
SplitsOf(ss, cs) ==
  \A i \in 1..Len(ss) :
    /\ Len(ss[i]) \in 1..2 /\ ss[i][1].beginStage = cs[i].beginStage
    /\ ss[i][Len(ss[i])].fallthrough = cs[i].fallthrough
    /\ \A k \in 1..Len(ss[i]) : k > 1 => ~ss[i][k].beginStage

LEMMA PartsFallOn ==
  ASSUME NEW W, NEW cs, Len(cs) \in Nat, FallOn(cs), NEW ss \in Seq(Seq(W)), Len(ss) = Len(cs),
         SplitsOf(ss, cs)
  PROVE  /\ FlattenSeq(ss) \in Seq(W) /\ FallOn(FlattenSeq(ss))
         /\ Len(cs) > 0 => Len(FlattenSeq(ss)) > 0
<1> DEFINE s == FlattenSeq(ss)
<1>1. s \in Seq(W) /\ \E at : PartsLie(at, ss, s)
  BY FlattenParts
<1> HIDE DEF s
<1>2. PICK at : PartsLie(at, ss, s)
  BY <1>1
<1>3. Len(s) \in Nat /\ Len(ss) \in Nat /\ \A i \in 1..Len(ss) : Len(ss[i]) \in Nat \ {0}
  BY <1>1 DEF SplitsOf
<1>4. \A i \in 1..Len(ss) :
        IF i < Len(ss) THEN at[i + 1] = at[i] + Len(ss[i]) ELSE Len(s) = at[i] + Len(ss[i])
  <2>1. Len(s) \in Nat
    BY <1>3
  <2>2. Len(ss) \in Nat
    BY <1>3
  <2>3. NotEmpty(ss)
    BY <1>3 DEF NotEmpty
  <2>4. PartsMeet(at, ss, s)
    BY <1>2, <2>1, <2>2, <2>3, PartsAdjoin
  <2> QED BY <2>4 DEF PartsMeet
<1>5. /\ \A i \in 1..Len(ss) : at[i] \in Nat
      /\ \A i \in 1..Len(ss) : \A k \in 1..Len(ss[i]) :
           at[i] + k \in 1..Len(s) /\ s[at[i] + k] = ss[i][k]
      /\ \A pos \in 1..Len(s) : \E i \in 1..Len(ss) : \E k \in 1..Len(ss[i]) : pos = at[i] + k
  BY <1>2, Zenon DEF PartsLie
<1>6. ASSUME NEW pos \in 1..Len(s), s[pos].fallthrough
      PROVE  pos < Len(s) /\ ~s[pos + 1].beginStage
  <2>1. PICK i \in 1..Len(ss) : \E k \in 1..Len(ss[i]) : pos = at[i] + k
    BY <1>5
  <2>2. PICK k \in 1..Len(ss[i]) : pos = at[i] + k
    BY <2>1
  <2>3. s[pos] = ss[i][k] /\ at[i] \in Nat /\ Len(ss[i]) \in Nat
    BY <1>3, <1>5, <2>2
  <2>4. CASE k < Len(ss[i])
    <3>1. k + 1 \in 1..Len(ss[i]) /\ k + 1 > 1 /\ at[i] + (k + 1) = pos + 1
      <4> DEFINE len == Len(ss[i])
                 before == at[i]
      <4>1. k \in 1..len /\ len \in Nat /\ before \in Nat /\ pos = before + k /\ k < len
        BY <2>2, <2>3, <2>4
      <4> HIDE DEF len, before
      <4>2. k + 1 \in 1..len /\ k + 1 > 1 /\ before + (k + 1) = pos + 1
        BY <4>1
      <4> QED BY <4>2 DEF len, before
    <3>2. at[i] + (k + 1) \in 1..Len(s) /\ s[at[i] + (k + 1)] = ss[i][k + 1]
      BY <1>5, <3>1
    <3>3. ~ss[i][k + 1].beginStage
      BY <3>1 DEF SplitsOf
    <3>4. pos + 1 \in 1..Len(s) /\ s[pos + 1] = ss[i][k + 1]
      BY <3>1, <3>2
    <3> QED BY <1>3, <3>3, <3>4
  <2>5. CASE ~(k < Len(ss[i]))
    <3>1. k = Len(ss[i])
      BY <2>3, <2>5
    <3>2. cs[i].fallthrough
      BY <1>6, <2>3, <3>1 DEF SplitsOf
    <3>3. i < Len(cs) /\ ~cs[i + 1].beginStage
      BY <3>2 DEF FallOn
    <3>4. i + 1 \in 1..Len(ss) /\ at[i + 1] = pos
      <4>1. i < Len(ss) /\ i \in 1..Len(ss) /\ Len(ss) \in Nat
        BY <1>3, <3>3
      <4>2. at[i + 1] = at[i] + Len(ss[i])
        BY <1>4, <4>1
      <4>3. i + 1 \in 1..Len(ss)
        BY <4>1
      <4> QED BY <2>2, <3>1, <4>2, <4>3
    <3>5. 1 \in 1..Len(ss[i + 1])
      BY <1>3, <3>4
    <3>6. at[i + 1] + 1 \in 1..Len(s) /\ s[at[i + 1] + 1] = ss[i + 1][1]
      BY <1>5, <3>4, <3>5
    <3>7. ss[i + 1][1].beginStage = cs[i + 1].beginStage
      BY <3>4 DEF SplitsOf
    <3>8. pos + 1 \in 1..Len(s) /\ s[pos + 1] = ss[i + 1][1]
      BY <3>4, <3>6
    <3> QED BY <1>3, <3>3, <3>7, <3>8
  <2> QED BY <2>4, <2>5
<1>7. Len(cs) > 0 => Len(s) > 0
  <2> SUFFICES ASSUME Len(cs) > 0 PROVE Len(s) > 0
    OBVIOUS
  <2>1. 1 \in 1..Len(ss)
    OBVIOUS
  <2>2. 1 \in 1..Len(ss[1])
    BY <1>3, <2>1
  <2>3. at[1] + 1 \in 1..Len(s)
    BY <1>5, <2>1, <2>2
  <2> QED BY <1>3, <2>3
<1>8. FallOn(s)
  BY <1>6 DEF FallOn
<1> QED BY <1>1, <1>7, <1>8 DEF s

LEMMA ReplaceLogicalKeyStep == Inv /\ ReplaceLogicalKey => Inv'
<1> SUFFICES ASSUME Inv, ReplaceLogicalKey PROVE Inv'
  OBVIOUS
<1> DEFINE n == unreplaced
           key == logical[n]
           known == DOMAIN commands
           r == n - 1
           W == WholeContexts(r, known)
           f == [i \in DOMAIN contexts |-> Split(Replaced(ReplacedNots(contexts[i], key), key), key)]
           ss == SubSeq(f, 1, Len(contexts))
<1>1. /\ n > 0 /\ Continues("replace", "replace") /\ unreplaced' = r
      /\ contexts' = FlattenSeq(ss)
  BY DEF ReplaceLogicalKey, Map
<1>2. status = "replace" /\ status' = "replace" /\ logical' = logical /\ commands' = commands
  BY <1>1 DEF Continues
<1>3. /\ Remaining = n /\ Remaining' = r /\ n \in 0..Len(logical) /\ Len(logical) \in Nat
      /\ logical \in Definitions(Len(logical))
  BY <1>1, <1>2 DEF Remaining, Inv, Types, Definitions
<1>4. /\ contexts \in Seq(WholeContexts(n, known)) /\ FallOn(contexts) /\ Len(contexts) > 0
      /\ n \in Nat /\ r \in 0..Len(logical)
  BY <1>1, <1>3 DEF Inv
<1>5. key \in ReplacedKeys(n)
  <2>1. n \in 1..Len(logical)
    BY <1>1, <1>3
  <2> DEFINE m == Len(logical)
             Key == [name : Names, both : ToSet(LogicalKeys), left : KeysWith(m), right : KeysWith(m)]
  <2>2. /\ logical \in Seq(Key) /\ key.both = LogicalKeys[n]
        /\ {key.left, key.right} \subseteq KeysWith(n - 1)
    BY <1>3, <2>1 DEF Definitions
  <2>3. key \in Key
    <3> HIDE DEF Key
    <3> QED BY <2>1, <2>2
  <2> QED BY <2>2, <2>3 DEF ReplacedKeys
<1> HIDE DEF key, n
<1>6. ASSUME NEW i \in DOMAIN contexts
      PROVE  LET s == Split(Replaced(ReplacedNots(contexts[i], key), key), key) IN
             /\ s \in Seq(W) /\ Len(s) \in 1..2 /\ s[1].beginStage = contexts[i].beginStage
             /\ s[Len(s)].fallthrough = contexts[i].fallthrough
             /\ \A k \in 1..Len(s) : k > 1 => ~s[k].beginStage
  <2> DEFINE b == ReplacedNots(contexts[i], key)
             c == Replaced(b, key)
  <2>1. contexts[i] \in WholeContexts(n, known)
    BY <1>4
  <2>2. /\ b \in WholeContexts(n, known) /\ b.fallthrough = contexts[i].fallthrough
        /\ b.beginStage = contexts[i].beginStage
    BY <1>1, <1>4, <1>5, <2>1, ReplacedNotsIs
  <2> HIDE DEF b
  <2>3. c \in PartlyReplaced(n - 1, n, known) /\ c.fallthrough = b.fallthrough /\ c.beginStage = b.beginStage
    BY <1>1, <1>4, <1>5, <2>2, ReplacedIs
  <2> HIDE DEF c
  <2> DEFINE s == Split(c, key)
  <2>4. /\ s \in Seq(W) /\ Len(s) \in 1..2 /\ s[1].beginStage = c.beginStage
        /\ s[Len(s)].fallthrough = c.fallthrough
        /\ \A k \in 1..Len(s) : k > 1 => ~s[k].beginStage
    BY <1>1, <1>4, <1>5, <2>3, SplitIs
  <2> HIDE DEF s
  <2>5. /\ s \in Seq(W) /\ Len(s) \in 1..2 /\ s[1].beginStage = contexts[i].beginStage
        /\ s[Len(s)].fallthrough = contexts[i].fallthrough
        /\ \A k \in 1..Len(s) : k > 1 => ~s[k].beginStage
    BY <2>2, <2>3, <2>4
  <2> QED BY <2>5 DEF s, b, c
<1>7. \A i \in DOMAIN contexts :
        /\ f[i] \in Seq(W) /\ Len(f[i]) \in 1..2 /\ f[i][1].beginStage = contexts[i].beginStage
        /\ f[i][Len(f[i])].fallthrough = contexts[i].fallthrough
        /\ \A k \in 1..Len(f[i]) : k > 1 => ~f[i][k].beginStage
  BY <1>6
<1>8. f = [i \in DOMAIN contexts |-> f[i]]
  OBVIOUS
<1>9. DOMAIN contexts = 1..Len(contexts) /\ Len(contexts) \in Nat
  BY <1>4
<1> HIDE DEF f, W
<1> DEFINE S == Seq(W)
<1>10. f \in [1..Len(contexts) -> S]
  BY <1>7, <1>8, <1>9
<1>11. ss \in Seq(S) /\ Len(ss) = Len(contexts) /\ ss = f
  <2> HIDE DEF S
  <2> QED BY <1>9, <1>10, MapIs
<1> HIDE DEF ss
<1>12. SplitsOf(ss, contexts)
  BY <1>7, <1>9, <1>11 DEF SplitsOf
<1>13. FlattenSeq(ss) \in Seq(W) /\ FallOn(FlattenSeq(ss)) /\ Len(FlattenSeq(ss)) > 0
  <2>1. ss \in Seq(Seq(W))
    BY <1>11
  <2> QED BY <1>4, <1>9, <1>11, <1>12, <2>1, PartsFallOn
<1>14. contexts' \in Seq(WholeContexts(Remaining', DOMAIN commands)) /\ Len(contexts') > 0 /\ FallOn(contexts')
  BY <1>1, <1>3, <1>13 DEF W
<1>15. Remaining' \in 0..Len(logical)
  BY <1>3, <1>4
<1> QED BY <1>1, <1>14, <1>15, AfterStep

LEMMA ReplacedLogicalKeysStep == Inv /\ ReplacedLogicalKeys => Inv'
<1> SUFFICES ASSUME Inv, ReplacedLogicalKeys PROVE Inv'
  OBVIOUS
<1>1. unreplaced = 0 /\ Continues("replace", "suppress") /\ contexts' = contexts
  BY DEF ReplacedLogicalKeys
<1>2. status = "replace" /\ status' = "suppress"
  BY <1>1 DEF Continues
<1>3. Remaining = 0 /\ Remaining' = 0 /\ Len(logical) \in Nat
  BY <1>1, <1>2 DEF Remaining, Inv, Types, Definitions
<1>4. /\ contexts' \in Seq(WholeContexts(Remaining', DOMAIN commands))
      /\ Len(contexts') > 0 /\ FallOn(contexts')
  BY <1>1, <1>3 DEF Inv
<1>5. Remaining' \in 0..Len(logical)
  BY <1>3
<1> QED BY <1>1, <1>4, <1>5, AfterStep

-----------------------------------------------------------------------------
(* Suppressing forwarded modifiers *)

Quiet(output, key) == Contains(output, Press(key)) \/ Contains(output, NotKey(key))

LEMMA PrependNotIs ==
  ASSUME NEW n, NEW output \in SequencesWith(n), NEW key \in KeysWith(n)
  PROVE  /\ PrependNot(output, key) \in SequencesWith(n)
         /\ Quiet(PrependNot(output, key), key)
         /\ \A other : Quiet(output, other) => Quiet(PrependNot(output, key), other)
<1>1. CASE Quiet(output, key)
  BY <1>1 DEF PrependNot, Quiet
<1>2. CASE ~Quiet(output, key)
  <2> DEFINE E == Events(n)
             new == <<NotKey(key)>> \o output
  <2>1. PrependNot(output, key) = new
    BY <1>2 DEF PrependNot, Quiet
  <2>2. NotKey(key) \in E /\ output \in Seq(E)
    BY EventIs DEF SequencesWith, Events
  <2> HIDE DEF E
  <2>3. /\ new \in Seq(E) /\ Len(new) = Len(output) + 1 /\ Len(output) \in Nat /\ new[1] = NotKey(key)
        /\ \A i \in 1..Len(output) : new[i + 1] = output[i] /\ i + 1 \in 1..Len(new)
    BY <2>2
  <2> HIDE DEF new
  <2>4. Contains(new, NotKey(key))
    <3>1. 1 \in 1..Len(new)
      BY <2>3
    <3> QED BY <2>3, <3>1 DEF Contains
  <2>5. \A e : Contains(output, e) => Contains(new, e)
    BY <2>3 DEF Contains
  <2>6. new \in SequencesWith(n)
    BY <2>3 DEF SequencesWith, Events, E
  <2> QED BY <2>1, <2>4, <2>5, <2>6 DEF Quiet
<1> QED BY <1>1, <1>2

\* What is triggered is suppressed, and stays it for all keys.
WithNots(c, d, triggered, key) ==
  /\ d.inputs = c.inputs
  /\ Len(d.outputs) = Len(c.outputs) /\ Len(d.commandOutputs) = Len(c.commandOutputs)
  /\ \A i \in 1..Len(c.outputs) :
       /\ i - 1 \in triggered => Quiet(d.outputs[i], key)
       /\ \A other : Quiet(c.outputs[i], other) => Quiet(d.outputs[i], other)
  /\ \A i \in 1..Len(c.commandOutputs) :
       /\ d.commandOutputs[i].index = c.commandOutputs[i].index
       /\ c.commandOutputs[i].index \in triggered => Quiet(d.commandOutputs[i].output, key)
       /\ \A other : Quiet(c.commandOutputs[i].output, other) => Quiet(d.commandOutputs[i].output, other)

LEMMA WithNotIs ==
  ASSUME NEW n \in Nat, NEW known, NEW c \in WholeContexts(n, known), NEW triggered, NEW key,
         triggered # {} => key \in KeysWith(n)
  PROVE  /\ WithNot(c, triggered, key) \in WholeContexts(n, known)
         /\ WithNot(c, triggered, key).fallthrough = c.fallthrough
         /\ WithNot(c, triggered, key).beginStage = c.beginStage
         /\ WithNots(c, WithNot(c, triggered, key), triggered, key)
<1> DEFINE g == [i \in DOMAIN c.outputs |->
                   IF i - 1 \in triggered THEN PrependNot(c.outputs[i], key) ELSE c.outputs[i]]
           h == [i \in DOMAIN c.commandOutputs |->
                   IF c.commandOutputs[i].index \in triggered
                   THEN [c.commandOutputs[i] EXCEPT !.output = PrependNot(@, key)] ELSE c.commandOutputs[i]]
           commandOutputs == SubSeq(h, 1, Len(c.commandOutputs))
           inputs == c.inputs
           modifier == c.modifier
           d == WithParts(c, inputs, g, commandOutputs, modifier)
<1>1. /\ c \in PartlyReplaced(n, n, known) /\ c \in ContextsWith(n)
      /\ inputs \in InputsWith(n) /\ c.outputs \in OutputsWith(n)
      /\ c.commandOutputs \in CommandsWith(n) /\ modifier \in SequencesWith(n)
      /\ AllThere(inputs, Len(c.outputs), known) /\ (c.modifier = << >> => modifier = << >>)
  BY PartlyReplacedIs DEF PartlyReplaced, ContextsWith
<1>2. WithNot(c, triggered, key) = d
  BY <1>1 DEF WithNot, WithParts, Map, ContextsWith
<1>3. /\ DOMAIN c.outputs = 1..Len(c.outputs) /\ DOMAIN c.commandOutputs = 1..Len(c.commandOutputs)
      /\ Len(c.outputs) \in Nat /\ Len(c.commandOutputs) \in Nat
  <2>1. c.commandOutputs \in Seq(CommandOutputs(n))
    BY <1>1 DEF CommandsWith, CommandOutputs
  <2>2. DOMAIN c.commandOutputs = 1..Len(c.commandOutputs) /\ Len(c.commandOutputs) \in Nat
    BY <2>1
  <2> QED BY <1>1, <2>2, ContextParts
<1>4. ASSUME NEW i \in DOMAIN c.outputs
      PROVE  /\ g[i] \in SequencesWith(n) /\ (i - 1 \in triggered => Quiet(g[i], key))
             /\ \A other : Quiet(c.outputs[i], other) => Quiet(g[i], other)
  <2>1. c.outputs[i] \in SequencesWith(n)
    BY <1>1, <1>3, ContextParts
  <2>2. g[i] = IF i - 1 \in triggered THEN PrependNot(c.outputs[i], key) ELSE c.outputs[i]
    OBVIOUS
  <2> HIDE DEF g
  <2>3. CASE i - 1 \in triggered
    <3>1. key \in KeysWith(n)
      BY <2>3
    <3>2. /\ PrependNot(c.outputs[i], key) \in SequencesWith(n)
          /\ Quiet(PrependNot(c.outputs[i], key), key)
          /\ \A other : Quiet(c.outputs[i], other) => Quiet(PrependNot(c.outputs[i], key), other)
      BY <2>1, <3>1, PrependNotIs
    <3> QED BY <2>2, <2>3, <3>2
  <2>4. CASE i - 1 \notin triggered
    BY <2>1, <2>2, <2>4
  <2> QED BY <2>3, <2>4
<1>5. ASSUME NEW i \in DOMAIN c.commandOutputs
      PROVE  /\ h[i] \in CommandOutputs(n) /\ h[i].index = c.commandOutputs[i].index
             /\ c.commandOutputs[i].index \in triggered => Quiet(h[i].output, key)
             /\ \A other : Quiet(c.commandOutputs[i].output, other) => Quiet(h[i].output, other)
  <2> DEFINE o == c.commandOutputs[i]
  <2>1. o \in CommandOutputs(n)
    BY <1>1, ElementsAre
  <2>2. h[i] = IF o.index \in triggered THEN [o EXCEPT !.output = PrependNot(@, key)] ELSE o
    OBVIOUS
  <2> HIDE DEF h, o
  <2>3. CASE o.index \in triggered
    <3>1. key \in KeysWith(n) /\ o.output \in SequencesWith(n)
      BY <2>1, <2>3 DEF CommandOutputs
    <3>2. /\ PrependNot(o.output, key) \in SequencesWith(n)
          /\ Quiet(PrependNot(o.output, key), key)
          /\ \A other : Quiet(o.output, other) => Quiet(PrependNot(o.output, key), other)
      BY <3>1, PrependNotIs
    <3>3. /\ [o EXCEPT !.output = PrependNot(@, key)] \in CommandOutputs(n)
          /\ [o EXCEPT !.output = PrependNot(@, key)].output = PrependNot(o.output, key)
          /\ [o EXCEPT !.output = PrependNot(@, key)].index = o.index
      BY <2>1, <3>2 DEF CommandOutputs
    <3> QED BY <2>2, <2>3, <3>2, <3>3 DEF o
  <2>4. CASE o.index \notin triggered
    BY <2>1, <2>2, <2>4 DEF o
  <2> QED BY <2>3, <2>4 DEF o
<1>6. /\ g = [i \in DOMAIN c.outputs |-> g[i]] /\ h = [i \in DOMAIN c.commandOutputs |-> h[i]]
  OBVIOUS
<1> HIDE DEF g, h
<1>7. g \in OutputsWith(n) /\ Len(g) = Len(c.outputs)
  <2> DEFINE before == c.outputs
  <2>1. /\ before \in OutputsWith(n) /\ g = [i \in DOMAIN before |-> g[i]]
        /\ \A i \in DOMAIN before : g[i] \in SequencesWith(n)
    BY <1>1, <1>4, <1>6
  <2> HIDE DEF before
  <2>2. /\ SubSeq(g, 1, Len(before)) \in OutputsWith(n)
        /\ Len(SubSeq(g, 1, Len(before))) = Len(before) /\ SubSeq(g, 1, Len(before)) = g
    BY <2>1, OtherOutputsAre
  <2> QED BY <2>2 DEF before
<1>8. commandOutputs \in CommandsWith(n) /\ commandOutputs = h
  <2> DEFINE before == c.commandOutputs
  <2>1. /\ before \in CommandsWith(n) /\ h = [i \in DOMAIN before |-> h[i]]
        /\ \A i \in DOMAIN before : h[i] \in CommandOutputs(n)
    BY <1>1, <1>5, <1>6
  <2> HIDE DEF before
  <2>2. SubSeq(h, 1, Len(before)) \in CommandsWith(n) /\ SubSeq(h, 1, Len(before)) = h
    BY <2>1, OtherCommandOutputsAre
  <2> QED BY <2>2 DEF before
<1>9. Len(commandOutputs) = Len(c.commandOutputs)
  <2>1. commandOutputs \in Seq(CommandOutputs(n))
    BY <1>8 DEF CommandsWith, CommandOutputs
  <2>2. DOMAIN commandOutputs = 1..Len(c.commandOutputs)
    BY <1>3, <1>6, <1>8
  <2>3. DOMAIN commandOutputs = 1..Len(commandOutputs) /\ Len(commandOutputs) \in Nat
    BY <2>1
  <2> HIDE DEF commandOutputs
  <2> QED BY <1>3, <2>2, <2>3
<1> HIDE DEF commandOutputs, inputs, modifier
<1>10. AllThere(inputs, Len(g), known)
  BY <1>1, <1>7
<1>11. /\ d \in PartlyReplaced(n, n, known) /\ d.fallthrough = c.fallthrough
       /\ d.beginStage = c.beginStage
  BY <1>1, <1>7, <1>8, <1>10, WithPartsIs
<1>12. d.inputs = c.inputs /\ d.outputs = g /\ d.commandOutputs = commandOutputs
  BY <1>1 DEF WithParts, ContextsWith, inputs
<1> HIDE DEF d
<1>13. d \in WholeContexts(n, known)
  BY <1>11, PartlyReplacedIs
<1>14. WithNots(c, d, triggered, key)
  BY <1>3, <1>4, <1>5, <1>7, <1>8, <1>9, <1>12 DEF WithNots
<1> QED BY <1>2, <1>11, <1>13, <1>14

\* Whatever an input of the n-th context with the key triggers is suppressed.
SuppressedFor(cs, n, key) ==
  \A j \in 1..Len(cs[n].inputs) :
    Contains(cs[n].inputs[j].input, Press(key)) =>
      /\ cs[n].inputs[j].output + 1 \in 1..Len(cs[n].outputs) =>
           Quiet(cs[n].outputs[cs[n].inputs[j].output + 1], key)
      /\ \A i \in 1..Len(cs) : \A m \in 1..Len(cs[i].commandOutputs) :
           cs[i].commandOutputs[m].index = cs[n].inputs[j].output /\ cs[n].inputs[j].output < 0 =>
             Quiet(cs[i].commandOutputs[m].output, key)

LEMMA SuppressModifierIs ==
  ASSUME NEW n \in Nat, NEW known, NEW cs \in Seq(WholeContexts(n, known)), FallOn(cs),
         NEW at \in 1..Len(cs), NEW key
  PROVE  /\ SuppressModifier(cs, at, key) \in Seq(WholeContexts(n, known))
         /\ FallOn(SuppressModifier(cs, at, key)) /\ Len(SuppressModifier(cs, at, key)) = Len(cs)
         /\ SuppressedFor(SuppressModifier(cs, at, key), at, key)
         /\ \A i \in 1..Len(cs) : \A other :
              SuppressedFor(cs, i, other) => SuppressedFor(SuppressModifier(cs, at, key), i, other)
<1> DEFINE W == WholeContexts(n, known)
           triggered == Triggered(cs[at], key)
           of(i) == IF i = at THEN triggered ELSE {index \in triggered : index < 0}
           ds == [i \in DOMAIN cs |-> WithNot(cs[i], of(i), key)]
<1>1. SuppressModifier(cs, at, key) = ds
  BY DEF SuppressModifier
<1>2. DOMAIN cs = 1..Len(cs) /\ Len(cs) \in Nat /\ \A i \in 1..Len(cs) : cs[i] \in W
  <2>1. cs \in Seq(W)
    OBVIOUS
  <2> HIDE DEF W
  <2> QED BY <2>1
<1>3. \A i \in 1..Len(cs) :
        /\ DOMAIN cs[i].inputs = 1..Len(cs[i].inputs)
        /\ \A j \in 1..Len(cs[i].inputs) :
             cs[i].inputs[j].output \in Int /\ cs[i].inputs[j].input \in SequencesWith(n)
  <2> SUFFICES ASSUME NEW i \in 1..Len(cs)
               PROVE  /\ DOMAIN cs[i].inputs = 1..Len(cs[i].inputs)
                      /\ \A j \in 1..Len(cs[i].inputs) :
                           cs[i].inputs[j].output \in Int /\ cs[i].inputs[j].input \in SequencesWith(n)
    OBVIOUS
  <2>1. cs[i] \in ContextsWith(n)
    BY <1>2 DEF WholeContexts
  <2> QED BY <2>1, ContextParts
<1>4. \A index : index \in triggered <=>
        \E j \in 1..Len(cs[at].inputs) : /\ Contains(cs[at].inputs[j].input, Press(key))
                                         /\ index = cs[at].inputs[j].output
  BY <1>3 DEF Triggered, ToSet
<1>5. triggered # {} => key \in KeysWith(n)
  <2> SUFFICES ASSUME triggered # {} PROVE key \in KeysWith(n)
    OBVIOUS
  <2>1. PICK j \in 1..Len(cs[at].inputs) : Contains(cs[at].inputs[j].input, Press(key))
    BY <1>4
  <2>2. cs[at].inputs[j].input \in Seq(Events(n))
    BY <1>3 DEF SequencesWith, Events
  <2>3. Press(key) \in Events(n)
    BY <2>1, <2>2 DEF Contains
  <2> QED BY <2>3 DEF Events, Press, Event
<1> HIDE DEF triggered, W
<1>6. ASSUME NEW i \in 1..Len(cs)
      PROVE  /\ ds[i] \in W /\ ds[i].fallthrough = cs[i].fallthrough
             /\ ds[i].beginStage = cs[i].beginStage /\ WithNots(cs[i], ds[i], of(i), key)
  <2> DEFINE some == of(i)
             c == cs[i]
  <2>1. c \in W /\ (some # {} => key \in KeysWith(n)) /\ ds[i] = WithNot(c, some, key)
    BY <1>2, <1>5
  <2> HIDE DEF some, c, ds, of
  <2>2. /\ ds[i] \in W /\ ds[i].fallthrough = c.fallthrough
        /\ ds[i].beginStage = c.beginStage /\ WithNots(c, ds[i], some, key)
    BY <2>1, WithNotIs DEF W
  <2> QED BY <2>2 DEF some, c
<1>7. /\ \A index : index \in of(at) <=> index \in triggered
      /\ \A i, index : index \in triggered /\ index < 0 => index \in of(i)
  OBVIOUS
<1>8. DOMAIN ds = DOMAIN cs /\ ds = [i \in DOMAIN cs |-> ds[i]]
  OBVIOUS
<1> HIDE DEF ds, of
<1>9. ds \in Seq(W) /\ FallOn(ds) /\ Len(ds) = Len(cs)
  <2>1. cs \in Seq(W)
    BY DEF W
  <2>2. \A i \in DOMAIN cs : /\ ds[i] \in W /\ ds[i].fallthrough = cs[i].fallthrough
                             /\ ds[i].beginStage = cs[i].beginStage
    BY <1>2, <1>6
  <2> QED BY <1>8, <2>1, <2>2, EachBecomes
<1>10. SuppressedFor(ds, at, key)
  <2>1. WithNots(cs[at], ds[at], of(at), key)
    BY <1>6
  <2> SUFFICES ASSUME NEW j \in 1..Len(ds[at].inputs), Contains(ds[at].inputs[j].input, Press(key))
               PROVE  /\ ds[at].inputs[j].output + 1 \in 1..Len(ds[at].outputs) =>
                           Quiet(ds[at].outputs[ds[at].inputs[j].output + 1], key)
                      /\ \A i \in 1..Len(ds) : \A m \in 1..Len(ds[i].commandOutputs) :
                           ds[i].commandOutputs[m].index = ds[at].inputs[j].output /\ ds[at].inputs[j].output < 0 =>
                             Quiet(ds[i].commandOutputs[m].output, key)
    BY DEF SuppressedFor
  <2> DEFINE index == ds[at].inputs[j].output
  <2>2. index \in triggered /\ index \in Int
    BY <1>3, <1>4, <2>1 DEF WithNots
  <2> HIDE DEF index
  <2>3. ASSUME index + 1 \in 1..Len(ds[at].outputs) PROVE Quiet(ds[at].outputs[index + 1], key)
    <3>1. (index + 1) - 1 \in of(at)
      BY <1>7, <2>2
    <3>2. index + 1 \in 1..Len(cs[at].outputs)
      BY <2>1, <2>3 DEF WithNots
    <3> QED BY <2>1, <3>1, <3>2 DEF WithNots
  <2>4. ASSUME NEW i \in 1..Len(ds), NEW m \in 1..Len(ds[i].commandOutputs),
               ds[i].commandOutputs[m].index = index, index < 0
        PROVE  Quiet(ds[i].commandOutputs[m].output, key)
    <3>1. WithNots(cs[i], ds[i], of(i), key)
      BY <1>6, <1>9
    <3>2. index \in of(i)
      BY <1>7, <2>2, <2>4
    <3> QED BY <2>4, <3>1, <3>2 DEF WithNots
  <2> QED BY <2>3, <2>4 DEF index
<1>11. ASSUME NEW i \in 1..Len(cs), NEW other, SuppressedFor(cs, i, other)
       PROVE  SuppressedFor(ds, i, other)
  <2>1. WithNots(cs[i], ds[i], of(i), key)
    BY <1>6
  <2> SUFFICES ASSUME NEW j \in 1..Len(ds[i].inputs), Contains(ds[i].inputs[j].input, Press(other))
               PROVE  /\ ds[i].inputs[j].output + 1 \in 1..Len(ds[i].outputs) =>
                           Quiet(ds[i].outputs[ds[i].inputs[j].output + 1], other)
                      /\ \A k \in 1..Len(ds) : \A m \in 1..Len(ds[k].commandOutputs) :
                           ds[k].commandOutputs[m].index = ds[i].inputs[j].output /\ ds[i].inputs[j].output < 0 =>
                             Quiet(ds[k].commandOutputs[m].output, other)
    BY DEF SuppressedFor
  <2> DEFINE index == ds[i].inputs[j].output
  <2>2. /\ index = cs[i].inputs[j].output /\ j \in 1..Len(cs[i].inputs)
        /\ Contains(cs[i].inputs[j].input, Press(other))
    BY <2>1 DEF WithNots
  <2> HIDE DEF index
  <2>3. ASSUME index + 1 \in 1..Len(ds[i].outputs) PROVE Quiet(ds[i].outputs[index + 1], other)
    <3>1. index + 1 \in 1..Len(cs[i].outputs)
      BY <2>1, <2>3 DEF WithNots
    <3>2. Quiet(cs[i].outputs[index + 1], other)
      BY <1>11, <2>2, <3>1 DEF SuppressedFor
    <3> QED BY <2>1, <3>1, <3>2 DEF WithNots
  <2>4. ASSUME NEW k \in 1..Len(ds), NEW m \in 1..Len(ds[k].commandOutputs),
               ds[k].commandOutputs[m].index = index, index < 0
        PROVE  Quiet(ds[k].commandOutputs[m].output, other)
    <3>1. WithNots(cs[k], ds[k], of(k), key) /\ k \in 1..Len(cs)
      BY <1>6, <1>9
    <3>2. m \in 1..Len(cs[k].commandOutputs) /\ cs[k].commandOutputs[m].index = index
      BY <2>4, <3>1 DEF WithNots
    <3>3. Quiet(cs[k].commandOutputs[m].output, other)
      BY <1>11, <2>2, <2>4, <3>1, <3>2 DEF SuppressedFor
    <3> QED BY <3>1, <3>2, <3>3 DEF WithNots
  <2> QED BY <2>3, <2>4 DEF index
<1> QED BY <1>1, <1>9, <1>10, <1>11 DEF W

\* As many contexts as there were, which are whole.
SoMany(n, known, len) == {cs \in Seq(WholeContexts(n, known)) : FallOn(cs) /\ Len(cs) = len}

LEMMA SuppressModifierStays ==
  ASSUME NEW n \in Nat, NEW known, NEW len \in Nat, NEW at \in 1..len
  PROVE  \A key : \A cs \in SoMany(n, known, len) : SuppressModifier(cs, at, key) \in SoMany(n, known, len)
<1> SUFFICES ASSUME NEW key, NEW cs \in SoMany(n, known, len)
             PROVE  SuppressModifier(cs, at, key) \in SoMany(n, known, len)
  OBVIOUS
<1>1. cs \in Seq(WholeContexts(n, known)) /\ FallOn(cs) /\ Len(cs) = len /\ at \in 1..Len(cs)
  BY DEF SoMany
<1>2. /\ SuppressModifier(cs, at, key) \in Seq(WholeContexts(n, known))
      /\ FallOn(SuppressModifier(cs, at, key)) /\ Len(SuppressModifier(cs, at, key)) = Len(cs)
  BY <1>1, SuppressModifierIs
<1> QED BY <1>1, <1>2 DEF SoMany

\* The steps of SuppressModifiers, and of SuppressAll.
LEMMA SuppressModifiersSteps ==
  ASSUME NEW n \in Nat, NEW known, NEW len \in Nat, NEW at \in 1..len, NEW cs \in SoMany(n, known, len),
         forwardModifiers \in Seq(KeysWith(Len(logical)))
  PROVE  \E a : /\ a[0] = cs /\ SuppressModifiers(cs, at) = a[Len(forwardModifiers)]
                /\ \A k \in 1..Len(forwardModifiers) : a[k] = SuppressModifier(a[k - 1], at, forwardModifiers[k])
<1> DEFINE m == Len(forwardModifiers)
           A == SoMany(n, known, len)
           T == [k \in 0..m |-> A]
           G == [k \in 1..m |-> [x \in T[k - 1] |-> SuppressModifier(x, at, forwardModifiers[k])]]
           Is(f) == f = [s \in SUBSET (1..m) |->
                           IF s = {} THEN cs ELSE SuppressModifier(f[s \ {Max(s)}], at, forwardModifiers[Max(s)])]
           f == CHOOSE f : Is(f)
           a == [k \in 0..m |-> f[1..k]]
<1>1. m \in Nat /\ DOMAIN forwardModifiers = 1..m
  OBVIOUS
<1>2. /\ cs \in T[0]
      /\ \A i \in 1..m : T[i - 1] \subseteq T[i]
      /\ \A i \in 1..m : \A x \in T[i - 1] : SuppressModifier(x, at, forwardModifiers[i]) \in T[i]
  <2>1. \A key : \A x \in A : SuppressModifier(x, at, key) \in A
    BY SuppressModifierStays
  <2>2. \A k \in 0..m : T[k] = A
    OBVIOUS
  <2>3. 0 \in 0..m /\ \A i \in 1..m : i \in 0..m /\ i - 1 \in 0..m
    BY <1>1
  <2>4. cs \in A
    OBVIOUS
  <2> HIDE DEF T, A
  <2> QED BY <1>1, <2>1, <2>2, <2>3, <2>4
<1>3. \E g : Is(g)
  <2>1. \A i \in 1..m : \A x \in T[i - 1] : G[i][x] = SuppressModifier(x, at, forwardModifiers[i])
    OBVIOUS
  <2> HIDE DEF T, G
  <2>2. \A i \in 1..m : \A x \in T[i - 1] : G[i][x] \in T[i]
    BY <1>2, <2>1
  <2>3. PICK g : IsFold(g, m, cs, T, G)
    BY <1>1, <1>2, <2>2, FoldExists
  <2>4. \A s \in SUBSET (1..m) : s # {} => Max(s) \in 1..m
    BY <1>1, LastOfPositions
  <2>5. ASSUME NEW s \in SUBSET (1..m), s # {}
        PROVE  G[Max(s)][g[s \ {Max(s)}]] = SuppressModifier(g[s \ {Max(s)}], at, forwardModifiers[Max(s)])
    <3>1. Max(s) \in 1..m /\ g[s \ {Max(s)}] \in T[Max(s) - 1]
      BY <2>3, <2>4, <2>5 DEF IsFold
    <3> QED BY <2>1, <3>1
  <2>6. Is(g)
    BY <2>3, <2>5 DEF IsFold
  <2> QED BY <2>6
<1>4. Is(f)
  BY <1>3
<1>5. SuppressModifiers(cs, at) = f[1..m]
  BY <1>1 DEF SuppressModifiers, FoldLeft, MapThenFoldSet
<1> HIDE DEF f
<1>6. a[0] = cs
  <2>1. 1..0 \in SUBSET (1..m) /\ 1..0 = {} /\ 0 \in 0..m
    BY <1>1
  <2> QED BY <1>4, <2>1
<1>7. ASSUME NEW k \in 1..m PROVE a[k] = SuppressModifier(a[k - 1], at, forwardModifiers[k])
  <2>1. k \in Nat /\ k # 0 /\ k \in 0..m /\ k - 1 \in 0..m /\ 1..k \in SUBSET (1..m)
    BY <1>1
  <2>2. Max(1..k) = k /\ (1..k) \ {Max(1..k)} = 1..(k - 1) /\ 1..k # {}
    BY <2>1, Segments
  <2>3. f[1..k] = SuppressModifier(f[1..(k - 1)], at, forwardModifiers[k])
    BY <1>4, <2>1, <2>2
  <2> QED BY <2>1, <2>3
<1>8. a[m] = f[1..m]
  BY <1>1
<1> HIDE DEF a
<1> QED BY <1>5, <1>6, <1>7, <1>8

\* What was suppressed stays it.
StaySuppressed(cs, ds) ==
  \A i \in 1..Len(cs) : \A key : SuppressedFor(cs, i, key) => SuppressedFor(ds, i, key)

LEMMA SuppressModifiersIs ==
  ASSUME NEW n \in Nat, NEW known, NEW len \in Nat, NEW at \in 1..len, NEW cs \in SoMany(n, known, len),
         forwardModifiers \in Seq(KeysWith(Len(logical)))
  PROVE  /\ SuppressModifiers(cs, at) \in SoMany(n, known, len)
         /\ \A j \in 1..Len(forwardModifiers) : SuppressedFor(SuppressModifiers(cs, at), at, forwardModifiers[j])
         /\ StaySuppressed(cs, SuppressModifiers(cs, at))
<1> DEFINE m == Len(forwardModifiers)
           A == SoMany(n, known, len)
<1>1. m \in Nat
  OBVIOUS
<1>2. PICK a : /\ a[0] = cs /\ SuppressModifiers(cs, at) = a[m]
               /\ \A k \in 1..m : a[k] = SuppressModifier(a[k - 1], at, forwardModifiers[k])
  BY SuppressModifiersSteps
<1> DEFINE T == [k \in 0..m |->
                   {ds \in A : /\ \A j \in 1..k : SuppressedFor(ds, at, forwardModifiers[j])
                               /\ StaySuppressed(cs, ds)}]
<1>3. a[0] \in T[0]
  <2>1. 0 \in 0..m /\ 1..0 = {} /\ StaySuppressed(cs, cs)
    BY <1>1 DEF StaySuppressed
  <2> QED BY <1>2, <2>1
<1>4. ASSUME NEW k \in 1..m, a[k - 1] \in T[k - 1] PROVE a[k] \in T[k]
  <2> DEFINE ds == a[k - 1]
             es == a[k]
             key == forwardModifiers[k]
  <2>1. k - 1 \in 0..m /\ k \in 0..m
    BY <1>1
  <2>2. /\ ds \in A /\ StaySuppressed(cs, ds)
        /\ \A j \in 1..(k - 1) : SuppressedFor(ds, at, forwardModifiers[j])
    BY <1>4, <2>1
  <2>3. es = SuppressModifier(ds, at, key)
    BY <1>2
  <2> HIDE DEF ds, es, key, T
  <2>4. ds \in Seq(WholeContexts(n, known)) /\ FallOn(ds) /\ Len(ds) = len /\ at \in 1..Len(ds)
    BY <2>2 DEF A, SoMany
  <2>5. /\ es \in Seq(WholeContexts(n, known)) /\ FallOn(es) /\ Len(es) = Len(ds)
        /\ SuppressedFor(es, at, key)
        /\ \A i \in 1..Len(ds) : \A other : SuppressedFor(ds, i, other) => SuppressedFor(es, i, other)
    BY <2>3, <2>4, SuppressModifierIs
  <2>6. es \in A
    BY <2>4, <2>5 DEF A, SoMany
  <2>7. \A j \in 1..k : SuppressedFor(es, at, forwardModifiers[j])
    <3>1. \A j \in 1..k : j = k \/ j \in 1..(k - 1)
      BY <1>1
    <3> QED BY <2>2, <2>4, <2>5, <3>1 DEF key
  <2>8. Len(cs) = len
    BY DEF SoMany
  <2>9. StaySuppressed(cs, es)
    BY <2>2, <2>4, <2>5, <2>8 DEF StaySuppressed
  <2> QED BY <2>1, <2>6, <2>7, <2>9 DEF T, es
<1>5. m \in 0..m
  BY <1>1
<1>6. T[m] = {ds \in A : /\ \A j \in 1..m : SuppressedFor(ds, at, forwardModifiers[j])
                         /\ StaySuppressed(cs, ds)}
  BY <1>5
<1> HIDE DEF T
<1>7. \A k \in 0..m : a[k] \in T[k]
  BY <1>1, <1>3, <1>4, ChainStays
<1> QED BY <1>2, <1>5, <1>6, <1>7

Positions(cs) == [n \in DOMAIN cs |-> n]

LEMMA PositionsAre ==
  ASSUME NEW n, NEW known, NEW len \in Nat, NEW cs \in SoMany(n, known, len)
  PROVE  /\ Len(Positions(cs)) = len /\ DOMAIN Positions(cs) = 1..len
         /\ \A i \in 1..len : Positions(cs)[i] = i
         /\ Len(cs) = len /\ DOMAIN cs = 1..len
<1> DEFINE W == WholeContexts(n, known)
<1>1. cs \in Seq(W) /\ Len(cs) = len
  BY DEF SoMany
<1> HIDE DEF W
<1>2. DOMAIN cs = 1..len
  BY <1>1
<1>3. Positions(cs) \in [1..len -> 1..len] /\ \A i \in 1..len : Positions(cs)[i] = i
  BY <1>2 DEF Positions
<1>4. Len(Positions(cs)) = len
  BY <1>3, MapIs
<1> QED BY <1>1, <1>2, <1>3, <1>4

\* The steps of SuppressAll.
LEMMA SuppressAllSteps ==
  ASSUME NEW n \in Nat, NEW known, NEW len \in Nat, NEW cs \in SoMany(n, known, len),
         forwardModifiers \in Seq(KeysWith(Len(logical)))
  PROVE  \E a : /\ a[0] = cs /\ SuppressAll(cs) = a[Len(Positions(cs))]
                /\ \A k \in 1..Len(Positions(cs)) : a[k] = SuppressModifiers(a[k - 1], Positions(cs)[k])
<1> DEFINE m == Len(Positions(cs))
           A == SoMany(n, known, len)
           T == [k \in 0..m |-> A]
           G == [k \in 1..m |-> [x \in T[k - 1] |-> SuppressModifiers(x, Positions(cs)[k])]]
           Is(f) == f = [s \in SUBSET (1..m) |->
                           IF s = {} THEN cs ELSE SuppressModifiers(f[s \ {Max(s)}], Positions(cs)[Max(s)])]
           f == CHOOSE f : Is(f)
           a == [k \in 0..m |-> f[1..k]]
<1>1. m \in Nat /\ m = len /\ DOMAIN Positions(cs) = 1..m /\ \A i \in 1..m : Positions(cs)[i] \in 1..len
  BY PositionsAre
<1>2. /\ cs \in T[0]
      /\ \A i \in 1..m : T[i - 1] \subseteq T[i]
      /\ \A i \in 1..m : \A x \in T[i - 1] : SuppressModifiers(x, Positions(cs)[i]) \in T[i]
  <2>1. \A i \in 1..len : \A x \in A : SuppressModifiers(x, i) \in A
    BY SuppressModifiersIs
  <2>2. \A k \in 0..m : T[k] = A
    OBVIOUS
  <2>3. 0 \in 0..m /\ \A i \in 1..m : i \in 0..m /\ i - 1 \in 0..m
    BY <1>1
  <2>4. cs \in A
    OBVIOUS
  <2> HIDE DEF T, A
  <2> QED BY <1>1, <2>1, <2>2, <2>3, <2>4
<1>3. \E g : Is(g)
  <2>1. \A i \in 1..m : \A x \in T[i - 1] : G[i][x] = SuppressModifiers(x, Positions(cs)[i])
    OBVIOUS
  <2> HIDE DEF T, G
  <2>2. \A i \in 1..m : \A x \in T[i - 1] : G[i][x] \in T[i]
    BY <1>2, <2>1
  <2>3. PICK g : IsFold(g, m, cs, T, G)
    BY <1>1, <1>2, <2>2, FoldExists
  <2>4. \A s \in SUBSET (1..m) : s # {} => Max(s) \in 1..m
    BY <1>1, LastOfPositions
  <2>5. ASSUME NEW s \in SUBSET (1..m), s # {}
        PROVE  G[Max(s)][g[s \ {Max(s)}]] = SuppressModifiers(g[s \ {Max(s)}], Positions(cs)[Max(s)])
    <3>1. Max(s) \in 1..m /\ g[s \ {Max(s)}] \in T[Max(s) - 1]
      BY <2>3, <2>4, <2>5 DEF IsFold
    <3> QED BY <2>1, <3>1
  <2>6. Is(g)
    BY <2>3, <2>5 DEF IsFold
  <2> QED BY <2>6
<1>4. Is(f)
  BY <1>3
<1>5. SuppressAll(cs) = f[1..m]
  BY <1>1 DEF SuppressAll, Positions, FoldLeft, MapThenFoldSet
<1> HIDE DEF f
<1>6. a[0] = cs
  <2>1. 1..0 \in SUBSET (1..m) /\ 1..0 = {} /\ 0 \in 0..m
    BY <1>1
  <2> QED BY <1>4, <2>1
<1>7. ASSUME NEW k \in 1..m PROVE a[k] = SuppressModifiers(a[k - 1], Positions(cs)[k])
  <2>1. k \in Nat /\ k # 0 /\ k \in 0..m /\ k - 1 \in 0..m /\ 1..k \in SUBSET (1..m)
    BY <1>1
  <2>2. Max(1..k) = k /\ (1..k) \ {Max(1..k)} = 1..(k - 1) /\ 1..k # {}
    BY <2>1, Segments
  <2>3. f[1..k] = SuppressModifiers(f[1..(k - 1)], Positions(cs)[k])
    BY <1>4, <2>1, <2>2
  <2> QED BY <2>1, <2>3
<1>8. a[m] = f[1..m]
  BY <1>1
<1> HIDE DEF a
<1> QED BY <1>5, <1>6, <1>7, <1>8

LEMMA SuppressAllIs ==
  ASSUME NEW n \in Nat, NEW known, NEW len \in Nat, NEW cs \in SoMany(n, known, len),
         forwardModifiers \in Seq(KeysWith(Len(logical)))
  PROVE  /\ SuppressAll(cs) \in SoMany(n, known, len)
         /\ \A i \in 1..len : \A j \in 1..Len(forwardModifiers) :
              SuppressedFor(SuppressAll(cs), i, forwardModifiers[j])
<1> DEFINE A == SoMany(n, known, len)
           S(ds, i) == \A j \in 1..Len(forwardModifiers) : SuppressedFor(ds, i, forwardModifiers[j])
<1>1. \A ds \in A : Len(ds) = len
  BY PositionsAre
<1>2. PICK a : /\ a[0] = cs /\ SuppressAll(cs) = a[Len(Positions(cs))]
               /\ \A k \in 1..Len(Positions(cs)) : a[k] = SuppressModifiers(a[k - 1], Positions(cs)[k])
  BY SuppressAllSteps
<1>3. Len(Positions(cs)) = len /\ \A i \in 1..len : Positions(cs)[i] = i
  BY PositionsAre
<1>4. \A k \in 1..len : a[k] = SuppressModifiers(a[k - 1], k)
  BY <1>2, <1>3
<1> DEFINE T == [k \in 0..len |-> {ds \in A : \A i \in 1..k : S(ds, i)}]
<1>6. a[0] \in T[0]
  <2>1. 0 \in 0..len /\ 1..0 = {}
    OBVIOUS
  <2> QED BY <1>2, <2>1
<1>7. ASSUME NEW k \in 1..len, a[k - 1] \in T[k - 1] PROVE a[k] \in T[k]
  <2> DEFINE ds == a[k - 1]
             es == a[k]
  <2>1. k - 1 \in 0..len /\ k \in 0..len
    OBVIOUS
  <2>2. ds \in A /\ \A i \in 1..(k - 1) : S(ds, i)
    BY <1>7, <2>1
  <2>3. es = SuppressModifiers(ds, k)
    BY <1>4
  <2> HIDE DEF ds, es, T
  <2>4. /\ es \in A /\ StaySuppressed(ds, es)
        /\ \A j \in 1..Len(forwardModifiers) : SuppressedFor(es, k, forwardModifiers[j])
    BY <2>2, <2>3, SuppressModifiersIs
  <2>5. ASSUME NEW i \in 1..k PROVE S(es, i)
    <3>1. CASE i = k
      BY <2>4, <3>1
    <3>2. CASE i # k
      <4>1. i \in 1..(k - 1) /\ i \in 1..Len(ds)
        BY <1>1, <2>2, <3>2
      <4> QED BY <2>2, <2>4, <4>1 DEF StaySuppressed
    <3> QED BY <3>1, <3>2
  <2> HIDE DEF S
  <2> QED BY <2>1, <2>4, <2>5 DEF T, es
<1>8. len \in 0..len /\ T[len] = {ds \in A : \A i \in 1..len : S(ds, i)}
  OBVIOUS
<1> HIDE DEF T, S
<1>9. \A k \in 0..len : a[k] \in T[k]
  BY <1>6, <1>7, ChainStays
<1> QED BY <1>2, <1>3, <1>8, <1>9 DEF S

LEMMA SuppressForwardedModifiersStep ==
  Inv /\ SuppressForwardedModifiers =>
    /\ Inv'
    /\ \A i \in 1..Len(contexts') : \A j \in 1..Len(forwardModifiers') :
         SuppressedFor(contexts', i, forwardModifiers'[j])
<1> SUFFICES ASSUME Inv, SuppressForwardedModifiers
             PROVE  /\ Inv'
                    /\ \A i \in 1..Len(contexts') : \A j \in 1..Len(forwardModifiers') :
                         SuppressedFor(contexts', i, forwardModifiers'[j])
  OBVIOUS
<1> DEFINE known == DOMAIN commands
           len == Len(contexts)
<1>1. Continues("suppress", "done") /\ contexts' = SuppressAll(contexts)
  BY DEF SuppressForwardedModifiers
<1>2. status = "suppress" /\ status' = "done" /\ forwardModifiers' = forwardModifiers
  BY <1>1 DEF Continues, setting_vars
<1>3. Remaining = 0 /\ Remaining' = 0 /\ Len(logical) \in Nat
  BY <1>2 DEF Remaining, Inv, Types, Definitions
<1>4. /\ contexts \in Seq(WholeContexts(0, known)) /\ len > 0 /\ FallOn(contexts)
      /\ forwardModifiers \in Seq(KeysWith(Len(logical)))
  BY <1>3 DEF Inv, Types
<1>5. contexts \in SoMany(0, known, len) /\ len \in Nat /\ 0 \in Nat
  BY <1>4 DEF SoMany
<1>6. /\ SuppressAll(contexts) \in SoMany(0, known, len)
      /\ \A i \in 1..len : \A j \in 1..Len(forwardModifiers) :
           SuppressedFor(SuppressAll(contexts), i, forwardModifiers[j])
  BY <1>4, <1>5, SuppressAllIs
<1>7. /\ contexts' \in Seq(WholeContexts(0, known)) /\ FallOn(contexts') /\ Len(contexts') = len
  BY <1>1, <1>6 DEF SoMany
<1>8. /\ contexts' \in Seq(WholeContexts(Remaining', DOMAIN commands))
      /\ Len(contexts') > 0 /\ Remaining' \in 0..Len(logical)
  BY <1>3, <1>4, <1>7
<1>9. Inv'
  BY <1>1, <1>7, <1>8, AfterStep
<1> QED BY <1>1, <1>2, <1>6, <1>7, <1>9

-----------------------------------------------------------------------------
LEMMA InvHoldsFirst == Init => Inv
<1> SUFFICES ASSUME Init PROVE Inv
  OBVIOUS
<1> DEFINE n == Len(CommonLogicalKeys)
           Common == [name : STRING, left : DeviceKeys, right : DeviceKeys]
           Key == [name : Names, both : ToSet(LogicalKeys), left : KeysWith(n), right : KeysWith(n)]
           f(i) == [name |-> CommonLogicalKeys[i].name, both |-> LogicalKeys[i],
                    left |-> CommonLogicalKeys[i].left, right |-> CommonLogicalKeys[i].right]
           context == [NewContext EXCEPT !.beginStage = TRUE]
<1>1. /\ lines = << >> /\ status = "reading" /\ vocabulary \in Vocabularies
      /\ contexts = <<context>> /\ commands = << >>
      /\ logical = [i \in DOMAIN CommonLogicalKeys |-> f(i)]
      /\ systemMatched = TRUE /\ afterEmptyBlock = FALSE
      /\ allowUnmapped = FALSE /\ forwardModifiers = << >>
  BY DEF Init
<1>2. /\ CommonLogicalKeys \in Seq(Common) /\ n <= Len(LogicalKeys) /\ LogicalKeys \in Seq(STRING)
  BY LogicalKeysAreEnough
<1>3. /\ n \in Nat /\ DOMAIN CommonLogicalKeys = 1..n /\ DOMAIN LogicalKeys = 1..Len(LogicalKeys)
      /\ \A i \in 1..n : CommonLogicalKeys[i] \in Common /\ i \in DOMAIN LogicalKeys
  <2> HIDE DEF Common
  <2> QED BY <1>2
<1>4. \A k : DeviceKeys \subseteq KeysWith(k)
  BY DEF KeysWith, OtherKeys
<1>5. ASSUME NEW i \in 1..n
      PROVE  f(i) \in Key /\ f(i).both = LogicalKeys[i] /\ {f(i).left, f(i).right} \subseteq KeysWith(i - 1)
  <2>1. /\ CommonLogicalKeys[i].name \in Names /\ LogicalKeys[i] \in ToSet(LogicalKeys)
        /\ CommonLogicalKeys[i].left \in DeviceKeys /\ CommonLogicalKeys[i].right \in DeviceKeys
    BY <1>3 DEF Names, ToSet
  <2> QED BY <1>4, <2>1
<1>6. logical \in Seq(Key) /\ Len(logical) = n /\ \A i \in 1..n : logical[i] = f(i)
  <2>1. logical \in [1..n -> Key] /\ \A i \in 1..n : logical[i] = f(i)
    BY <1>1, <1>3, <1>5
  <2> HIDE DEF Key, f
  <2> QED BY <1>3, <2>1, MapIs
<1>7. logical \in Definitions(n)
  BY <1>5, <1>6 DEF Definitions
<1>8. Remaining = n /\ Remaining \in 0..Len(logical)
  BY <1>1, <1>3, <1>6 DEF Remaining
<1>9. Types
  <2>1. \A S : << >> \in Seq(S)
    OBVIOUS
  <2>2. lines \in Seq(vocabulary.lines) /\ commands \in CommandsType /\ forwardModifiers \in Seq(KeysWith(Len(logical)))
    BY <1>1, <2>1, Zenon DEF CommandsType
  <2>3. /\ vocabulary \in Vocabularies /\ systemMatched \in BOOLEAN
        /\ afterEmptyBlock \in BOOLEAN /\ allowUnmapped \in BOOLEAN
        /\ status \in {"reading", "forward", "optimize", "replace", "suppress", "done", "error"}
    BY <1>1
  <2>4. Len(logical) <= Len(LogicalKeys) /\ logical \in Definitions(Len(logical))
    BY <1>2, <1>6, <1>7
  <2> QED BY <1>8, <2>2, <2>3, <2>4 DEF Types
<1>10. context \in WholeContexts(n, DOMAIN commands) /\ ~context.fallthrough
  <2>1. "" \in Names /\ TRUE \in BOOLEAN /\ << >> \in SequencesWith(n)
    BY DEF Names, SequencesWith
  <2>2. context \in WholeContexts(n, DOMAIN commands)
    BY <2>1, NewContextIs
  <2> QED BY <2>2 DEF NewContext
<1>11. contexts \in Seq(WholeContexts(n, DOMAIN commands)) /\ Len(contexts) = 1 /\ contexts[1] = context
  BY <1>1, <1>10
<1>12. FallOn(contexts)
  <2> HIDE DEF context
  <2>1. \A i \in 1..Len(contexts) : contexts[i] = context
    BY <1>11
  <2> QED BY <1>10, <2>1 DEF FallOn
<1> QED BY <1>8, <1>9, <1>11, <1>12 DEF Inv

LEMMA InvStaysSo == Inv /\ [Next]_vars => Inv'
<1> SUFFICES ASSUME Inv, [Next]_vars PROVE Inv'
  OBVIOUS
<1>1. CASE UNCHANGED vars
  BY <1>1 DEF vars, file_vars, setting_vars, Inv, Types, Remaining
<1>2. CASE Next
  BY <1>2, ReadEmptyLineStep, ReadMappingStep, ReadCommandStep, ReadOutputStep, ReadContextStep,
     ReadStageStep, ReadLogicalKeyStep, IgnoreDirectiveStep, ReadToggleActiveStep,
     ReadForwardModifiersStep, ReadAllowUnmappedStep, EndSteps, PrependForwardModifiersStep,
     OptimizeContextsStep, ReplaceLogicalKeyStep, ReplacedLogicalKeysStep,
     SuppressForwardedModifiersStep DEF Next
<1> QED BY <1>1, <1>2

\* Everything is of its type, whatever the lines are.
THEOREM ConfigTypeCorrect == Spec => []TypeOK
<1>1. Spec => []Inv
  BY InvHoldsFirst, InvStaysSo, PTL DEF Spec
<1> QED BY <1>1, InvIs, PTL

\* Whatever was removed, split or duplicated, each mapping has its output in
\* the context it is in, contexts fall through to one of the same stage, and no
\* key is there that stands for a logical key that was replaced.
THEOREM ContextsAreAlwaysWhole == Spec => []ContextsAreWhole
<1>1. Spec => []Inv
  BY InvHoldsFirst, InvStaysSo, PTL DEF Spec
<1> QED BY <1>1, InvIs, PTL

-----------------------------------------------------------------------------
(* Forwarded modifiers are suppressed by the last step. *)

LEMMA DoneWhenSuppressed ==
  ASSUME Next, status' = "done"
  PROVE  SuppressForwardedModifiers
<1>1. CASE ReadEmptyLine \/ ReadMapping \/ ReadCommand \/ ReadOutput
  BY <1>1 DEF ReadEmptyLine, ReadMapping, ReadCommand, ReadOutput, Reads, IsIn, Fails
<1>2. CASE ReadContext \/ ReadStage \/ ReadLogicalKey
  BY <1>2 DEF ReadContext, ReadStage, ReadLogicalKey, Reads, Begin, Fails
<1>3. CASE IgnoreDirective \/ ReadToggleActive \/ ReadForwardModifiers \/ ReadAllowUnmapped
  BY <1>3 DEF IgnoreDirective, ReadToggleActive, ReadForwardModifiers, ReadAllowUnmapped, Directive,
              Reads, Fails
<1>4. CASE ReadDone \/ EndOfFile
  BY <1>4 DEF ReadDone, EndOfFile, EndStatus
<1>5. CASE PrependForwardModifiers \/ OptimizeContexts \/ ReplaceLogicalKey \/ ReplacedLogicalKeys
  BY <1>5 DEF PrependForwardModifiers, OptimizeContexts, ReplaceLogicalKey, ReplacedLogicalKeys, Continues
<1> QED BY <1>1, <1>2, <1>3, <1>4, <1>5 DEF Next

Suppressed ==
  status = "done" =>
    \A i \in 1..Len(contexts) : \A j \in 1..Len(forwardModifiers) :
      SuppressedFor(contexts, i, forwardModifiers[j])

LEMMA SuppressedStaysSo == Inv /\ Suppressed /\ [Next]_vars => Suppressed'
<1> SUFFICES ASSUME Inv, Suppressed, [Next]_vars, status' = "done" PROVE Suppressed'
  BY DEF Suppressed
<1>1. CASE UNCHANGED vars
  BY <1>1 DEF vars, setting_vars, Suppressed
<1>2. CASE Next
  BY <1>2, DoneWhenSuppressed, SuppressForwardedModifiersStep DEF Suppressed
<1> QED BY <1>1, <1>2

LEMMA SuppressedIs == Inv /\ Suppressed => ForwardedAreSuppressed
<1> SUFFICES ASSUME Inv, Suppressed, status = "done",
                    NEW c \in ToSet(contexts), NEW in \in ToSet(c.inputs), NEW key \in ToSet(forwardModifiers),
                    Contains(in.input, Press(key))
             PROVE  /\ \A i \in DOMAIN c.outputs : i - 1 = in.output => Quiet(c.outputs[i], key)
                    /\ \A d \in ToSet(contexts) : \A p \in ToSet(d.commandOutputs) :
                         p.index = in.output => Quiet(p.output, key)
  BY DEF ForwardedAreSuppressed, Quiet
<1> DEFINE n == Remaining
           W == WholeContexts(n, DOMAIN commands)
<1>1. contexts \in Seq(W) /\ forwardModifiers \in Seq(KeysWith(Len(logical)))
  BY DEF Inv, Types
<1> HIDE DEF n
<1>2. \A d \in W : d \in ContextsWith(n)
  BY DEF WholeContexts
<1> HIDE DEF W
<1>3. DOMAIN contexts = 1..Len(contexts) /\ \A i \in 1..Len(contexts) : contexts[i] \in ContextsWith(n)
  BY <1>1, <1>2
<1>4. PICK at \in 1..Len(contexts) : c = contexts[at]
  BY <1>3 DEF ToSet
<1>5. c \in ContextsWith(n)
  BY <1>3, <1>4
<1>6. PICK j \in 1..Len(c.inputs) : in = c.inputs[j]
  BY <1>5, ContextParts DEF ToSet
<1>7. PICK k \in 1..Len(forwardModifiers) : key = forwardModifiers[k]
  BY <1>1 DEF ToSet
<1>8. SuppressedFor(contexts, at, key)
  BY <1>4, <1>7 DEF Suppressed
<1>9. ASSUME NEW i \in DOMAIN c.outputs, i - 1 = in.output PROVE Quiet(c.outputs[i], key)
  <2>1. DOMAIN c.outputs = 1..Len(c.outputs) /\ Len(c.outputs) \in Nat
    BY <1>5, ContextParts
  <2>2. in.output + 1 = i /\ i \in 1..Len(c.outputs)
    BY <1>9, <2>1
  <2> QED BY <1>4, <1>6, <1>8, <2>2 DEF SuppressedFor
<1>10. ASSUME NEW d \in ToSet(contexts), NEW p \in ToSet(d.commandOutputs), p.index = in.output
       PROVE  Quiet(p.output, key)
  <2>1. PICK i \in 1..Len(contexts) : d = contexts[i]
    BY <1>3 DEF ToSet
  <2>2. d.commandOutputs \in CommandsWith(n)
    BY <1>3, <2>1 DEF ContextsWith
  <2>3. DOMAIN d.commandOutputs = 1..Len(d.commandOutputs)
    <3>1. d.commandOutputs \in Seq(CommandOutputs(n))
      BY <2>2 DEF CommandsWith, CommandOutputs
    <3> QED BY <3>1
  <2>4. PICK m \in DOMAIN d.commandOutputs : p = d.commandOutputs[m]
    BY DEF ToSet
  <2>5. p \in CommandOutputs(n)
    BY <2>2, <2>4, ElementsAre
  <2>6. p.index < 0
    BY <2>5 DEF CommandOutputs, CommandIndices
  <2> QED BY <1>4, <1>6, <1>8, <1>10, <2>1, <2>3, <2>4, <2>6 DEF SuppressedFor
<1> QED BY <1>9, <1>10

\* Whatever is forwarded is pressed or suppressed in all outputs that an input
\* with the modifier triggers, those of commands in other contexts included.
THEOREM ForwardedAreAlwaysSuppressed == Spec => []ForwardedAreSuppressed
<1>1. Init => Suppressed
  BY DEF Init, Suppressed
<1>2. Spec => [](Inv /\ Suppressed)
  BY <1>1, InvHoldsFirst, InvStaysSo, SuppressedStaysSo, PTL DEF Spec
<1> QED BY <1>2, SuppressedIs, PTL

=============================================================================
