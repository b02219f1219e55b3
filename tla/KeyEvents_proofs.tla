-------------------------- MODULE KeyEvents_proofs --------------------------
(***************************************************************************)
(* Lemmas about the operators on positions and sequences that the models   *)
(* are built from.                                                         *)
(***************************************************************************)
EXTENDS KeyEvents, SequencesExt, WellFoundedInduction, TLAPS

(***************************************************************************)
(* Numbers: a set of them that is not empty has a least element, and the   *)
(* last of some positions of a sequence is one of them.                    *)
(***************************************************************************)

\* What every induction here is made of: the least counterexample.
LEMMA LeastElement ==
  ASSUME NEW T \in SUBSET Nat, T # {}
  PROVE  \E x \in T : \A y \in T : x <= y
<1> DEFINE R == {ss \in Nat \X Nat : ss[1] < ss[2]}
<1>1. IsWellFoundedOn(R, Nat)
  BY NatLessThanWellFounded DEF OpToRel
<1> HIDE DEF R
<1>2. PICK x \in T : \A y \in T : <<y, x>> \notin R
  BY <1>1, WFMin
<1>3. \A y \in T : ~(y < x)
  BY <1>2 DEF R
<1> QED BY <1>3

\* The last position is behind all others (LastOf).
LEMMA LastOfIs ==
  ASSUME NEW n \in Nat, NEW positions \in SUBSET (1..n)
  PROVE  /\ LastOf(positions) \in 0..n
         /\ positions = {} => LastOf(positions) = 0
         /\ positions # {} => /\ LastOf(positions) \in positions
                              /\ \A i \in positions : i <= LastOf(positions)
<1>1. CASE positions = {}
  BY <1>1 DEF LastOf
<1>2. CASE positions # {}
  <2> DEFINE Behind == {d \in Nat : \E i \in positions : d = n - i}
  <2>0. \A i \in positions : i \in 1..n /\ n - i \in Nat
    OBVIOUS
  <2>1. \A i \in positions : n - i \in Behind
    BY <2>0
  <2>2. Behind # {}
    BY <1>2, <2>1
  <2>3. PICK d \in Behind : \A e \in Behind : d <= e
    BY <2>2, LeastElement
  <2>4. PICK last \in positions : d = n - last
    BY <2>3
  <2> HIDE DEF Behind
  <2>5. \A i \in positions : i <= last
    BY <2>0, <2>1, <2>3, <2>4
  <2>6. \A i \in positions : last >= i
    BY <2>0, <2>5
  <2>7. Max(positions) \in positions /\ \A i \in positions : Max(positions) >= i
    BY <2>6, Zenon DEF Max
  <2>8. LastOf(positions) = Max(positions)
    BY <1>2 DEF LastOf
  <2>9. Max(positions) \in 0..n /\ \A i \in positions : i <= Max(positions)
    <3> DEFINE m == Max(positions)
    <3>1. m \in positions /\ \A i \in positions : m >= i
      BY <2>7
    <3> HIDE DEF m
    <3>2. m \in 0..n /\ \A i \in positions : i <= m
      BY <2>0, <3>1
    <3> QED BY <3>2 DEF m
  <2> QED BY <1>2, <2>7, <2>8, <2>9
<1> QED BY <1>1, <1>2

\* The first position is before all others (FirstOf).
LEMMA FirstOfIs ==
  ASSUME NEW n \in Nat, NEW positions \in SUBSET (1..n)
  PROVE  /\ FirstOf(positions) \in 0..n
         /\ positions = {} => FirstOf(positions) = 0
         /\ positions # {} => /\ FirstOf(positions) \in positions
                              /\ \A i \in positions : FirstOf(positions) <= i
<1>1. CASE positions = {}
  BY <1>1 DEF FirstOf
<1>2. CASE positions # {}
  <2>1. PICK first \in positions : \A i \in positions : first <= i
    BY <1>2, LeastElement
  <2>2. Min(positions) \in positions /\ \A i \in positions : Min(positions) <= i
    BY <2>1, Zenon DEF Min
  <2>3. FirstOf(positions) = Min(positions)
    BY <1>2 DEF FirstOf
  <2>4. \A i \in positions : i \in 0..n
    OBVIOUS
  <2> QED BY <1>2, <2>2, <2>3, <2>4
<1> QED BY <1>1, <1>2

-----------------------------------------------------------------------------
(***************************************************************************)
(* Sequences of sequences. FlattenSeq takes its result from a recursive    *)
(* function, which exists; its values are sequences, each the beginning of *)
(* the next one, so the parts lie one behind the other in the result.      *)
(***************************************************************************)

\* The function FlattenSeq takes its result from.
IsFlatten(f, ss, n) ==
  f = [i \in 1..n |-> IF i = 1 THEN ss[i] ELSE f[i-1] \o ss[i]]

LEMMA FlattenExists ==
  ASSUME NEW ss, NEW n \in Nat \ {0}
  PROVE  \E f : IsFlatten(f, ss, n)
<1> DEFINE Bad == {m \in Nat : m # 0 /\ ~ \E f : IsFlatten(f, ss, m)}
<1> SUFFICES ASSUME Bad # {} PROVE FALSE
  OBVIOUS
<1>1. PICK m \in Bad : \A k \in Bad : m <= k
  BY LeastElement
<1>2. m \in Nat /\ m # 0 /\ ~ \E f : IsFlatten(f, ss, m)
  OBVIOUS
<1>3. CASE m = 1
  <2> DEFINE f == [i \in 1..1 |-> ss[i]]
  <2>1. IsFlatten(f, ss, 1)
    BY DEF IsFlatten
  <2> QED BY <2>1, <1>2, <1>3
<1>4. CASE m # 1
  <2>1. m - 1 \in Nat /\ m - 1 # 0
    BY <1>2, <1>4
  <2>2. m - 1 \notin Bad
    BY <1>1, <1>2
  <2>3. PICK g : IsFlatten(g, ss, m - 1)
    BY <2>1, <2>2
  <2> DEFINE f == [i \in 1..m |-> IF i = m THEN g[m - 1] \o ss[m] ELSE g[i]]
  <2>a. \A i \in 1..m : f[i] = IF i = m THEN g[m - 1] \o ss[m] ELSE g[i]
    OBVIOUS
  <2>b. f = [i \in 1..m |-> f[i]]
    OBVIOUS
  <2> HIDE DEF f
  <2>4. ASSUME NEW i \in 1..m
        PROVE  f[i] = IF i = 1 THEN ss[i] ELSE f[i-1] \o ss[i]
    <3>1. i \in Int /\ 1 <= i /\ i <= m
      BY <1>2
    <3>2. CASE i = m
      <4>1. f[i] = g[m - 1] \o ss[m]
        BY <3>2, <2>a
      <4>2. m - 1 \in 1..m /\ m - 1 # m
        BY <1>2, <1>4
      <4>3. f[m - 1] = g[m - 1]
        BY <4>2, <2>a
      <4> QED BY <4>1, <4>3, <3>2, <1>4
    <3>3. CASE i # m
      <4>1. i \in 1..(m - 1)
        BY <3>1, <3>3, <1>2
      <4>2. g[i] = IF i = 1 THEN ss[i] ELSE g[i-1] \o ss[i]
        BY <2>3, <4>1 DEF IsFlatten
      <4>3. f[i] = g[i]
        BY <3>3, <2>a
      <4>4. i # 1 => f[i - 1] = g[i - 1]
        BY <3>1, <3>3, <1>2, <2>a
      <4> QED BY <4>2, <4>3, <4>4
    <3> QED BY <3>2, <3>3
  <2>5. f = [i \in 1..m |-> IF i = 1 THEN ss[i] ELSE f[i-1] \o ss[i]]
    <3> DEFINE h == [i \in 1..m |-> IF i = 1 THEN ss[i] ELSE f[i-1] \o ss[i]]
    <3>1. \A i \in 1..m : f[i] = h[i]
      BY <2>4
    <3>2. h = [i \in 1..m |-> h[i]]
      OBVIOUS
    <3> HIDE DEF h
    <3>3. f = h
      BY <3>1, <3>2, <2>b
    <3> QED BY <3>3 DEF h
  <2>6. IsFlatten(f, ss, m)
    BY <2>5 DEF IsFlatten
  <2> QED BY <2>6, <1>2
<1> QED BY <1>3, <1>4

LEMMA FlattenIs ==
  ASSUME NEW X, NEW ss \in Seq(Seq(X)), Len(ss) # 0
  PROVE  \E f : /\ IsFlatten(f, ss, Len(ss)) /\ FlattenSeq(ss) = f[Len(ss)]
                /\ \A i \in 1..Len(ss) : f[i] \in Seq(X)
<1> DEFINE n == Len(ss)
           f == CHOOSE f : IsFlatten(f, ss, n)
<1>1. n \in Nat \ {0}
  OBVIOUS
<1>2. IsFlatten(f, ss, n)
  BY <1>1, FlattenExists
<1>3. FlattenSeq(ss) = f[n]
  BY DEF FlattenSeq, IsFlatten
<1>4. ASSUME NEW i \in 1..n, f[i] \notin Seq(X) PROVE FALSE
  <2> HIDE DEF f
  <2> DEFINE Bad == {j \in Nat : j \in 1..n /\ f[j] \notin Seq(X)}
  <2>1. i \in Bad
    BY <1>4
  <2>2. PICK m \in Bad : \A k \in Bad : m <= k
    BY <2>1, LeastElement
  <2>3. f[m] = IF m = 1 THEN ss[m] ELSE f[m-1] \o ss[m]
    BY <1>2, <2>2 DEF IsFlatten
  <2>4. ss[m] \in Seq(X)
    BY <2>2
  <2>5. m # 1 => f[m - 1] \in Seq(X)
    <3> SUFFICES ASSUME m # 1, m - 1 \in Bad PROVE FALSE
      BY <2>2, <1>1
    <3> QED BY <2>2, <1>1
  <2>6. f[m] \notin Seq(X)
    BY <2>2
  <2> QED BY <2>3, <2>4, <2>5, <2>6
<1> QED BY <1>2, <1>3, <1>4

LEMMA Concatenation ==
  ASSUME NEW X, NEW a \in Seq(X), NEW b \in Seq(X)
  PROVE  /\ a \o b \in Seq(X) /\ Len(a \o b) = Len(a) + Len(b)
         /\ \A k \in 1..Len(a) : (a \o b)[k] = a[k]
         /\ \A k \in 1..Len(b) : (a \o b)[Len(a) + k] = b[k]
OBVIOUS

\* The parts ss lie one behind the other in s, part i behind position at[i].
PartsLie(at, ss, s) ==
  /\ at \in [1..Len(ss) -> Nat]
  /\ \A i \in 1..Len(ss) : \A k \in 1..Len(ss[i]) :
       at[i] + k \in 1..Len(s) /\ s[at[i] + k] = ss[i][k]
  /\ \A pos \in 1..Len(s) :
       \E i \in 1..Len(ss) : \E k \in 1..Len(ss[i]) : pos = at[i] + k
  /\ \A i, j \in 1..Len(ss) : i < j => at[i] + Len(ss[i]) <= at[j]

LEMMA FlattenParts ==
  ASSUME NEW X, NEW ss \in Seq(Seq(X))
  PROVE  FlattenSeq(ss) \in Seq(X) /\ \E at : PartsLie(at, ss, FlattenSeq(ss))
<1>1. CASE Len(ss) = 0
  <2>1. ss = << >> /\ FlattenSeq(ss) = << >>
    BY <1>1 DEF FlattenSeq
  <2>2. PartsLie(<< >>, ss, << >>)
    BY <1>1, <2>1 DEF PartsLie
  <2>3. << >> \in Seq(X)
    OBVIOUS
  <2>4. \E at : PartsLie(at, ss, << >>)
    BY <2>2, Zenon
  <2> QED BY <2>1, <2>3, <2>4
<1>2. CASE Len(ss) # 0
  <2> DEFINE n == Len(ss)
  <2>1. PICK f : /\ IsFlatten(f, ss, n) /\ FlattenSeq(ss) = f[n]
                 /\ \A i \in 1..n : f[i] \in Seq(X)
    BY <1>2, FlattenIs
  <2>2. n \in Nat \ {0} /\ n \in 1..n
    BY <1>2
  <2>3. \A i \in 1..n : f[i] = IF i = 1 THEN ss[i] ELSE f[i-1] \o ss[i]
    BY <2>1 DEF IsFlatten
  <2>4. \A i \in 1..n : ss[i] \in Seq(X)
    OBVIOUS
  <2> HIDE DEF n
  <2> DEFINE at == [i \in 1..n |-> IF i = 1 THEN 0 ELSE Len(f[i - 1])]
  <2>5. at \in [1..n -> Nat] /\ \A i \in 1..n : at[i] = IF i = 1 THEN 0 ELSE Len(f[i - 1])
    <3>1. ASSUME NEW i \in 1..n PROVE (IF i = 1 THEN 0 ELSE Len(f[i - 1])) \in Nat
      <4>1. i # 1 => i - 1 \in 1..n
        BY <2>2
      <4> QED BY <4>1, <2>1
    <3> QED BY <3>1
  <2> HIDE DEF at
  <2>6. ASSUME NEW i \in 1..n
        PROVE  /\ Len(f[i]) = at[i] + Len(ss[i])
               /\ \A k \in 1..Len(ss[i]) : f[i][at[i] + k] = ss[i][k]
    <3>1. CASE i = 1
      <4>1. f[i] = ss[i] /\ at[i] = 0
        BY <2>3, <2>5, <3>1
      <4> QED BY <4>1, <2>4
    <3>2. CASE i # 1
      <4>1. i - 1 \in 1..n
        BY <3>2, <2>2
      <4>2. f[i] = f[i - 1] \o ss[i] /\ at[i] = Len(f[i - 1])
        BY <2>3, <2>5, <3>2
      <4> DEFINE a == f[i - 1]
                 b == ss[i]
      <4>3. a \in Seq(X) /\ b \in Seq(X)
        BY <4>1, <2>1, <2>4
      <4>4. f[i] = a \o b /\ at[i] = Len(a)
        BY <4>2
      <4> HIDE DEF a, b
      <4>5. Len(a \o b) = Len(a) + Len(b) /\ \A k \in 1..Len(b) : (a \o b)[Len(a) + k] = b[k]
        BY <4>3, Concatenation
      <4> QED BY <4>4, <4>5 DEF b
    <3> QED BY <3>1, <3>2
  <2>7. ASSUME NEW j \in 1..n, NEW i \in j..n
        PROVE  Len(f[j]) <= Len(f[i]) /\ \A k \in 1..Len(f[j]) : f[i][k] = f[j][k]
    <3> DEFINE Keeps(m) == Len(f[j]) <= Len(f[m]) /\ \A k \in 1..Len(f[j]) : f[m][k] = f[j][k]
               Bad == {m \in Nat : m \in j..n /\ ~Keeps(m)}
    <3> SUFFICES ASSUME Bad # {} PROVE FALSE
      <4>1. i \in Nat
        BY <2>2
      <4> QED BY <4>1
    <3>1. PICK m \in Bad : \A k \in Bad : m <= k
      BY LeastElement
    <3>2. m \in Nat /\ m \in j..n /\ ~Keeps(m)
      OBVIOUS
    <3>3. Keeps(j)
      BY <2>1
    <3>4. m # j /\ m - 1 \in Nat /\ m - 1 \in j..n /\ m \in 1..n /\ m # 1 /\ m - 1 \in 1..n
      BY <3>2, <3>3, <2>2
    <3>5. Keeps(m - 1)
      <4>1. m - 1 \notin Bad
        BY <3>1, <3>2
      <4> QED BY <4>1, <3>4
    <3> HIDE DEF Bad
    <3>6. f[m] = f[m - 1] \o ss[m] /\ f[m - 1] \in Seq(X) /\ ss[m] \in Seq(X) /\ f[j] \in Seq(X)
      BY <2>1, <2>3, <2>4, <3>4
    <3> DEFINE a == f[m - 1]
               b == ss[m]
               c == f[j]
               d == f[m]
    <3>7. /\ a \in Seq(X) /\ b \in Seq(X) /\ c \in Seq(X) /\ d = a \o b
          /\ Len(c) <= Len(a) /\ \A k \in 1..Len(c) : a[k] = c[k]
      BY <3>5, <3>6
    <3> HIDE DEF a, b, c, d
    <3>8. Len(d) = Len(a) + Len(b) /\ \A k \in 1..Len(a) : d[k] = a[k]
      BY <3>7, Concatenation
    <3>9. Len(c) <= Len(d) /\ \A k \in 1..Len(c) : d[k] = c[k]
      <4>1. Len(a) \in Nat /\ Len(b) \in Nat /\ Len(c) \in Nat
        BY <3>7
      <4>2. \A k \in 1..Len(c) : k \in 1..Len(a)
        BY <3>7, <4>1
      <4> QED BY <3>7, <3>8, <4>1, <4>2
    <3>10. Keeps(m)
      BY <3>9 DEF c, d
    <3> QED BY <3>2, <3>10
  <2>8. ASSUME NEW i \in 1..n, NEW k \in 1..Len(ss[i])
        PROVE  at[i] + k \in 1..Len(f[n]) /\ f[n][at[i] + k] = ss[i][k]
    <3>1. Len(ss[i]) \in Nat /\ at[i] \in Nat /\ Len(f[n]) \in Nat /\ Len(f[i]) \in Nat
      BY <2>1, <2>2, <2>4, <2>5
    <3>2. n \in i..n
      BY <2>2
    <3>3. Len(f[i]) = at[i] + Len(ss[i]) /\ f[i][at[i] + k] = ss[i][k]
      BY <2>6
    <3>4. Len(f[i]) <= Len(f[n]) /\ \A p \in 1..Len(f[i]) : f[n][p] = f[i][p]
      BY <2>7, <3>2
    <3>5. at[i] + k \in 1..Len(f[i])
      BY <3>1, <3>3
    <3>6. at[i] + k \in 1..Len(f[n])
      BY <3>1, <3>4, <3>5
    <3>7. f[n][at[i] + k] = f[i][at[i] + k]
      BY <3>4, <3>5
    <3> QED BY <3>3, <3>6, <3>7
  <2>9. ASSUME NEW pos \in 1..Len(f[n])
        PROVE  \E i \in 1..n : \E k \in 1..Len(ss[i]) : pos = at[i] + k
    <3> DEFINE Enough == {m \in Nat : m \in 1..n /\ pos <= Len(f[m])}
    <3>0. Len(f[n]) \in Nat
      BY <2>1, <2>2
    <3>1. n \in Enough
      BY <2>2, <3>0
    <3>2. PICK i \in Enough : \A m \in Enough : i <= m
      BY <3>1, LeastElement
    <3>3. i \in 1..n /\ pos <= Len(f[i]) /\ i \in Nat
      OBVIOUS
    <3>4. at[i] < pos
      <4>1. CASE i = 1
        BY <4>1, <2>5, <3>3, <3>0
      <4>2. CASE i # 1
        <5>1. i - 1 \notin Enough /\ i - 1 \in Nat /\ i - 1 \in 1..n
          BY <3>2, <3>3, <4>2, <2>2
        <5>2. ~(pos <= Len(f[i - 1])) /\ Len(f[i - 1]) \in Nat
          BY <5>1, <2>1
        <5>3. at[i] = Len(f[i - 1])
          BY <2>5, <3>3, <4>2
        <5> QED BY <5>2, <5>3, <3>0
      <4> QED BY <4>1, <4>2
    <3>5. at[i] \in Nat /\ Len(ss[i]) \in Nat /\ Len(f[i]) = at[i] + Len(ss[i])
      BY <3>3, <2>4, <2>5, <2>6
    <3>6. pos - at[i] \in 1..Len(ss[i]) /\ pos = at[i] + (pos - at[i])
      BY <3>0, <3>3, <3>4, <3>5
    <3> QED BY <3>3, <3>6
  <2>10. ASSUME NEW i \in 1..n, NEW j \in 1..n, i < j
         PROVE  at[i] + Len(ss[i]) <= at[j]
    <3>1. j # 1 /\ j - 1 \in i..n /\ at[j] = Len(f[j - 1])
      BY <2>2, <2>5, <2>10
    <3> QED BY <3>1, <2>6, <2>7
  <2>11. FlattenSeq(ss) \in Seq(X)
    BY <2>1, <2>2
  <2>12. PartsLie(at, ss, f[n])
    BY <2>5, <2>8, <2>9, <2>10 DEF PartsLie, n
  <2> QED BY <2>1, <2>11, <2>12
<1> QED BY <1>1, <1>2


\* Parts that are not empty adjoin.
PartsMeet(at, ss, s) ==
  \A i \in 1..Len(ss) :
    IF i < Len(ss) THEN at[i + 1] = at[i] + Len(ss[i]) ELSE Len(s) = at[i] + Len(ss[i])
NotEmpty(ss) == \A i \in 1..Len(ss) : Len(ss[i]) \in Nat \ {0}
LEMMA PartsAdjoin ==
  ASSUME NEW ss, NEW s, NEW at, Len(ss) \in Nat, Len(s) \in Nat, PartsLie(at, ss, s), NotEmpty(ss)
  PROVE  PartsMeet(at, ss, s)
<1> SUFFICES ASSUME NEW i \in 1..Len(ss)
             PROVE  IF i < Len(ss) THEN at[i + 1] = at[i] + Len(ss[i]) ELSE Len(s) = at[i] + Len(ss[i])
  BY DEF PartsMeet
<1> USE DEF NotEmpty
<1> DEFINE end == at[i] + Len(ss[i])
<1>1. /\ \A j \in 1..Len(ss) : at[j] \in Nat /\ Len(ss[j]) \in Nat /\ Len(ss[j]) >= 1
      /\ \A j, k \in 1..Len(ss) : j < k => at[j] + Len(ss[j]) <= at[k]
  <2>1. at \in [1..Len(ss) -> Nat] /\ \A j, k \in 1..Len(ss) : j < k => at[j] + Len(ss[j]) <= at[k]
    BY Zenon DEF PartsLie
  <2>2. \A j \in 1..Len(ss) : Len(ss[j]) \in Nat /\ Len(ss[j]) >= 1
    OBVIOUS
  <2> QED BY <2>1, <2>2
<1>2. end \in 1..Len(s)
  <2>1. Len(ss[i]) \in 1..Len(ss[i])
    BY <1>1
  <2>2. \A k \in 1..Len(ss[i]) : at[i] + k \in 1..Len(s)
    BY DEF PartsLie
  <2> QED BY <2>1, <2>2
<1>3. ASSUME end + 1 \in 1..Len(s)
      PROVE  i < Len(ss) /\ at[i + 1] = end
  <2>1. PICK j \in 1..Len(ss) : \E k \in 1..Len(ss[j]) : end + 1 = at[j] + k
    BY <1>3 DEF PartsLie
  <2>2. PICK k \in 1..Len(ss[j]) : end + 1 = at[j] + k
    BY <2>1
  <2>3. /\ at[j] \in Nat /\ Len(ss[j]) \in Nat /\ at[i] \in Nat /\ Len(ss[i]) \in Nat /\ k \in Nat
        /\ k >= 1 /\ k <= Len(ss[j]) /\ Len(ss[i]) >= 1
    BY <1>1
  <2>4. j # i
    BY <2>2, <2>3
  <2>5. ~(j < i)
    <3>1. j < i => at[j] + Len(ss[j]) <= at[i]
      BY <1>1
    <3> QED BY <3>1, <2>2, <2>3
  <2> DEFINE b == at[i + 1]
             m == Len(ss[i + 1])
             a == at[j]
  <2>6. i < j /\ i + 1 \in 1..Len(ss) /\ i \in Nat /\ j \in Nat /\ end \in Nat
    BY <2>3, <2>4, <2>5
  <2>7. b \in Nat /\ m \in Nat /\ m >= 1 /\ end <= b /\ (i + 1 < j => b + m <= a) /\ (i + 1 = j => a = b)
    BY <1>1, <2>6
  <2>8. end + 1 = a + k /\ a \in Nat
    BY <2>2, <2>3
  <2> HIDE DEF end, a, b, m
  <2>9. i + 1 = j /\ b = end
    BY <2>3, <2>6, <2>7, <2>8
  <2> QED BY <2>6, <2>9 DEF b
<1>4. CASE i < Len(ss)
  <2>1. i + 1 \in 1..Len(ss) /\ at[i + 1] \in Nat
    BY <1>1, <1>4
  <2>2. 1 \in 1..Len(ss[i + 1])
    BY <1>1, <2>1
  <2>a. \A k \in 1..Len(ss[i + 1]) : at[i + 1] + k \in 1..Len(s)
    BY <2>1 DEF PartsLie
  <2>3. at[i + 1] + 1 \in 1..Len(s) /\ end <= at[i + 1]
    BY <1>1, <1>4, <2>1, <2>2, <2>a
  <2>4. end + 1 \in 1..Len(s)
    BY <1>2, <2>1, <2>3
  <2> QED BY <1>3, <1>4, <2>4
<1>5. CASE ~(i < Len(ss))
  <2>1. end + 1 \notin 1..Len(s)
    BY <1>3, <1>5
  <2>2. end = Len(s)
    BY <1>2, <2>1
  <2> QED BY <1>5, <2>2
<1> QED BY <1>4, <1>5

\* What is in a flattened sequence is in one of its parts, and the other way.
LEMMA FlattenElements ==
  ASSUME NEW X, NEW ss \in Seq(Seq(X))
  PROVE  /\ FlattenSeq(ss) \in Seq(X)
         /\ \A e : e \in ToSet(FlattenSeq(ss)) <=> \E i \in 1..Len(ss) : e \in ToSet(ss[i])
<1> DEFINE s == FlattenSeq(ss)
<1>1. s \in Seq(X)
  BY FlattenParts
<1>2. PICK at : PartsLie(at, ss, s)
  BY FlattenParts
<1> HIDE DEF s
<1>3. DOMAIN s = 1..Len(s) /\ \A i \in 1..Len(ss) : DOMAIN ss[i] = 1..Len(ss[i])
  BY <1>1
<1>4. ASSUME NEW i \in 1..Len(ss), NEW k \in DOMAIN ss[i] PROVE ss[i][k] \in ToSet(s)
  <2>1. at[i] + k \in DOMAIN s /\ s[at[i] + k] = ss[i][k]
    BY <1>2, <1>3 DEF PartsLie
  <2> QED BY <2>1 DEF ToSet
<1>5. ASSUME NEW pos \in DOMAIN s PROVE \E i \in 1..Len(ss) : s[pos] \in ToSet(ss[i])
  <2>1. PICK i \in 1..Len(ss) : \E k \in 1..Len(ss[i]) : pos = at[i] + k
    BY <1>2, <1>3 DEF PartsLie
  <2>2. PICK k \in 1..Len(ss[i]) : pos = at[i] + k
    BY <2>1
  <2>3. s[pos] = ss[i][k] /\ k \in DOMAIN ss[i]
    BY <1>2, <1>3, <2>2 DEF PartsLie
  <2> QED BY <2>3 DEF ToSet
<1>6. \A e : e \in ToSet(s) <=> \E i \in 1..Len(ss) : e \in ToSet(ss[i])
  BY <1>4, <1>5 DEF ToSet
<1> QED BY <1>1, <1>6 DEF s

\* A function on the positions of a sequence is one, also behind Map.
LEMMA MapIs ==
  ASSUME NEW X, NEW n \in Nat, NEW f \in [1..n -> X]
  PROVE  /\ f \in Seq(X) /\ Len(f) = n
         /\ SubSeq(f, 1, n) = f
OBVIOUS

-----------------------------------------------------------------------------
(***************************************************************************)
(* Folds. FoldLeft takes its result from a recursive function on the sets  *)
(* of positions: it exists (for the operator as a function G, which stays  *)
(* in the sets T), and what it is for 1..k are the steps of the fold.      *)
(***************************************************************************)

\* The sets of positions the steps are taken from: all up to the k-th.
LEMMA Segments ==
  ASSUME NEW k \in Nat, k # 0
  PROVE  Max(1..k) = k /\ (1..k) \ {Max(1..k)} = 1..(k - 1) /\ 1..k # {}
<1>1. k \in 1..k /\ \A i \in 1..k : k >= i
  OBVIOUS
<1>2. Max(1..k) \in 1..k /\ \A i \in 1..k : Max(1..k) >= i
  BY <1>1, Zenon DEF Max
<1>3. ASSUME NEW m \in 1..k, m >= k PROVE m = k
  BY <1>3
<1>4. Max(1..k) = k
  BY <1>1, <1>2, <1>3
<1>5. (1..k) \ {k} = 1..(k - 1)
  OBVIOUS
<1> QED BY <1>1, <1>4, <1>5

LEMMA LastOfSegment ==
  ASSUME NEW m \in Nat, NEW s \in SUBSET (1..m), m \in s
  PROVE  Max(s) = m
<1>1. \A i \in s : m >= i
  OBVIOUS
<1>2. Max(s) \in s /\ \A i \in s : Max(s) >= i
  BY <1>1, Zenon DEF Max
<1>3. ASSUME NEW x \in 1..m, x >= m PROVE x = m
  BY <1>3
<1> QED BY <1>2, <1>3

LEMMA LastOfPositions ==
  ASSUME NEW m \in Nat, NEW s \in SUBSET (1..m), s # {}
  PROVE  Max(s) \in s /\ \A i \in s : i <= Max(s)
BY LastOfIs DEF LastOf

\* The function a fold takes its result from. What a step begins with is in T.
IsFold(f, n, base, T, G) ==
  /\ f = [s \in SUBSET (1..n) |-> IF s = {} THEN base ELSE G[Max(s)][f[s \ {Max(s)}]]]
  /\ \A s \in SUBSET (1..n) : s # {} => f[s \ {Max(s)}] \in T[Max(s) - 1]

LEMMA FoldExists ==
  ASSUME NEW n \in Nat, NEW base, NEW T, NEW G, base \in T[0],
         \A i \in 1..n : T[i - 1] \subseteq T[i],
         \A i \in 1..n : \A x \in T[i - 1] : G[i][x] \in T[i]
  PROVE  \E f : IsFold(f, n, base, T, G)
<1> DEFINE Is(f, m) == IsFold(f, m, base, T, G) /\ \A s \in SUBSET (1..m) : f[s] \in T[m]
           Bad == {m \in Nat : m \in 0..n /\ ~ \E f : Is(f, m)}
<1> SUFFICES ASSUME Bad # {} PROVE FALSE
  <2>1. n \in 0..n
    OBVIOUS
  <2> QED BY <2>1
<1>1. PICK m \in Bad : \A k \in Bad : m <= k
  BY LeastElement
<1>2. m \in Nat /\ m \in 0..n /\ ~ \E f : Is(f, m)
  OBVIOUS
<1>3. CASE m = 0
  <2> DEFINE f == [s \in {{}} |-> base]
  <2>1. SUBSET (1..0) = {{}} /\ f[{}] = base
    OBVIOUS
  <2>2. f = [s \in SUBSET (1..0) |-> IF s = {} THEN base ELSE G[Max(s)][f[s \ {Max(s)}]]]
    BY <2>1
  <2>3. \A s \in SUBSET (1..0) : s = {} /\ f[s] \in T[0]
    BY <2>1
  <2>4. Is(f, 0)
    BY <2>2, <2>3 DEF IsFold
  <2> QED BY <2>4, <1>2, <1>3
<1>4. CASE m # 0
  <2>1. m - 1 \in Nat /\ m - 1 \in 0..n /\ m \in 1..n
    BY <1>2, <1>4
  <2>2. m - 1 \notin Bad
    <3> HIDE DEF Is, Bad
    <3> QED BY <1>1, <1>2
  <2>3. PICK g : Is(g, m - 1)
    BY <2>1, <2>2
  <2> DEFINE f == [s \in SUBSET (1..m) |-> IF m \in s THEN G[m][g[s \ {m}]] ELSE g[s]]
  <2>a. f = [s \in SUBSET (1..m) |-> f[s]]
    OBVIOUS
  <2>b. \A s \in SUBSET (1..m) : f[s] = IF m \in s THEN G[m][g[s \ {m}]] ELSE g[s]
    OBVIOUS
  <2>c. \A s \in SUBSET (1..m) : s \ {m} \in SUBSET (1..(m - 1)) /\ (m \notin s => s \in SUBSET (1..(m - 1)))
    BY <1>2
  <2> HIDE DEF f, Bad
  <2>4. ASSUME NEW s \in SUBSET (1..m)
        PROVE  /\ f[s] = IF s = {} THEN base ELSE G[Max(s)][f[s \ {Max(s)}]]
               /\ s # {} => f[s \ {Max(s)}] \in T[Max(s) - 1]
               /\ f[s] \in T[m]
    <3>1. CASE m \in s
      <4>1. Max(s) = m
        BY <1>2, <3>1, LastOfSegment
      <4>2. f[s \ {m}] = g[s \ {m}] /\ g[s \ {m}] \in T[m - 1]
        <5>1. s \ {m} \in SUBSET (1..m) /\ m \notin s \ {m} /\ s \ {m} \in SUBSET (1..(m - 1))
          BY <2>c
        <5> QED BY <5>1, <2>b, <2>3 DEF IsFold
      <4>3. f[s] = G[m][g[s \ {m}]] /\ s # {}
        BY <3>1, <2>b
      <4> QED BY <4>1, <4>2, <4>3, <2>1
    <3>2. CASE m \notin s
      <4>1. s \in SUBSET (1..(m - 1)) /\ f[s] = g[s]
        BY <3>2, <2>b, <2>c
      <4>2. f[s] \in T[m]
        BY <4>1, <2>1, <2>3 DEF IsFold
      <4>3. CASE s = {}
        <5>1. g[s] = base
          BY <2>3, <4>1, <4>3 DEF IsFold
        <5> QED BY <5>1, <4>1, <4>2, <4>3
      <4>4. CASE s # {}
        <5>1. Max(s) \in s
          BY <4>1, <4>4, <2>1, LastOfPositions
        <5>2. g[s] = G[Max(s)][g[s \ {Max(s)}]] /\ g[s \ {Max(s)}] \in T[Max(s) - 1]
          BY <2>3, <4>1, <4>4 DEF IsFold
        <5>3. s \ {Max(s)} \in SUBSET (1..m) /\ m \notin s \ {Max(s)}
          BY <3>2
        <5>4. f[s \ {Max(s)}] = g[s \ {Max(s)}]
          BY <5>3, <2>b
        <5> QED BY <5>2, <5>4, <4>1, <4>2, <4>4
      <4> QED BY <4>3, <4>4
    <3> QED BY <3>1, <3>2
  <2> DEFINE h == [s \in SUBSET (1..m) |-> IF s = {} THEN base ELSE G[Max(s)][f[s \ {Max(s)}]]]
  <2>5. h = [s \in SUBSET (1..m) |-> h[s]] /\ \A s \in SUBSET (1..m) : f[s] = h[s]
    BY <2>4
  <2> HIDE DEF h
  <2>6. f = h
    BY <2>5, <2>a
  <2>7. Is(f, m)
    BY <2>4, <2>6 DEF h, IsFold
  <2> QED BY <2>7, <1>2
<1> QED BY <1>3, <1>4

\* What holds before the first step and is kept by each holds after all.
LEMMA ChainStays ==
  ASSUME NEW n \in Nat, NEW a, NEW T, a[0] \in T[0],
         \A k \in 1..n : a[k - 1] \in T[k - 1] => a[k] \in T[k]
  PROVE  \A k \in 0..n : a[k] \in T[k]
<1> DEFINE Bad == {m \in Nat : m \in 0..n /\ a[m] \notin T[m]}
<1> SUFFICES ASSUME Bad # {} PROVE FALSE
  OBVIOUS
<1>1. PICK m \in Bad : \A k \in Bad : m <= k
  BY LeastElement
<1>2. m # 0 /\ m \in 1..n /\ m - 1 \in Nat /\ m - 1 \in 0..n
  OBVIOUS
<1>3. m - 1 \notin Bad
  BY <1>1, <1>2
<1> QED BY <1>2, <1>3

LEMMA ChainStaysIn ==
  ASSUME NEW n \in Nat, NEW a, NEW S, a[0] \in S,
         \A k \in 1..n : a[k - 1] \in S => a[k] \in S
  PROVE  \A k \in 0..n : a[k] \in S
<1> DEFINE T == [k \in 0..n |-> S]
<1>1. \A k \in 1..n : k \in 0..n /\ k - 1 \in 0..n
  OBVIOUS
<1>2. a[0] \in T[0] /\ \A k \in 1..n : a[k - 1] \in T[k - 1] => a[k] \in T[k]
  BY <1>1
<1>3. \A k \in 0..n : T[k] = S
  OBVIOUS
<1> HIDE DEF T
<1>4. \A k \in 0..n : a[k] \in T[k]
  BY <1>2, ChainStays
<1> QED BY <1>3, <1>4

-----------------------------------------------------------------------------
(***************************************************************************)
(* What stays in one set S. A fold, and a function of the number of        *)
(* rounds, exist for a step that keeps values in S, and so do their        *)
(* values. The step is a function G of the position and the value.         *)
(***************************************************************************)

\* The function of a fold whose steps stay in S.
FoldsIn(f, n, S, base, G) ==
  /\ f = [s \in SUBSET (1..n) |-> IF s = {} THEN base ELSE G[Max(s)][f[s \ {Max(s)}]]]
  /\ \A s \in SUBSET (1..n) : s # {} => Max(s) \in 1..n /\ f[s \ {Max(s)}] \in S

LEMMA FoldIn ==
  ASSUME NEW n \in Nat, NEW S, NEW base \in S, NEW G,
         \A i \in 1..n : \A x \in S : G[i][x] \in S
  PROVE  \E f : FoldsIn(f, n, S, base, G)
<1> DEFINE T == [k \in 0..n |-> S]
<1>1. \A i \in 1..n : i \in 0..n /\ i - 1 \in 0..n
  OBVIOUS
<1>2. 0 \in 0..n /\ \A k \in 0..n : T[k] = S
  OBVIOUS
<1> HIDE DEF T
<1>3. /\ base \in T[0]
      /\ \A i \in 1..n : T[i - 1] \subseteq T[i]
      /\ \A i \in 1..n : \A x \in T[i - 1] : G[i][x] \in T[i]
  BY <1>1, <1>2
<1>4. PICK f : IsFold(f, n, base, T, G)
  BY <1>3, FoldExists
<1>5. \A s \in SUBSET (1..n) : s # {} => Max(s) \in 1..n
  BY LastOfPositions
<1>6. \A s \in SUBSET (1..n) : s # {} => T[Max(s) - 1] = S
  BY <1>1, <1>2, <1>5
<1>7. \A s \in SUBSET (1..n) : s # {} => Max(s) \in 1..n /\ f[s \ {Max(s)}] \in S
  BY <1>4, <1>5, <1>6 DEF IsFold
<1>8. f = [s \in SUBSET (1..n) |-> IF s = {} THEN base ELSE G[Max(s)][f[s \ {Max(s)}]]]
  BY <1>4 DEF IsFold
<1>9. FoldsIn(f, n, S, base, G)
  BY <1>7, <1>8 DEF FoldsIn
<1> QED BY <1>9

\* The steps of a fold are the values of its function for 1..k.
LEMMA FoldStays ==
  ASSUME NEW n \in Nat, NEW S, NEW f, f[{}] \in S,
         \A k \in 1..n : f[1..(k - 1)] \in S => f[1..k] \in S
  PROVE  f[1..n] \in S
<1> DEFINE a == [k \in 0..n |-> f[1..k]]
<1>1. \A k \in 1..n : k \in 0..n /\ k - 1 \in 0..n
  OBVIOUS
<1>2. 1..0 = {} /\ 0 \in 0..n /\ n \in 0..n
  OBVIOUS
<1>3. \A k \in 0..n : a[k] = f[1..k]
  OBVIOUS
<1> HIDE DEF a
<1>4. a[0] \in S /\ \A k \in 1..n : a[k - 1] \in S => a[k] \in S
  BY <1>1, <1>2, <1>3
<1>5. \A k \in 0..n : a[k] \in S
  BY <1>4, ChainStaysIn
<1> QED BY <1>2, <1>3, <1>5

\* The step that leads to 1..k.
LEMMA FoldStep ==
  ASSUME NEW n \in Nat, NEW k \in 1..n
  PROVE  /\ 1..k \in SUBSET (1..n) /\ 1..k # {} /\ {} \in SUBSET (1..n)
         /\ Max(1..k) = k /\ (1..k) \ {Max(1..k)} = 1..(k - 1)
<1>1. k \in Nat /\ k # 0 /\ 1..k \subseteq 1..n
  OBVIOUS
<1> QED BY <1>1, Segments

\* The function of the number of rounds of a loop whose rounds stay in S.
RoundsIn(f, n, S, base, G) ==
  /\ f = [k \in 0..n |-> IF k = 0 THEN base ELSE G[k][f[k - 1]]]
  /\ \A k \in 0..n : f[k] \in S

LEMMA RoundsExist ==
  ASSUME NEW n \in Nat, NEW S, NEW base \in S, NEW G,
         \A i \in 1..n : \A x \in S : G[i][x] \in S
  PROVE  \E f : RoundsIn(f, n, S, base, G)
<1> DEFINE Is(f, m) == RoundsIn(f, m, S, base, G)
           Bad == {m \in Nat : m \in 0..n /\ ~ \E f : Is(f, m)}
<1> SUFFICES ASSUME Bad # {} PROVE FALSE
  <2>1. n \in 0..n
    OBVIOUS
  <2> QED BY <2>1
<1>1. PICK m \in Bad : \A k \in Bad : m <= k
  BY LeastElement
<1>2. m \in Nat /\ m \in 0..n /\ ~ \E f : Is(f, m)
  OBVIOUS
<1>3. CASE m = 0
  <2> DEFINE f == [k \in {0} |-> base]
  <2>1. 0..0 = {0} /\ f[0] = base
    OBVIOUS
  <2>2. f = [k \in 0..0 |-> IF k = 0 THEN base ELSE G[k][f[k - 1]]]
    BY <2>1
  <2>3. Is(f, 0)
    BY <2>1, <2>2 DEF RoundsIn
  <2> QED BY <2>3, <1>2, <1>3
<1>4. CASE m # 0
  <2>1. m - 1 \in Nat /\ m - 1 \in 0..n /\ m \in 1..n
    BY <1>2, <1>4
  <2>2. m - 1 \notin Bad
    <3> HIDE DEF Is, Bad
    <3> QED BY <1>1, <1>2
  <2>3. PICK g : Is(g, m - 1)
    BY <2>1, <2>2
  <2> DEFINE f == [k \in 0..m |-> IF k = m THEN G[m][g[m - 1]] ELSE g[k]]
  <2>4. \A k \in 0..m : f[k] = IF k = m THEN G[m][g[m - 1]] ELSE g[k]
    OBVIOUS
  <2>5. \A k \in 0..m : k # m => k \in 0..(m - 1)
    BY <1>2
  <2>6. \A k \in 0..(m - 1) : k \in 0..m /\ k # m
    BY <1>2
  <2>7. m - 1 \in 0..(m - 1) /\ m \in 0..m /\ \A k \in 0..(m - 1) : k # 0 => k - 1 \in 0..(m - 1)
    BY <1>2, <2>1
  <2>8. f = [k \in 0..m |-> f[k]]
    OBVIOUS
  <2> HIDE DEF f, Bad
  <2>9. ASSUME NEW k \in 0..m
        PROVE  f[k] = (IF k = 0 THEN base ELSE G[k][f[k - 1]]) /\ f[k] \in S
    <3>1. CASE k = m
      <4>1. f[m - 1] = g[m - 1] /\ g[m - 1] \in S
        BY <2>3, <2>4, <2>6, <2>7 DEF RoundsIn
      <4> QED BY <3>1, <4>1, <2>1, <2>4, <1>4
    <3>2. CASE k # m
      <4>1. k \in 0..(m - 1) /\ f[k] = g[k] /\ g[k] \in S
        BY <3>2, <2>3, <2>4, <2>5 DEF RoundsIn
      <4>2. g[k] = IF k = 0 THEN base ELSE G[k][g[k - 1]]
        BY <4>1, <2>3 DEF RoundsIn
      <4>3. k # 0 => f[k - 1] = g[k - 1]
        BY <4>1, <2>4, <2>6, <2>7
      <4> QED BY <4>1, <4>2, <4>3
    <3> QED BY <3>1, <3>2
  <2> DEFINE h == [k \in 0..m |-> IF k = 0 THEN base ELSE G[k][f[k - 1]]]
  <2>10. h = [k \in 0..m |-> h[k]] /\ \A k \in 0..m : f[k] = h[k]
    BY <2>9
  <2> HIDE DEF h
  <2>11. f = h
    BY <2>8, <2>10
  <2>12. Is(f, m)
    BY <2>9, <2>11 DEF h, RoundsIn
  <2> QED BY <2>12, <1>2
<1> QED BY <1>3, <1>4

\* A sequence of some elements is one of more.
LEMMA SeqMonotone ==
  ASSUME NEW A, NEW B, A \subseteq B, NEW s \in Seq(A)
  PROVE  s \in Seq(B)
OBVIOUS

LEMMA RemoveAtIs ==
  ASSUME NEW X, NEW s \in Seq(X), NEW i \in 0..Len(s)
  PROVE  RemoveAt(s, i) \in Seq(X)
BY DEF RemoveAt

=============================================================================
