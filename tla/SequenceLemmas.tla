--------------------------- MODULE SequenceLemmas ---------------------------
(***************************************************************************)
(* What the recursive functions of SequencesExt compute, for every input.  *)
(*                                                                         *)
(* Induction over the natural numbers is stated here with a set instead of *)
(* the predicate that NaturalsInduction takes as a parameter: a set of     *)
(* numbers that holds 0 and the successors of its members holds them all.  *)
(* It follows from the fact that a non-empty set of numbers has a least    *)
(* one.                                                                    *)
(***************************************************************************)
EXTENDS Integers, SequencesExt, SequenceTheorems, WellFoundedInduction, TLAPS

LEMMA SetInduction ==
  ASSUME NEW S, 0 \in S, \A n \in Nat : n \in S => n + 1 \in S
  PROVE  Nat \subseteq S
<1> DEFINE Rest == Nat \ S
           Less == OpToRel(<, Nat)
<1>1. SUFFICES ASSUME Rest # {} PROVE FALSE
  OBVIOUS
<1>2. IsWellFoundedOn(Less, Nat)
  BY NatLessThanWellFounded
<1>3. Rest \subseteq Nat
  OBVIOUS
<1> HIDE DEF Rest, Less
<1>4. PICK n \in Rest : \A m \in Rest : <<m, n>> \notin Less
  BY <1>1, <1>2, <1>3, WFMin
<1> USE DEF Rest, Less
<1>5. n \in Nat /\ n \notin S /\ n # 0
  BY <1>4
<1>6. n - 1 \in Nat /\ n - 1 \notin S
  BY <1>5
<1>7. <<n - 1, n>> \in Less
  BY <1>5, <1>6 DEF OpToRel
<1> QED
  BY <1>4, <1>6, <1>7

-----------------------------------------------------------------------------
(***************************************************************************)
(* FlattenSeq.                                                             *)
(***************************************************************************)
\* The provers follow an operator of two sequences better than they do \o.
Joined(s, t) == s \o t

\* f holds the concatenation of the first i sequences of seqs, for every i up to n.
Flattens(f, seqs, n) ==
  f = [i \in 1..n |-> IF i = 1 THEN seqs[i] ELSE Joined(f[i - 1], seqs[i])]

\* s and t have the same first n elements.
Alike(s, t, n) == \A i \in 1..n : s[i] = t[i]

LEMMA FlatteningValues ==
  ASSUME NEW f, NEW seqs, NEW n \in Nat
  PROVE  Flattens(f, seqs, n) <=>
           /\ f = [i \in 1..n |-> f[i]]
           /\ \A i \in 1..n : f[i] = IF i = 1 THEN seqs[i] ELSE Joined(f[i - 1], seqs[i])
<1> DEFINE value(i) == IF i = 1 THEN seqs[i] ELSE Joined(f[i - 1], seqs[i])
<1>1. Flattens(f, seqs, n) <=> f = [i \in 1..n |-> value(i)]
  BY Zenon DEF Flattens
<1> HIDE DEF value
<1>2. f = [i \in 1..n |-> value(i)] <=>
        f = [i \in 1..n |-> f[i]] /\ \A i \in 1..n : f[i] = value(i)
  OBVIOUS
<1> QED
  BY <1>1, <1>2 DEF value

LEMMA FlatteningSteps ==
  ASSUME NEW f, NEW seqs, NEW n \in Nat, Flattens(f, seqs, n)
  PROVE  /\ n # 0 => f[1] = seqs[1]
         /\ \A k \in Nat \ {0} : k + 1 \in 1..n => f[k + 1] = Joined(f[k], seqs[k + 1])
<1>1. \A i \in 1..n : f[i] = IF i = 1 THEN seqs[i] ELSE Joined(f[i - 1], seqs[i])
  BY FlatteningValues
<1>2. ASSUME NEW k \in Nat \ {0}, k + 1 \in 1..n
      PROVE  f[k + 1] = Joined(f[k], seqs[k + 1])
  <2>1. k + 1 # 1 /\ k + 1 - 1 = k
    OBVIOUS
  <2>2. f[k + 1] = Joined(f[k + 1 - 1], seqs[k + 1])
    BY <1>1, <1>2, <2>1
  <2> QED
    BY <2>1, <2>2
<1> QED
  BY <1>1, <1>2

LEMMA FlatteningExists ==
  ASSUME NEW seqs, NEW n \in Nat
  PROVE  \E f : Flattens(f, seqs, n)
<1> DEFINE S == {k \in Nat : \E f : Flattens(f, seqs, k)}
<1>1. 0 \in S
  <2>1. Flattens([i \in 1..0 |-> seqs[i]], seqs, 0)
    BY DEF Flattens
  <2> QED
    BY <2>1
<1>2. ASSUME NEW k \in Nat, k \in S
      PROVE  k + 1 \in S
  <2>1. PICK f : Flattens(f, seqs, k)
    BY <1>2
  <2> DEFINE g == [i \in 1..(k + 1) |-> IF i <= k THEN f[i]
                                        ELSE IF i = 1 THEN seqs[i] ELSE Joined(f[i - 1], seqs[i])]
  <2>2. ASSUME NEW i \in 1..(k + 1)
        PROVE  g[i] = IF i = 1 THEN seqs[i] ELSE Joined(g[i - 1], seqs[i])
    <3>1. CASE i <= k
      <4>1. g[i] = f[i] /\ (i # 1 => g[i - 1] = f[i - 1])
        BY <3>1
      <4>2. f[i] = IF i = 1 THEN seqs[i] ELSE Joined(f[i - 1], seqs[i])
        BY <2>1, <3>1, FlatteningValues
      <4> HIDE DEF g
      <4> QED
        BY <4>1, <4>2
    <3>2. CASE i = k + 1
      <4>1. /\ g[i] = IF i = 1 THEN seqs[i] ELSE Joined(f[i - 1], seqs[i])
            /\ i # 1 => g[i - 1] = f[i - 1]
        BY <3>2
      <4> HIDE DEF g
      <4> QED
        BY <4>1
    <3> QED
      BY <3>1, <3>2
  <2>3. Flattens(g, seqs, k + 1)
    <3> HIDE DEF g
    <3>1. g = [i \in 1..(k + 1) |-> g[i]]
      BY DEF g
    <3>2. k + 1 \in Nat
      OBVIOUS
    <3>3. \A i \in 1..(k + 1) : g[i] = IF i = 1 THEN seqs[i] ELSE Joined(g[i - 1], seqs[i])
      BY <2>2
    <3> QED
      BY <3>1, <3>2, <3>3, FlatteningValues, Zenon
  <2> QED
    BY <2>3
<1> HIDE DEF S
<1>3. Nat \subseteq S
  BY <1>1, <1>2, SetInduction
<1> QED
  BY <1>3 DEF S

LEMMA FlatteningsAgree ==
  ASSUME NEW s, NEW t, NEW f, NEW g, NEW m \in Nat, NEW n \in Nat,
         Flattens(f, s, m), Flattens(g, t, n), m <= n,
         Alike(s, t, m)
  PROVE  Alike(f, g, m)
<1>0. \A i \in 1..m : s[i] = t[i]
  BY DEF Alike
<1> DEFINE S == {k \in Nat : k \in 1..m => f[k] = g[k]}
<1>1. 0 \in S
  OBVIOUS
<1>2. ASSUME NEW k \in Nat, k \in S
      PROVE  k + 1 \in S
  <2>1. SUFFICES ASSUME k + 1 \in 1..m PROVE f[k + 1] = g[k + 1]
    OBVIOUS
  <2>2. CASE k = 0
    BY <1>0, <2>1, <2>2, FlatteningSteps
  <2>3. CASE k # 0
    <3>1. f[k] = g[k]
      BY <1>2, <2>1, <2>3
    <3>2. f[k + 1] = Joined(f[k], s[k + 1]) /\ g[k + 1] = Joined(g[k], t[k + 1])
      BY <2>1, <2>3, FlatteningSteps
    <3> QED
      BY <1>0, <2>1, <3>1, <3>2
  <2> QED
    BY <2>2, <2>3
<1> HIDE DEF S
<1>3. Nat \subseteq S
  BY <1>1, <1>2, SetInduction
<1> QED
  BY <1>3 DEF S, Alike

LEMMA FlattenSeqIsFlattening ==
  ASSUME NEW seqs, Len(seqs) \in Nat \ {0}, NEW f, Flattens(f, seqs, Len(seqs))
  PROVE  FlattenSeq(seqs) = f[Len(seqs)]
<1> DEFINE g == CHOOSE h : Flattens(h, seqs, Len(seqs))
<1>1. FlattenSeq(seqs) = g[Len(seqs)]
  BY Zenon DEF FlattenSeq, Flattens, Joined
<1>2. Flattens(g, seqs, Len(seqs))
  OBVIOUS
<1> HIDE DEF g
<1>3. Alike(f, g, Len(seqs))
  <2>1. Alike(seqs, seqs, Len(seqs))
    BY DEF Alike
  <2> QED
    BY <1>2, <2>1, FlatteningsAgree
<1> QED
  BY <1>1, <1>3 DEF Alike

LEMMA FlattenEmpty == FlattenSeq(<<>>) = <<>>
BY DEF FlattenSeq

LEMMA FlattenSingle ==
  ASSUME NEW s
  PROVE  FlattenSeq(<<s>>) = s
<1> DEFINE seqs == <<s>>
<1>1. Len(seqs) = 1 /\ seqs[1] = s /\ Len(seqs) \in Nat \ {0}
  OBVIOUS
<1> HIDE DEF seqs
<1>2. PICK f : Flattens(f, seqs, Len(seqs))
  BY <1>1, FlatteningExists
<1>3. FlattenSeq(seqs) = f[Len(seqs)]
  BY <1>1, <1>2, FlattenSeqIsFlattening
<1>4. f[1] = s
  BY <1>1, <1>2, FlatteningSteps
<1> QED
  BY <1>1, <1>3, <1>4 DEF seqs

\* The concatenation of sequences is a sequence.
LEMMA FlattenType ==
  ASSUME NEW E, NEW seqs \in Seq(Seq(E))
  PROVE  FlattenSeq(seqs) \in Seq(E)
<1>1. CASE seqs = <<>>
  <2>1. FlattenSeq(seqs) = <<>>
    BY <1>1, FlattenEmpty, Zenon
  <2> QED
    BY <2>1
<1>2. CASE seqs # <<>>
  <2>0. Len(seqs) \in Nat
    OBVIOUS
  <2>1. PICK f : Flattens(f, seqs, Len(seqs))
    BY <2>0, FlatteningExists
  <2> DEFINE S == {k \in Nat : k \in 1..Len(seqs) => f[k] \in Seq(E)}
  <2>2. 0 \in S
    OBVIOUS
  <2>3. ASSUME NEW k \in Nat, k \in S
        PROVE  k + 1 \in S
    <3>1. SUFFICES ASSUME k + 1 \in 1..Len(seqs) PROVE f[k + 1] \in Seq(E)
      OBVIOUS
    <3>2. seqs[k + 1] \in Seq(E)
      BY <3>1
    <3>3. CASE k = 0
      BY <2>0, <2>1, <3>1, <3>2, <3>3, FlatteningSteps
    <3>4. CASE k # 0
      <4>1. f[k] \in Seq(E)
        BY <2>3, <3>1, <3>4
      <4>2. f[k + 1] = Joined(f[k], seqs[k + 1])
        BY <2>0, <2>1, <3>1, <3>4, FlatteningSteps
      <4> QED
        BY <3>2, <4>1, <4>2 DEF Joined
    <3> QED
      BY <3>3, <3>4
  <2> HIDE DEF S
  <2>4. Nat \subseteq S
    BY <2>2, <2>3, SetInduction
  <2>5. Len(seqs) \in Nat \ {0}
    BY <1>2
  <2>6. f[Len(seqs)] \in Seq(E)
    BY <2>4, <2>5 DEF S
  <2> QED
    BY <2>1, <2>5, <2>6, FlattenSeqIsFlattening
<1> QED
  BY <1>1, <1>2

LEMMA FlattenAppend ==
  ASSUME NEW E, NEW seqs \in Seq(Seq(E)), NEW s \in Seq(E)
  PROVE  FlattenSeq(Append(seqs, s)) = FlattenSeq(seqs) \o s
<1> DEFINE longer == Append(seqs, s)
           n == Len(seqs)
           m == n + 1
<1>1. /\ Len(longer) = n + 1 /\ n \in Nat
      /\ \A i \in 1..n : longer[i] = seqs[i]
      /\ longer[n + 1] = s
  OBVIOUS
<1>0. Len(seqs) = n
  OBVIOUS
<1>9. m \in Nat /\ m = n + 1 /\ n <= m
  BY <1>1
<1> HIDE DEF longer, n, m
<1>2. PICK g : Flattens(g, longer, m)
  BY <1>9, FlatteningExists
<1>3. FlattenSeq(longer) = g[n + 1]
  BY <1>1, <1>2, <1>9, FlattenSeqIsFlattening
<1>4. CASE seqs = <<>>
  <2>1. n = 0 /\ FlattenSeq(seqs) = <<>>
    BY <1>4, FlattenEmpty DEF n
  <2>2. g[n + 1] = s
    BY <1>1, <1>2, <1>9, <2>1, FlatteningSteps
  <2> QED
    BY <1>3, <2>1, <2>2 DEF longer
<1>5. CASE seqs # <<>>
  <2>1. n \in Nat \ {0}
    BY <1>5 DEF n
  <2>2. PICK f : Flattens(f, seqs, n)
    BY <1>1, FlatteningExists
  <2>3. \A i \in 1..n : g[i] = f[i]
    <3>1. Alike(seqs, longer, n)
      BY <1>1 DEF Alike
    <3>2. Alike(f, g, n)
      BY <1>1, <1>2, <1>9, <2>2, <3>1, FlatteningsAgree
    <3> QED
      BY <3>2 DEF Alike
  <2>4. FlattenSeq(seqs) = g[n]
    BY <1>0, <2>1, <2>2, <2>3, FlattenSeqIsFlattening
  <2>5. g[n + 1] = Joined(g[n], s)
    BY <1>1, <1>2, <1>9, <2>1, FlatteningSteps
  <2> QED
    BY <1>3, <2>1, <2>4, <2>5 DEF longer, Joined
<1> QED
  BY <1>4, <1>5

\* Flattening a concatenation.
LEMMA FlattenConcat ==
  ASSUME NEW E, NEW x \in Seq(Seq(E)), NEW y \in Seq(Seq(E))
  PROVE  FlattenSeq(x \o y) = FlattenSeq(x) \o FlattenSeq(y)
<1> DEFINE first(k) == SubSeq(y, 1, k)
           S == {k \in Nat : k <= Len(y) => FlattenSeq(x \o first(k)) = FlattenSeq(x) \o FlattenSeq(first(k))}
<1>1. 0 \in S
  <2>1. first(0) = << >>
    BY SubSeqEmpty
  <2>2. x \o << >> = x
    BY ConcatEmptySeq
  <2>3. FlattenSeq(x) \in Seq(E)
    BY FlattenType
  <2>4. FlattenSeq(x) \o << >> = FlattenSeq(x)
    BY <2>3, ConcatEmptySeq
  <2> QED
    BY <2>1, <2>2, <2>4, FlattenEmpty
<1>2. ASSUME NEW k \in Nat, k \in S
      PROVE  k + 1 \in S
  <2>1. SUFFICES ASSUME k + 1 <= Len(y)
                 PROVE  FlattenSeq(x \o first(k + 1)) = FlattenSeq(x) \o FlattenSeq(first(k + 1))
    OBVIOUS
  <2> DEFINE a == first(k)
             z == y[k + 1]
  <2>2. a \in Seq(Seq(E)) /\ z \in Seq(E) /\ first(k + 1) = Append(a, z)
    <3>1. /\ a \in Seq(Seq(E)) /\ Len(a) = k /\ \A j \in 1 .. k : a[j] = y[j]
      <4>1. 1 \in Int /\ k \in Int /\ \A j \in 1 .. k : y[j] \in Seq(E) /\ 1 + j - 1 = j
        BY <2>1
      <4> QED
        BY <2>1, <4>1, SubSeqProperties
    <3>2. /\ first(k + 1) \in Seq(Seq(E)) /\ Len(first(k + 1)) = k + 1
          /\ \A j \in 1 .. k + 1 : first(k + 1)[j] = y[j]
      <4>1. 1 \in Int /\ k + 1 \in Int /\ \A j \in 1 .. k + 1 : y[j] \in Seq(E) /\ 1 + j - 1 = j
        BY <2>1
      <4> QED
        BY <2>1, <4>1, SubSeqProperties
    <3>3. z \in Seq(E)
      BY <2>1
    <3> DEFINE b == first(k + 1)
    <3> HIDE DEF a, z, first
    <3>4. Append(a, z) \in Seq(Seq(E)) /\ Len(Append(a, z)) = k + 1
          /\ \A j \in 1 .. k + 1 : Append(a, z)[j] = IF j <= k THEN a[j] ELSE z
      BY <3>1, <3>3, AppendProperties
    <3>5. \A j \in 1 .. k + 1 : b[j] = Append(a, z)[j]
      <4>1. SUFFICES ASSUME NEW j \in 1 .. k + 1 PROVE b[j] = Append(a, z)[j]
        OBVIOUS
      <4>2. b[j] = y[j]
        BY <3>2
      <4>3. Append(a, z)[j] = IF j <= k THEN a[j] ELSE z
        BY <3>4
      <4>4. CASE j <= k
        BY <3>1, <4>2, <4>3, <4>4
      <4>5. CASE j = k + 1
        <5>1. ~ (j <= k)
          BY <4>5
        <5> QED
          BY <4>2, <4>3, <4>5, <5>1 DEF z
      <4>6. j <= k \/ j = k + 1
        OBVIOUS
      <4> QED
        BY <4>4, <4>5, <4>6, Zenon
    <3> HIDE DEF b
    <3>6. b = Append(a, z)
      BY <3>2, <3>4, <3>5, SeqEqual DEF b
    <3> QED
      BY <3>1, <3>3, <3>6 DEF b
  <2>3. FlattenSeq(x \o a) = FlattenSeq(x) \o FlattenSeq(a)
    BY <1>2, <2>1
  <2> HIDE DEF a, z
  <2>4. x \o a \in Seq(Seq(E)) /\ x \o Append(a, z) = Append(x \o a, z)
    BY <2>2
  <2>5. FlattenSeq(Append(x \o a, z)) = FlattenSeq(x \o a) \o z
    BY <2>2, <2>4, FlattenAppend
  <2>6. FlattenSeq(Append(a, z)) = FlattenSeq(a) \o z
    BY <2>2, FlattenAppend
  <2>7. FlattenSeq(x) \in Seq(E) /\ FlattenSeq(a) \in Seq(E)
    BY <2>2, FlattenType
  <2>8. (FlattenSeq(x) \o FlattenSeq(a)) \o z = FlattenSeq(x) \o (FlattenSeq(a) \o z)
    <3> DEFINE fx == FlattenSeq(x)
               fa == FlattenSeq(a)
    <3>1. fx \in Seq(E) /\ fa \in Seq(E) /\ z \in Seq(E)
      BY <2>2, <2>7
    <3> HIDE DEF fx, fa
    <3>2. (fx \o fa) \o z = fx \o (fa \o z)
      BY <3>1, ConcatAssociative
    <3> QED
      BY <3>2 DEF fx, fa
  <2> QED
    BY <2>2, <2>3, <2>4, <2>5, <2>6, <2>8
<1> HIDE DEF S
<1>3. Nat \subseteq S
  BY <1>1, <1>2, SetInduction
<1> DEFINE n == Len(y)
<1>4. n \in Nat /\ n <= Len(y)
  OBVIOUS
<1>5. first(n) = y
  BY SubSeqFull
<1> HIDE DEF n
<1>6. FlattenSeq(x \o first(n)) = FlattenSeq(x) \o FlattenSeq(first(n))
  BY <1>3, <1>4 DEF S
<1> QED
  BY <1>5, <1>6

-----------------------------------------------------------------------------
(***************************************************************************)
(* Where the elements of the flattened sequences are.                      *)
(***************************************************************************)
FlattenFirst(seqs, n) == FlattenSeq([i \in 1..n |-> seqs[i]])

LEMMA FlattenFirstStep ==
  ASSUME NEW E, NEW seqs \in Seq(Seq(E))
  PROVE  /\ FlattenFirst(seqs, 0) = <<>>
         /\ \A n \in 0..Len(seqs) : FlattenFirst(seqs, n) \in Seq(E)
         /\ \A n \in 0..(Len(seqs) - 1) :
              FlattenFirst(seqs, n + 1) = FlattenFirst(seqs, n) \o seqs[n + 1]
<1> DEFINE first(n) == [i \in 1..n |-> seqs[i]]
<1>1. first(0) = <<>>
  OBVIOUS
<1>2. \A n \in 0..Len(seqs) : first(n) \in Seq(Seq(E))
  OBVIOUS
<1>3. ASSUME NEW n \in 0..(Len(seqs) - 1)
      PROVE  first(n + 1) = Append(first(n), seqs[n + 1]) /\ seqs[n + 1] \in Seq(E)
  OBVIOUS
<1>4. \A n : FlattenFirst(seqs, n) = FlattenSeq(first(n))
  BY DEF FlattenFirst
<1> HIDE DEF first
<1>5. FlattenFirst(seqs, 0) = <<>>
  BY <1>1, <1>4, FlattenEmpty
<1>6. \A n \in 0..Len(seqs) : FlattenFirst(seqs, n) \in Seq(E)
  BY <1>2, <1>4, FlattenType
<1>7. ASSUME NEW n \in 0..(Len(seqs) - 1)
      PROVE  FlattenFirst(seqs, n + 1) = FlattenFirst(seqs, n) \o seqs[n + 1]
  <2>1. n \in 0..Len(seqs) /\ n + 1 \in 0..Len(seqs)
    OBVIOUS
  <2>2. first(n) \in Seq(Seq(E)) /\ seqs[n + 1] \in Seq(E)
    BY <1>2, <1>3, <2>1
  <2>3. FlattenSeq(Append(first(n), seqs[n + 1])) = FlattenSeq(first(n)) \o seqs[n + 1]
    BY <2>2, FlattenAppend
  <2>4. first(n + 1) = Append(first(n), seqs[n + 1])
    BY <1>3
  <2>5. FlattenFirst(seqs, n + 1) = FlattenSeq(first(n + 1))
        /\ FlattenFirst(seqs, n) = FlattenSeq(first(n))
    BY <1>4
  <2> QED
    BY <2>3, <2>4, <2>5, Zenon
<1> QED
  BY <1>5, <1>6, <1>7

\* The j-th element of the i-th sequence comes after all elements of the first i - 1,
\* and every element is one of these.
FlattenPlacesUpTo(seqs, n) ==
  /\ \A i \in 1..n : \A j \in 1..Len(seqs[i]) :
       /\ Len(FlattenFirst(seqs, i - 1)) + j \in 1..Len(FlattenFirst(seqs, n))
       /\ FlattenFirst(seqs, n)[Len(FlattenFirst(seqs, i - 1)) + j] = seqs[i][j]
  /\ \A k \in 1..Len(FlattenFirst(seqs, n)) :
       \E i \in 1..n : \E j \in 1..Len(seqs[i]) : k = Len(FlattenFirst(seqs, i - 1)) + j

LEMMA FlattenPlaces ==
  ASSUME NEW E, NEW seqs \in Seq(Seq(E))
  PROVE  \A n \in 0..Len(seqs) : FlattenPlacesUpTo(seqs, n)
<1> DEFINE S == {n \in Nat : n <= Len(seqs) => FlattenPlacesUpTo(seqs, n)}
<1>0. \A n \in 0..Len(seqs) : FlattenFirst(seqs, n) \in Seq(E)
  BY FlattenFirstStep
<1>1. 0 \in S
  BY FlattenFirstStep DEF FlattenPlacesUpTo
<1>2. ASSUME NEW n \in Nat, n \in S, n + 1 <= Len(seqs)
      PROVE  FlattenPlacesUpTo(seqs, n + 1)
  <2> DEFINE old == FlattenFirst(seqs, n)
             new == FlattenFirst(seqs, n + 1)
             start(i) == Len(FlattenFirst(seqs, i - 1))
             last == seqs[n + 1]
  <2>1. /\ old \in Seq(E) /\ last \in Seq(E) /\ new = old \o last
        /\ start(n + 1) = Len(old)
    <3>1. n \in 0..(Len(seqs) - 1) /\ n \in 0..Len(seqs) /\ n + 1 - 1 = n
      BY <1>2
    <3> QED
      BY <3>1, <1>0, FlattenFirstStep
  <2>2. FlattenPlacesUpTo(seqs, n)
    BY <1>2
  <2>3. \A i \in 1..n : start(i) \in Nat /\ Len(seqs[i]) \in Nat
    <3>1. \A i \in 1..n : i - 1 \in 0..Len(seqs) /\ i \in 1..Len(seqs)
      BY <1>2
    <3>2. \A i \in 1..n : FlattenFirst(seqs, i - 1) \in Seq(E)
      BY <3>1, <1>0
    <3> QED
      BY <3>1, <3>2
  <2>4. /\ Len(new) = Len(old) + Len(last) /\ Len(old) \in Nat /\ Len(last) \in Nat
        /\ \A k \in 1..Len(old) : new[k] = old[k]
        /\ \A j \in 1..Len(last) : new[Len(old) + j] = last[j]
        /\ last = seqs[n + 1]
    <3>1. last = seqs[n + 1]
      OBVIOUS
    <3> HIDE DEF old, new, last
    <3> QED
      BY <2>1, <3>1
  <2>5. /\ \A i \in 1..n : \A j \in 1..Len(seqs[i]) :
             start(i) + j \in 1..Len(old) /\ old[start(i) + j] = seqs[i][j]
        /\ \A k \in 1..Len(old) : \E i \in 1..n : \E j \in 1..Len(seqs[i]) : k = start(i) + j
    BY <2>2 DEF FlattenPlacesUpTo
  <2>6. \A i \in 1..(n + 1) : i \in 1..n \/ i = n + 1
    BY <1>2
  <2> HIDE DEF old, new, start, last
  <2>7. ASSUME NEW i \in 1..(n + 1), NEW j \in 1..Len(seqs[i])
        PROVE  start(i) + j \in 1..Len(new) /\ new[start(i) + j] = seqs[i][j]
    <3>1. CASE i \in 1..n
      <4>1. start(i) + j \in 1..Len(old) /\ old[start(i) + j] = seqs[i][j]
        BY <3>1, <2>5
      <4> DEFINE k == start(i) + j
      <4>2. k \in 1..Len(old) /\ old[k] = seqs[i][j]
        BY <4>1
      <4> HIDE DEF k
      <4>3. k \in 1..Len(new) /\ new[k] = seqs[i][j]
        BY <4>2, <2>4
      <4> QED
        BY <4>3 DEF k
    <3>2. CASE i = n + 1
      BY <3>2, <2>1, <2>4
    <3> QED
      BY <3>1, <3>2, <2>6
  <2>8. ASSUME NEW k \in 1..Len(new)
        PROVE  \E i \in 1..(n + 1) : \E j \in 1..Len(seqs[i]) : k = start(i) + j
    <3>1. CASE k \in 1..Len(old)
      <4>1. PICK i \in 1..n : \E j \in 1..Len(seqs[i]) : k = start(i) + j
        BY <3>1, <2>5
      <4> QED
        BY <4>1, <1>2
    <3>2. CASE k \notin 1..Len(old)
      <4> DEFINE j == k - Len(old)
      <4>1. j \in 1..Len(last) /\ k = Len(old) + j
        BY <3>2, <2>4
      <4> HIDE DEF j
      <4>2. n + 1 \in 1..(n + 1)
        OBVIOUS
      <4>3. j \in 1..Len(seqs[n + 1]) /\ k = start(n + 1) + j
        BY <4>1, <2>1, <2>4, Zenon
      <4> QED
        BY <4>2, <4>3
    <3> QED
      BY <3>1, <3>2
  <2> QED
    BY <2>7, <2>8 DEF FlattenPlacesUpTo, new, start
<1>3. \A n \in Nat : n \in S => n + 1 \in S
  BY <1>2
<1>4. Nat \subseteq S
  <2> HIDE DEF S
  <2> QED
    BY <1>1, <1>3, SetInduction
<1> QED
  BY <1>4

=============================================================================
