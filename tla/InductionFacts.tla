---------------------------- MODULE InductionFacts ----------------------------
(***************************************************************************)
(* Induction over the naturals with a set in the place of the predicate    *)
(* (from the well-foundedness of < alone), and what it gives for sequences *)
(* that the recursive function Kept builds and for sums over finite sets.  *)
(***************************************************************************)
EXTENDS Subsequences, Functions, FiniteSetTheorems, WellFoundedInduction, TLAPS

\* Induction, with a set for the predicate.
LEMMA NatSetInduction ==
  ASSUME NEW S, 0 \in S, \A n \in Nat : n \in S => n + 1 \in S
  PROVE  Nat \subseteq S
<1> SUFFICES ASSUME Nat \ S # {} PROVE FALSE
  OBVIOUS
<1> DEFINE R == OpToRel(<, Nat)
<1>1. PICK x \in Nat \ S : \A y \in Nat \ S : <<y, x>> \notin R
  <2>1. IsWellFoundedOn(R, Nat) BY NatLessThanWellFounded
  <2> HIDE DEF R
  <2> QED BY <2>1, WFMin
<1>2. \A y \in Nat : y < x => <<y, x>> \in R
  BY DEF OpToRel
<1>3. x # 0 BY <1>1
<1>4. x - 1 \in Nat /\ x - 1 < x /\ (x - 1) + 1 = x BY <1>3
<1>5. x - 1 \in S BY <1>1, <1>2, <1>4
<1>6. (x - 1) + 1 \in S BY <1>4, <1>5
<1> QED BY <1>1, <1>4, <1>6

\* Induction over an interval that starts at zero.
LEMMA IntervalInduction ==
  ASSUME NEW m \in Nat, NEW S, 0 \in S, \A n \in 0 .. m - 1 : n \in S => n + 1 \in S
  PROVE  0 .. m \subseteq S
<1> DEFINE T == {n \in Nat : n <= m => n \in S}
<1>1. 0 \in T OBVIOUS
<1>2. \A n \in Nat : n \in T => n + 1 \in T OBVIOUS
<1> HIDE DEF T
<1>3. Nat \subseteq T BY <1>1, <1>2, NatSetInduction
<1> QED BY <1>3 DEF T

-----------------------------------------------------------------------------
(* Kept                                                                    *)

\* The function that Kept is defined by.
KeptUpTo(f, s, S, n) ==
  f = [i \in 0 .. n |-> IF i = 0 THEN << >> ELSE IF s[i] \in S THEN Append(f[i - 1], s[i]) ELSE f[i - 1]]

\* There is such a function, so that its defining equation holds.
LEMMA KeptExists ==
  ASSUME NEW X, NEW s \in Seq(X), NEW S
  PROVE  \E f : KeptUpTo(f, s, S, Len(s)) /\ Kept(s, S) = f[Len(s)]
<1> DEFINE T == {n \in 0 .. Len(s) : \E f : KeptUpTo(f, s, S, n)}
<1>0. Len(s) \in Nat OBVIOUS
<1>1. 0 \in T
  <2>1. KeptUpTo([i \in 0 .. 0 |-> << >>], s, S, 0) BY DEF KeptUpTo
  <2> QED BY <1>0, <2>1
<1>2. ASSUME NEW n \in 0 .. Len(s) - 1, n \in T PROVE n + 1 \in T
  <2>1. PICK f : KeptUpTo(f, s, S, n) BY <1>2
  <2> DEFINE g == [i \in 0 .. n + 1 |-> IF i <= n THEN f[i]
                     ELSE IF s[n + 1] \in S THEN Append(f[n], s[n + 1]) ELSE f[n]]
  <2>2. KeptUpTo(g, s, S, n + 1)
    <3>1. n \in Nat /\ n + 1 \in 0 .. Len(s) BY <1>0
    <3>2. \A i \in 0 .. n : g[i] = f[i] BY <3>1
    <3>3. \A i \in 0 .. n : f[i] = IF i = 0 THEN << >>
                                   ELSE IF s[i] \in S THEN Append(f[i - 1], s[i]) ELSE f[i - 1]
      BY <2>1 DEF KeptUpTo
    <3>4. ASSUME NEW i \in 0 .. n + 1
          PROVE  g[i] = IF i = 0 THEN << >>
                        ELSE IF s[i] \in S THEN Append(g[i - 1], s[i]) ELSE g[i - 1]
      <4>1. CASE i = 0 BY <3>1, <3>2, <3>3, <4>1
      <4>2. CASE i \in 1 .. n
        <5>1. i - 1 \in 0 .. n /\ i \in 0 .. n /\ i # 0 BY <3>1, <4>2
        <5> QED BY <3>2, <3>3, <5>1
      <4>3. CASE i = n + 1
        <5>1. i - 1 = n /\ i # 0 /\ ~(i <= n) /\ n \in 0 .. n BY <3>1, <4>3
        <5> QED BY <3>2, <4>3, <5>1
      <4> QED BY <3>1, <4>1, <4>2, <4>3
    <3>5. g = [i \in 0 .. n + 1 |-> g[i]] OBVIOUS
    <3> HIDE DEF g
    <3> QED BY <3>4, <3>5 DEF KeptUpTo
  <2> HIDE DEF g
  <2> QED BY <1>0, <2>2
<1> HIDE DEF T
<1>3. 0 .. Len(s) \subseteq T BY <1>0, <1>1, <1>2, IntervalInduction
<1>4. \E f : KeptUpTo(f, s, S, Len(s)) BY <1>0, <1>3 DEF T
<1> DEFINE k == CHOOSE f : KeptUpTo(f, s, S, Len(s))
<1>5. KeptUpTo(k, s, S, Len(s)) BY <1>4
<1>6. Kept(s, S) = k[Len(s)] BY DEF Kept, KeptUpTo
<1> QED BY <1>5, <1>6

\* What is kept are the elements in the set, each as often as it was there.
LEMMA KeptFacts ==
  ASSUME NEW X, NEW s \in Seq(X), NEW S
  PROVE  /\ Kept(s, S) \in Seq(X)
         /\ \A i \in 1 .. Len(s) : s[i] \in S => \E j \in 1 .. Len(Kept(s, S)) : Kept(s, S)[j] = s[i]
         /\ \A j \in 1 .. Len(Kept(s, S)) : Kept(s, S)[j] \in S /\ \E i \in 1 .. Len(s) : Kept(s, S)[j] = s[i]
         /\ (\A i, j \in 1 .. Len(s) : s[i] = s[j] => i = j) =>
              \A i, j \in 1 .. Len(Kept(s, S)) : Kept(s, S)[i] = Kept(s, S)[j] => i = j
<1>1. PICK f : KeptUpTo(f, s, S, Len(s)) /\ Kept(s, S) = f[Len(s)] BY KeptExists
<1>2. \A i \in 0 .. Len(s) : f[i] = IF i = 0 THEN << >>
                                   ELSE IF s[i] \in S THEN Append(f[i - 1], s[i]) ELSE f[i - 1]
  BY <1>1 DEF KeptUpTo
<1> DEFINE Good(n) ==
      /\ f[n] \in Seq(X)
      /\ \A i \in 1 .. n : s[i] \in S => \E j \in 1 .. Len(f[n]) : f[n][j] = s[i]
      /\ \A j \in 1 .. Len(f[n]) : f[n][j] \in S /\ \E i \in 1 .. n : f[n][j] = s[i]
      /\ (\A i, j \in 1 .. Len(s) : s[i] = s[j] => i = j) =>
           \A i, j \in 1 .. Len(f[n]) : f[n][i] = f[n][j] => i = j
<1> DEFINE T == {n \in 0 .. Len(s) : Good(n)}
<1>0. Len(s) \in Nat OBVIOUS
<1>3. 0 \in T
  <2>1. f[0] = << >> BY <1>0, <1>2
  <2>2. << >> \in Seq(X) /\ 1 .. Len(<< >>) = {} OBVIOUS
  <2>3. 1 .. 0 = {} OBVIOUS
  <2> HIDE <1>1, <1>2
  <2>4. Good(0) BY <2>1, <2>2, <2>3
  <2> QED BY <1>0, <2>4
<1>4. ASSUME NEW n \in 0 .. Len(s) - 1, n \in T PROVE n + 1 \in T
  <2>0. n \in Nat /\ n + 1 \in 1 .. Len(s) /\ n + 1 \in 0 .. Len(s) /\ n + 1 # 0 /\ (n + 1) - 1 = n BY <1>0
  <2>1. Good(n) BY <1>4
  <2>2. f[n + 1] = IF s[n + 1] \in S THEN Append(f[n], s[n + 1]) ELSE f[n]
    BY <1>2, <2>0
  <2>3. s[n + 1] \in X BY <2>0
  <2>4. CASE s[n + 1] \notin S
    <3>1. f[n + 1] = f[n] BY <2>2, <2>4
    <3>2. 1 .. n + 1 = 1 .. n \cup {n + 1} BY <2>0
    <3>3. Good(n + 1) BY <2>0, <2>1, <2>4, <3>1, <3>2
    <3> QED BY <2>0, <3>3
  <2>5. CASE s[n + 1] \in S
    <3> DEFINE a == f[n]  b == f[n + 1]  x == s[n + 1]
    <3>1. b = Append(a, x) /\ a \in Seq(X) /\ x \in X BY <2>1, <2>2, <2>3, <2>5
    <3>2. /\ b \in Seq(X) /\ Len(b) = Len(a) + 1 /\ b[Len(a) + 1] = x /\ Len(a) \in Nat
          /\ \A j \in 1 .. Len(a) : b[j] = a[j]
          /\ 1 .. Len(b) = 1 .. Len(a) \cup {Len(a) + 1}
      BY <3>1
    <3>3. 1 .. n + 1 = 1 .. n \cup {n + 1} BY <2>0
    <3>4. ASSUME NEW i \in 1 .. n + 1, s[i] \in S PROVE \E j \in 1 .. Len(b) : b[j] = s[i]
      <4>1. CASE i \in 1 .. n
        <5>1. PICK j \in 1 .. Len(a) : a[j] = s[i] BY <2>1, <3>4, <4>1
        <5>2. j \in 1 .. Len(b) /\ b[j] = s[i] BY <3>2, <5>1
        <5> QED BY <5>2
      <4>2. CASE i = n + 1
        <5>1. Len(a) + 1 \in 1 .. Len(b) /\ b[Len(a) + 1] = s[i] BY <3>2, <4>2
        <5> QED BY <5>1
      <4> QED BY <3>3, <4>1, <4>2
    <3>5. ASSUME NEW j \in 1 .. Len(b) PROVE b[j] \in S /\ \E i \in 1 .. n + 1 : b[j] = s[i]
      <4>1. CASE j \in 1 .. Len(a)
        <5>1. b[j] = a[j] /\ a[j] \in S BY <2>1, <3>2, <4>1
        <5>2. PICK i \in 1 .. n : a[j] = s[i] BY <2>1, <4>1
        <5>3. i \in 1 .. n + 1 BY <3>3
        <5> QED BY <5>1, <5>2, <5>3
      <4>2. CASE j = Len(a) + 1
        <5>1. b[j] = s[n + 1] /\ n + 1 \in 1 .. n + 1 BY <2>0, <3>2, <4>2
        <5> QED BY <2>5, <5>1
      <4> QED BY <3>2, <4>1, <4>2
    <3>6. ASSUME \A i, j \in 1 .. Len(s) : s[i] = s[j] => i = j
          PROVE  \A i, j \in 1 .. Len(b) : b[i] = b[j] => i = j
      <4>1. \A j \in 1 .. Len(a) : a[j] # x
        <5>1. ASSUME NEW j \in 1 .. Len(a), a[j] = x PROVE FALSE
          <6>1. PICK i \in 1 .. n : a[j] = s[i] BY <2>1
          <6>2. i \in 1 .. Len(s) /\ i # n + 1 BY <2>0
          <6> QED BY <2>0, <3>6, <5>1, <6>1, <6>2
        <5> QED BY <5>1
      <4>2. \A i, j \in 1 .. Len(a) : a[i] = a[j] => i = j BY <2>1, <3>6
      <4>3. ASSUME NEW i \in 1 .. Len(b), NEW j \in 1 .. Len(b), b[i] = b[j] PROVE i = j
        <5>1. CASE i \in 1 .. Len(a) /\ j \in 1 .. Len(a) BY <3>2, <4>2, <4>3, <5>1
        <5>2. CASE i = Len(a) + 1 /\ j \in 1 .. Len(a) BY <3>2, <4>1, <4>3, <5>2
        <5>3. CASE i \in 1 .. Len(a) /\ j = Len(a) + 1 BY <3>2, <4>1, <4>3, <5>3
        <5>4. CASE i = Len(a) + 1 /\ j = Len(a) + 1 BY <5>4
        <5> QED BY <3>2, <5>1, <5>2, <5>3, <5>4
      <4> QED BY <4>3
    <3>7. Good(n + 1) BY ONLY <3>2, <3>4, <3>5, <3>6
    <3> QED BY <2>0, <3>7
  <2> QED BY <2>4, <2>5
<1> HIDE DEF T
<1>5. 0 .. Len(s) \subseteq T BY <1>0, <1>3, <1>4, IntervalInduction
<1> HIDE DEF Good
<1>6. Len(s) \in T BY <1>0, <1>5
<1>7. Good(Len(s)) BY <1>6 DEF T
<1> QED BY <1>1, <1>7 DEF Good

-----------------------------------------------------------------------------
(* The elements of a sequence.                                             *)

ElementsOf(s) == {s[i] : i \in 1..Len(s)}
NoDuplicates(s) == \A i, j \in 1..Len(s) : s[i] = s[j] => i = j

\* A function on 1..n is a sequence of length n.
LEMMA SeqOfFunction ==
  ASSUME NEW n \in Nat, NEW S, NEW f \in [1..n -> S]
  PROVE  f \in Seq(S) /\ Len(f) = n
OBVIOUS

\* Append adds one element.
LEMMA AppendElements ==
  ASSUME NEW X, NEW s \in Seq(X), NEW x \in X
  PROVE  /\ Append(s, x) \in Seq(X)
         /\ ElementsOf(Append(s, x)) = ElementsOf(s) \cup {x}
         /\ NoDuplicates(s) /\ x \notin ElementsOf(s) => NoDuplicates(Append(s, x))
<1> DEFINE t == Append(s, x)
<1>1. /\ t \in Seq(X) /\ Len(t) = Len(s) + 1 /\ Len(s) \in Nat
      /\ t[Len(s) + 1] = x /\ \A i \in 1..Len(s) : t[i] = s[i]
  OBVIOUS
<1>2. 1..Len(t) = 1..Len(s) \cup {Len(s) + 1} BY <1>1
<1> HIDE DEF t
<1>3. ElementsOf(t) = ElementsOf(s) \cup {x} BY <1>1, <1>2 DEF ElementsOf
<1>4. ASSUME NoDuplicates(s), x \notin ElementsOf(s), NEW i \in 1..Len(t), NEW j \in 1..Len(t), t[i] = t[j]
      PROVE  i = j
  <2>1. CASE i \in 1..Len(s) /\ j \in 1..Len(s) BY <1>1, <1>4, <2>1 DEF NoDuplicates
  <2>2. CASE i = Len(s) + 1 /\ j \in 1..Len(s) BY <1>1, <1>4, <2>2 DEF ElementsOf
  <2>3. CASE i \in 1..Len(s) /\ j = Len(s) + 1 BY <1>1, <1>4, <2>3 DEF ElementsOf
  <2>4. CASE i = Len(s) + 1 /\ j = Len(s) + 1 BY <2>4
  <2> QED BY <1>2, <2>1, <2>2, <2>3, <2>4
<1>5. NoDuplicates(s) /\ x \notin ElementsOf(s) => NoDuplicates(t) BY <1>4 DEF NoDuplicates
<1> QED BY <1>1, <1>3, <1>5 DEF t

\* A sequence without duplicates is its head and, without it, its tail.
LEMMA TailElements ==
  ASSUME NEW X, NEW s \in Seq(X), s # << >>, NoDuplicates(s)
  PROVE  /\ Tail(s) \in Seq(X) /\ Head(s) \in X /\ Head(s) \in ElementsOf(s)
         /\ ElementsOf(Tail(s)) = ElementsOf(s) \ {Head(s)}
         /\ NoDuplicates(Tail(s))
<1> DEFINE t == Tail(s)
<1>1. /\ t \in Seq(X) /\ Len(s) \in Nat \ {0} /\ Len(t) = Len(s) - 1
      /\ \A i \in 1..Len(t) : t[i] = s[i + 1]
      /\ Head(s) = s[1] /\ s[1] \in X
  OBVIOUS
<1> HIDE DEF t
<1>2. \A i \in 1..Len(t) : i + 1 \in 1..Len(s) /\ i + 1 # 1 BY <1>1
<1>3. NoDuplicates(t)
  <2> SUFFICES ASSUME NEW i \in 1..Len(t), NEW j \in 1..Len(t), t[i] = t[j] PROVE i = j
    BY DEF NoDuplicates
  <2>1. i + 1 = j + 1 BY <1>1, <1>2 DEF NoDuplicates
  <2> QED BY <1>1, <2>1
<1>4. ASSUME NEW y \in ElementsOf(t) PROVE y \in ElementsOf(s) \ {Head(s)}
  <2>1. PICK i \in 1..Len(t) : t[i] = y BY DEF ElementsOf
  <2>2. s[i + 1] = y /\ i + 1 \in 1..Len(s) /\ i + 1 # 1 /\ 1 \in 1..Len(s) BY <1>1, <1>2, <2>1
  <2> QED BY <1>1, <2>2 DEF ElementsOf, NoDuplicates
<1>5. ASSUME NEW y \in ElementsOf(s), y # Head(s) PROVE y \in ElementsOf(t)
  <2>1. PICK i \in 1..Len(s) : s[i] = y BY DEF ElementsOf
  <2>2. i # 1 BY <1>1, <1>5, <2>1
  <2>3. i - 1 \in 1..Len(t) /\ (i - 1) + 1 = i BY <1>1, <2>2
  <2>4. t[i - 1] = s[i] BY <1>1, <2>3
  <2> QED BY <2>1, <2>3, <2>4 DEF ElementsOf
<1>6. Head(s) \in ElementsOf(s) BY <1>1 DEF ElementsOf
<1> QED BY <1>1, <1>3, <1>4, <1>5, <1>6 DEF t

\* Two sequences one behind the other.
LEMMA ConcatElements ==
  ASSUME NEW X, NEW s \in Seq(X), NEW t \in Seq(X)
  PROVE  /\ s \o t \in Seq(X)
         /\ Len(s) \in Nat /\ Len(t) \in Nat /\ Len(s \o t) = Len(s) + Len(t)
         /\ \A i \in 1..Len(s) : (s \o t)[i] = s[i]
         /\ \A i \in Len(s) + 1 .. Len(s) + Len(t) : (s \o t)[i] = t[i - Len(s)]
OBVIOUS

\* A sequence with one more element, as a function of the place.
LEMMA AppendAsFunction ==
  ASSUME NEW X, NEW s \in Seq(X), NEW x \in X
  PROVE  Append(s, x) = [i \in 1..Len(s) + 1 |-> IF i = Len(s) + 1 THEN x ELSE s[i]]
<1> DEFINE f == [i \in 1..Len(s) + 1 |-> IF i = Len(s) + 1 THEN x ELSE s[i]]
<1>0. Append(s, x) \in Seq(X) OBVIOUS
<1>1. PICK a \in Seq(X) : a = Append(s, x) BY <1>0, Zenon
<1>2. PICK n \in Nat : n = Len(s) + 1 OBVIOUS
<1>3. Len(a) = n BY <1>1, <1>2
<1>4. a \in [1..n -> X] BY <1>3
<1>5. f \in [1..n -> X] BY <1>2
<1>6. ASSUME NEW i \in 1..n PROVE a[i] = f[i] BY <1>1, <1>2
<1> HIDE DEF f
<1>7. a = f BY <1>4, <1>5, <1>6
<1> QED BY <1>1, <1>7 DEF f

\* A sequence is a function of the places in it, and nothing else.
LEMMA SeqIsFunction ==
  ASSUME NEW X, NEW s \in Seq(X)
  PROVE  s \in [1..Len(s) -> X]
OBVIOUS

\* So two that agree place by place are the same.
LEMMA SameSequence ==
  ASSUME NEW X, NEW s \in Seq(X), NEW t \in Seq(X), Len(s) = Len(t), \A i \in 1..Len(s) : s[i] = t[i]
  PROVE  s = t
<1>1. s \in [1..Len(s) -> X] /\ t \in [1..Len(s) -> X] BY SeqIsFunction
<1> QED BY <1>1
-----------------------------------------------------------------------------
(* Sums over a set                                                         *)

\* The function by which f is added up over the subsets of S.
SumsOver(iter, f, S) ==
  iter = [s \in SUBSET S |-> IF s = {} THEN 0
                             ELSE f[CHOOSE x \in s : TRUE] + iter[s \ {CHOOSE x \in s : TRUE}]]

\* What the sum of the community modules is, definition by definition.
LEMMA SumIsChosen ==
  ASSUME NEW f, NEW S
  PROVE  SumFunctionOnSet(f, S) = (CHOOSE iter : SumsOver(iter, f, S))[S]
BY DEF SumFunctionOnSet, FoldFunctionOnSet, MapThenFoldSet, SumsOver

\* A member of a set is chosen, and what is left has one element less.
LEMMA OneLess ==
  ASSUME NEW s, IsFiniteSet(s), s # {}
  PROVE  /\ (CHOOSE x \in s : TRUE) \in s
         /\ IsFiniteSet(s \ {CHOOSE x \in s : TRUE})
         /\ Cardinality(s) \in Nat
         /\ Cardinality(s \ {CHOOSE x \in s : TRUE}) = Cardinality(s) - 1
<1>1. (CHOOSE x \in s : TRUE) \in s OBVIOUS
<1> QED BY <1>1, FS_RemoveElement, FS_CardinalityType

\* There is such a function, so that its defining equation holds.
LEMMA SumExists ==
  ASSUME NEW f, NEW S, IsFiniteSet(S)
  PROVE  \E iter : SumsOver(iter, f, S) /\ SumFunctionOnSet(f, S) = iter[S]
<1> DEFINE Next1(it, s) == IF s = {} THEN 0
                           ELSE f[CHOOSE x \in s : TRUE] + it[s \ {CHOOSE x \in s : TRUE}]
           Upto(it, n) == \A s \in SUBSET S : Cardinality(s) <= n => it[s] = Next1(it, s)
           T == {n \in Nat : \E it : Upto(it, n)}
<1>0. \A s \in SUBSET S : IsFiniteSet(s) /\ Cardinality(s) \in Nat /\ (Cardinality(s) = 0 => s = {})
  BY FS_Subset, FS_CardinalityType, FS_EmptySet
<1>1. 0 \in T
  <2> DEFINE g == [s \in SUBSET S |-> 0]
  <2>1. ASSUME NEW s \in SUBSET S, Cardinality(s) <= 0 PROVE g[s] = Next1(g, s)
    <3>1. s = {} BY <1>0, <2>1
    <3> QED BY <3>1
  <2> QED BY <2>1
<1>2. ASSUME NEW n \in Nat, n \in T PROVE n + 1 \in T
  <2>1. PICK it : Upto(it, n) BY <1>2
  <2> DEFINE g == [s \in SUBSET S |-> IF Cardinality(s) <= n THEN it[s] ELSE Next1(it, s)]
  <2>2. ASSUME NEW s \in SUBSET S, Cardinality(s) <= n + 1 PROVE g[s] = Next1(g, s)
    <3>1. CASE s = {}
      <4>1. Cardinality(s) = 0 BY <3>1, FS_EmptySet
      <4> QED BY <2>1, <3>1, <4>1
    <3>2. CASE s # {}
      <4> DEFINE x == CHOOSE x \in s : TRUE  r == s \ {x}
      <4>1. r \in SUBSET S /\ Cardinality(r) <= n
        BY <1>0, <2>2, <3>2, OneLess
      <4>2. g[r] = it[r] BY <4>1
      <4>3. g[s] = Next1(it, s) BY <2>1
      <4> HIDE DEF g, x
      <4>4. Next1(it, s) = f[x] + it[r] BY <3>2 DEF x
      <4>5. Next1(g, s) = f[x] + g[r] BY <3>2 DEF x
      <4> QED BY <4>2, <4>3, <4>4, <4>5
    <3> QED BY <3>1, <3>2
  <2> HIDE DEF g, Next1
  <2> QED BY <2>2
<1> HIDE DEF T
<1>3. Nat \subseteq T BY <1>1, <1>2, NatSetInduction
<1>4. PICK it : Upto(it, Cardinality(S)) BY <1>0, <1>3 DEF T
<1> DEFINE g == [s \in SUBSET S |-> it[s]]
<1>5. \A s \in SUBSET S : Cardinality(s) <= Cardinality(S) BY FS_Subset
<1>6. \A s \in SUBSET S : g[s] = Next1(g, s)
  <2> SUFFICES ASSUME NEW s \in SUBSET S PROVE g[s] = Next1(g, s) OBVIOUS
  <2>1. it[s] = Next1(it, s) BY <1>4, <1>5
  <2>2. CASE s = {} BY <2>1, <2>2
  <2>3. CASE s # {}
    <3>1. s \ {CHOOSE x \in s : TRUE} \in SUBSET S OBVIOUS
    <3> QED BY <2>1, <3>1
  <2> QED BY <2>2, <2>3
<1>7. SumsOver(g, f, S)
  <2>1. g = [s \in SUBSET S |-> g[s]] OBVIOUS
  <2> HIDE DEF g
  <2> QED BY <1>6, <2>1 DEF SumsOver
<1> HIDE DEF g
<1> DEFINE c == CHOOSE iter : SumsOver(iter, f, S)
<1>8. SumsOver(c, f, S) BY <1>7
<1>9. SumFunctionOnSet(f, S) = c[S] BY SumIsChosen
<1> HIDE DEF c
<1> QED BY <1>8, <1>9

\* Integers add up to an integer.
LEMMA SumType ==
  ASSUME NEW S, IsFiniteSet(S), NEW f, \A x \in S : f[x] \in Int
  PROVE  SumFunctionOnSet(f, S) \in Int
<1>1. PICK F : SumsOver(F, f, S) /\ SumFunctionOnSet(f, S) = F[S] BY SumExists
<1> DEFINE T == {n \in Nat : \A s \in SUBSET S : Cardinality(s) = n => F[s] \in Int}
<1>0. \A s \in SUBSET S : IsFiniteSet(s) /\ Cardinality(s) \in Nat /\ (Cardinality(s) = 0 => s = {})
  BY FS_Subset, FS_CardinalityType, FS_EmptySet
<1>2. 0 \in T
  <2>1. F[{}] = 0 BY <1>1 DEF SumsOver
  <2> QED BY <1>0, <2>1
<1>3. ASSUME NEW n \in Nat, n \in T PROVE n + 1 \in T
  <2>1. ASSUME NEW s \in SUBSET S, Cardinality(s) = n + 1 PROVE F[s] \in Int
    <3>1. s # {} BY <2>1, FS_EmptySet
    <3> DEFINE x == CHOOSE x \in s : TRUE  r == s \ {x}
    <3>2. r \in SUBSET S /\ Cardinality(r) = n /\ x \in S BY <1>0, <2>1, <3>1, OneLess
    <3>3. F[s] = f[x] + F[r] BY <1>1, <3>1 DEF SumsOver
    <3> HIDE DEF x
    <3> QED BY <1>3, <3>2, <3>3
  <2> QED BY <2>1
<1> HIDE DEF T
<1>4. Nat \subseteq T BY <1>2, <1>3, NatSetInduction
<1> QED BY <1>0, <1>1, <1>4 DEF T

\* Scaling what is added and taking the same off each.
LEMMA SumLinear ==
  ASSUME NEW S, IsFiniteSet(S), NEW f, \A x \in S : f[x] \in Int,
         NEW c \in Int, NEW d \in Int, NEW g, \A x \in S : g[x] = c * f[x] - d
  PROVE  SumFunctionOnSet(g, S) = c * SumFunctionOnSet(f, S) - Cardinality(S) * d
<1>1. PICK F : SumsOver(F, f, S) /\ SumFunctionOnSet(f, S) = F[S] BY SumExists
<1>2. PICK G : SumsOver(G, g, S) /\ SumFunctionOnSet(g, S) = G[S] BY SumExists
<1> DEFINE Good(s) == F[s] \in Int /\ G[s] = c * F[s] - Cardinality(s) * d
           T == {n \in Nat : \A s \in SUBSET S : Cardinality(s) = n => Good(s)}
<1>0. \A s \in SUBSET S : IsFiniteSet(s) /\ Cardinality(s) \in Nat /\ (Cardinality(s) = 0 => s = {})
  BY FS_Subset, FS_CardinalityType, FS_EmptySet
<1>3. 0 \in T
  <2>1. ASSUME NEW s \in SUBSET S, Cardinality(s) = 0 PROVE Good(s)
    <3>1. s = {} BY <1>0, <2>1
    <3>2. F[s] = 0 /\ G[s] = 0 BY <1>1, <1>2, <3>1 DEF SumsOver
    <3> QED BY <2>1, <3>2
  <2> QED BY <2>1
<1>4. ASSUME NEW n \in Nat, n \in T PROVE n + 1 \in T
  <2>1. ASSUME NEW s \in SUBSET S, Cardinality(s) = n + 1 PROVE Good(s)
    <3>1. s # {}
      <4>1. Cardinality({}) = 0 BY FS_EmptySet
      <4> QED BY ONLY <2>1, <4>1, n \in Nat
    <3> DEFINE x == CHOOSE x \in s : TRUE  r == s \ {x}
    <3>2. r \in SUBSET S /\ Cardinality(r) = n /\ x \in S
      BY <1>0, <2>1, <3>1, OneLess
    <3>3. F[s] = f[x] + F[r] /\ G[s] = g[x] + G[r] BY <1>1, <1>2, <3>1 DEF SumsOver
    <3> HIDE DEF x
    <3>4. Good(r) BY <1>4, <3>2
    <3>5. f[x] \in Int /\ g[x] = c * f[x] - d BY <3>2
    <3>6. F[s] \in Int BY <3>3, <3>4, <3>5
    <3>7. c * (f[x] + F[r]) = c * f[x] + c * F[r] BY <3>4, <3>5
    <3>8. (n + 1) * d = n * d + d OBVIOUS
    <3>9. c * f[x] \in Int /\ c * F[r] \in Int /\ n * d \in Int BY <3>4, <3>5
    <3>10. G[s] = (c * f[x] - d) + (c * F[r] - n * d) BY <3>2, <3>3, <3>4, <3>5
    <3>11. G[s] = c * F[s] - (n + 1) * d BY <3>3, <3>7, <3>8, <3>9, <3>10
    <3> QED BY <2>1, <3>6, <3>11
  <2> QED BY <2>1
<1> HIDE DEF T
<1>5. Nat \subseteq T BY <1>3, <1>4, NatSetInduction
<1>6. Good(S) BY <1>0, <1>5 DEF T
<1> QED BY <1>1, <1>2, <1>6

\* Two functions that agree where both are added up have the same sums there.
LEMMA SumsAgree ==
  ASSUME NEW S, NEW A, IsFiniteSet(S), NEW f, NEW g, \A x \in S \cap A : f[x] = g[x],
         NEW F, SumsOver(F, f, S), NEW G, SumsOver(G, g, A)
  PROVE  \A s \in SUBSET (S \cap A) : F[s] = G[s]
<1> DEFINE T == {n \in Nat : \A s \in SUBSET (S \cap A) : Cardinality(s) = n => F[s] = G[s]}
<1>0. \A s \in SUBSET (S \cap A) : IsFiniteSet(s) /\ Cardinality(s) \in Nat /\ (Cardinality(s) = 0 => s = {})
  BY FS_Subset, FS_CardinalityType, FS_EmptySet
<1>1. 0 \in T
  <2>1. F[{}] = 0 /\ G[{}] = 0 BY DEF SumsOver
  <2> QED BY <1>0, <2>1
<1>2. ASSUME NEW n \in Nat, n \in T PROVE n + 1 \in T
  <2>1. ASSUME NEW s \in SUBSET (S \cap A), Cardinality(s) = n + 1 PROVE F[s] = G[s]
    <3>1. s # {}
      <4>1. Cardinality({}) = 0 BY FS_EmptySet
      <4> QED BY ONLY <2>1, <4>1, n \in Nat
    <3> DEFINE x == CHOOSE x \in s : TRUE  r == s \ {x}
    <3>2. r \in SUBSET (S \cap A) /\ Cardinality(r) = n /\ x \in S \cap A BY <1>0, <2>1, <3>1, OneLess
    <3>3. F[s] = f[x] + F[r] /\ G[s] = g[x] + G[r] BY <3>1 DEF SumsOver
    <3>4. F[r] = G[r] BY <1>2, <3>2
    <3> HIDE DEF x
    <3> QED BY <3>2, <3>3, <3>4
  <2> QED BY <2>1
<1> HIDE DEF T
<1>3. Nat \subseteq T BY <1>1, <1>2, NatSetInduction
<1> QED BY <1>0, <1>3 DEF T

\* A sum is that of what is added.
LEMMA SumSame ==
  ASSUME NEW S, IsFiniteSet(S), NEW f, NEW g, \A x \in S : f[x] = g[x]
  PROVE  SumFunctionOnSet(f, S) = SumFunctionOnSet(g, S)
<1>1. PICK F : SumsOver(F, f, S) /\ SumFunctionOnSet(f, S) = F[S] BY SumExists
<1>2. PICK G : SumsOver(G, g, S) /\ SumFunctionOnSet(g, S) = G[S] BY SumExists
<1>3. \A s \in SUBSET (S \cap S) : F[s] = G[s] BY <1>1, <1>2, SumsAgree
<1> QED BY <1>1, <1>2, <1>3

\* Nothing adds up to nothing, and the element that is chosen first is added to the others.
LEMMA SumUnfolds ==
  ASSUME NEW S, IsFiniteSet(S), NEW f
  PROVE  /\ S = {} => SumFunctionOnSet(f, S) = 0
         /\ S # {} => LET x == CHOOSE x \in S : TRUE
                      IN  SumFunctionOnSet(f, S) = f[x] + SumFunctionOnSet(f, S \ {x})
<1>1. PICK F : SumsOver(F, f, S) /\ SumFunctionOnSet(f, S) = F[S] BY SumExists
<1>2. S = {} => F[S] = 0 BY <1>1 DEF SumsOver
<1>3. ASSUME S # {}
      PROVE  LET x == CHOOSE x \in S : TRUE
             IN  SumFunctionOnSet(f, S) = f[x] + SumFunctionOnSet(f, S \ {x})
  <2> DEFINE x == CHOOSE x \in S : TRUE  r == S \ {x}
  <2>1. F[S] = f[x] + F[r] BY <1>1, <1>3 DEF SumsOver
  <2>2. IsFiniteSet(r) BY <1>3, OneLess
  <2> HIDE DEF x
  <2>3. PICK G : SumsOver(G, f, r) /\ SumFunctionOnSet(f, r) = G[r] BY <2>2, SumExists
  <2>4. \A s \in SUBSET (S \cap r) : F[s] = G[s] BY <1>1, <2>3, SumsAgree
  <2>5. r \in SUBSET (S \cap r) OBVIOUS
  <2>6. SumFunctionOnSet(f, S) = f[x] + SumFunctionOnSet(f, r) BY <1>1, <2>1, <2>3, <2>4, <2>5
  <2> QED BY <2>6 DEF x
<1> QED BY <1>1, <1>2, <1>3

\* Any element is added to the others.
LEMMA SumOfOthers ==
  ASSUME NEW S, IsFiniteSet(S), NEW f, \A x \in S : f[x] \in Int, NEW y \in S
  PROVE  SumFunctionOnSet(f, S) = f[y] + SumFunctionOnSet(f, S \ {y})
<1> DEFINE Sum(s) == SumFunctionOnSet(f, s)
           T == {n \in Nat : \A s \in SUBSET S : Cardinality(s) = n => \A z \in s : Sum(s) = f[z] + Sum(s \ {z})}
<1>0. \A s \in SUBSET S : IsFiniteSet(s) /\ Cardinality(s) \in Nat /\ (Cardinality(s) = 0 => s = {})
  BY FS_Subset, FS_CardinalityType, FS_EmptySet
<1>1. \A s \in SUBSET S : Sum(s) \in Int BY <1>0, SumType
<1>2. \A s \in SUBSET S : s # {} => LET x == CHOOSE x \in s : TRUE IN Sum(s) = f[x] + Sum(s \ {x})
  BY <1>0, SumUnfolds
<1> HIDE DEF Sum
<1>3. 0 \in T BY <1>0
<1>4. ASSUME NEW n \in Nat, n \in T PROVE n + 1 \in T
  <2>1. ASSUME NEW s \in SUBSET S, Cardinality(s) = n + 1, NEW z \in s PROVE Sum(s) = f[z] + Sum(s \ {z})
    <3> DEFINE x == CHOOSE x \in s : TRUE
    <3>1. x \in s /\ Cardinality(s \ {x}) = n BY <1>0, <2>1, OneLess
    <3>2. Sum(s) = f[x] + Sum(s \ {x}) BY <1>2
    <3> HIDE DEF x
    <3>3. CASE x = z BY <3>2, <3>3
    <3>4. CASE x # z
      <4>1. z \in s \ {x} /\ x \in s \ {z} BY <3>1, <3>4
      <4>2. s \ {x} \in SUBSET S /\ s \ {z} \in SUBSET S /\ (s \ {x}) \ {z} \in SUBSET S OBVIOUS
      <4>3. Cardinality(s \ {z}) = n BY <1>0, <2>1, FS_RemoveElement
      <4>4. Sum(s \ {x}) = f[z] + Sum((s \ {x}) \ {z}) BY <1>4, <3>1, <4>1, <4>2
      <4>5. Sum(s \ {z}) = f[x] + Sum((s \ {z}) \ {x}) BY <1>4, <4>1, <4>2, <4>3
      <4>6. (s \ {z}) \ {x} = (s \ {x}) \ {z} OBVIOUS
      <4>7. f[x] \in Int /\ f[z] \in Int /\ Sum((s \ {x}) \ {z}) \in Int BY <1>1, <3>1, <4>2
      <4> DEFINE rest == Sum((s \ {x}) \ {z})  all == Sum(s)  most == Sum(s \ {z})
      <4>8. most = f[x] + rest BY <4>5, <4>6
      <4>9. all = f[x] + (f[z] + rest) BY <3>2, <4>4
      <4>10. f[x] \in Int /\ f[z] \in Int /\ rest \in Int BY <4>7
      <4> HIDE DEF rest, all, most
      <4>11. all = f[z] + most BY ONLY <4>8, <4>9, <4>10
      <4> QED BY <4>11 DEF all, most
    <3> QED BY <3>3, <3>4
  <2> QED BY <2>1
<1> HIDE DEF T
<1>5. Nat \subseteq T BY <1>3, <1>4, NatSetInduction
<1>6. Sum(S) = f[y] + Sum(S \ {y}) BY <1>0, <1>5 DEF T
<1> QED BY <1>6 DEF Sum

\* What is added up in two parts.
LEMMA SumOfParts ==
  ASSUME NEW A, NEW B, IsFiniteSet(A), IsFiniteSet(B), A \cap B = {}, NEW f, \A x \in A \cup B : f[x] \in Int
  PROVE  SumFunctionOnSet(f, A \cup B) = SumFunctionOnSet(f, A) + SumFunctionOnSet(f, B)
<1> DEFINE Sum(s) == SumFunctionOnSet(f, s)
           T == {n \in Nat : \A s \in SUBSET B : Cardinality(s) = n => Sum(A \cup s) = Sum(A) + Sum(s)}
<1>0. \A s \in SUBSET B : IsFiniteSet(s) /\ Cardinality(s) \in Nat /\ (Cardinality(s) = 0 => s = {})
  BY FS_Subset, FS_CardinalityType, FS_EmptySet
<1>a. \A s \in SUBSET B : IsFiniteSet(A \cup s) BY <1>0, FS_Union
<1>1. Sum(A) \in Int /\ \A s \in SUBSET B : Sum(s) \in Int BY <1>0, SumType
<1>2. \A s \in SUBSET B : \A x \in s : /\ Sum(s) = f[x] + Sum(s \ {x})
                                       /\ Sum(A \cup s) = f[x] + Sum((A \cup s) \ {x})
  BY <1>0, <1>a, SumOfOthers
<1>3. Sum({}) = 0 BY SumUnfolds, FS_EmptySet
<1> HIDE DEF Sum
<1>4. 0 \in T BY <1>0, <1>1, <1>3
<1>5. ASSUME NEW n \in Nat, n \in T PROVE n + 1 \in T
  <2>1. ASSUME NEW s \in SUBSET B, Cardinality(s) = n + 1 PROVE Sum(A \cup s) = Sum(A) + Sum(s)
    <3>1. s # {}
      <4>1. Cardinality({}) = 0 BY FS_EmptySet
      <4> QED BY ONLY <2>1, <4>1, n \in Nat
    <3>2. PICK x \in s : TRUE BY <3>1
    <3>3. Cardinality(s \ {x}) = n BY <1>0, <2>1, FS_RemoveElement
    <3>4. (A \cup s) \ {x} = A \cup (s \ {x}) BY <3>2
    <3>5. Sum(A \cup (s \ {x})) = Sum(A) + Sum(s \ {x}) BY <1>5, <3>3
    <3>6. f[x] \in Int /\ Sum(s \ {x}) \in Int BY <1>1
    <3> DEFINE a == Sum(A)  rest == Sum(s \ {x})  all == Sum(A \cup s)  some == Sum(s)
    <3>7. some = f[x] + rest BY <1>2
    <3>8. all = f[x] + (a + rest) BY <1>2, <3>4, <3>5
    <3>9. f[x] \in Int /\ a \in Int /\ rest \in Int BY <1>1, <3>6
    <3> HIDE DEF a, rest, all, some
    <3>10. all = a + some BY ONLY <3>7, <3>8, <3>9
    <3> QED BY <3>10 DEF a, all, some
  <2> QED BY <2>1
<1> HIDE DEF T
<1>6. Nat \subseteq T BY <1>4, <1>5, NatSetInduction
<1>7. Sum(A \cup B) = Sum(A) + Sum(B) BY <1>0, <1>6 DEF T
<1> QED BY <1>7 DEF Sum
=============================================================================
