--------------------------- MODULE SequenceLemmas ---------------------------
(***************************************************************************)
(* Facts about numbers and sequences that the proofs of several components *)
(* need.  Those about all sequences are proved by taking a shortest, or a  *)
(* least, counterexample.                                                  *)
(***************************************************************************)
EXTENDS Filter, FiniteSets, Functions, FiniteSetTheorems, FunctionTheorems, SequenceTheorems,
        WellFoundedInduction, TLAPS

(* A set of natural numbers that is not empty has a least element.         *)
LEMMA LeastElement ==
  ASSUME NEW T \in SUBSET Nat, T # {}
  PROVE  \E n \in T : \A m \in T : n <= m
<1> DEFINE S == {1..n : n \in T}
           R == StrictSubsetOrdering(Nat)
<1>1. S \subseteq FiniteSubsetsOf(Nat) /\ S # {}
  <2>1. \A n \in T : IsFiniteSet(1..n) /\ 1..n \in SUBSET Nat
    BY FS_Interval
  <2>2. QED
    BY <2>1 DEF FiniteSubsetsOf
<1>2. PICK x \in S : \A y \in S : <<y, x>> \notin R
  <2> HIDE DEF R, S
  <2>1. IsWellFoundedOn(R, FiniteSubsetsOf(Nat))
    BY FS_StrictSubsetOrderingWellFounded DEF R
  <2>2. QED
    BY <1>1, <2>1, WFMin
<1>3. PICK n \in T : x = 1..n
  OBVIOUS
<1>4. ASSUME NEW m \in T, m < n PROVE FALSE
  <2>1. n \in 1..n /\ n \notin 1..m
    BY <1>4
  <2>2. <<1..m, x>> \in R
    BY <1>3, <1>4, <2>1 DEF StrictSubsetOrdering
  <2>3. QED
    BY <1>2, <2>2
<1>5. QED
  BY <1>4

(* Induction over 0..n: a set that has 0, and k with every k - 1, is all   *)
(* of it.                                                                  *)
LEMMA UpTo ==
  ASSUME NEW n \in Nat, NEW G, 0 \in G, \A k \in 1..n : k - 1 \in G => k \in G
  PROVE  0..n \subseteq G
<1> DEFINE T == {k \in 0..n : k \notin G}
<1>1. T \in SUBSET Nat
  OBVIOUS
<1>2. SUFFICES ASSUME T # {} PROVE FALSE
  OBVIOUS
<1>3. PICK k \in T : \A m \in T : k <= m
  <2> HIDE DEF T
  <2>1. QED
    BY <1>1, <1>2, LeastElement
<1>4. k \in 1..n /\ k - 1 \in 0..n
  BY <1>3
<1>5. k - 1 \notin T
  BY <1>3, <1>4
<1>6. QED
  BY <1>3, <1>4, <1>5

-----------------------------------------------------------------------------
(* The function Only() computes its result with, as far as n.              *)
IsFilter(f, s, S, n) ==
  f = [i \in 0..n |->
         IF i = 0 THEN <<>>
         ELSE IF s[i] \in S THEN Append(f[i - 1], s[i]) ELSE f[i - 1]]

(* f keeps more and more of s: after i elements, those of them in S.       *)
Keeps(f, s, S, n) ==
  /\ f[0] = <<>>
  /\ \A i \in 1..n : f[i] = IF s[i] \in S THEN Append(f[i - 1], s[i]) ELSE f[i - 1]

(* That is what the function does, ...                                     *)
LEMMA FilterValues ==
  ASSUME NEW s, NEW S, NEW n \in Nat, NEW f, IsFilter(f, s, S, n)
  PROVE  Keeps(f, s, S, n)
<1>1. \A i \in 0..n :
        f[i] = IF i = 0 THEN <<>>
               ELSE IF s[i] \in S THEN Append(f[i - 1], s[i]) ELSE f[i - 1]
  BY DEF IsFilter
<1>2. QED
  BY <1>1 DEF Keeps

(* ... there is one, ...                                                   *)
LEMMA FilterExists ==
  ASSUME NEW s, NEW S, NEW n \in Nat
  PROVE  \E f : IsFilter(f, s, S, n)
<1> DEFINE G == {k \in 0..n : \E f : IsFilter(f, s, S, k)}
<1>1. 0 \in G
  <2>1. IsFilter([i \in 0..0 |-> <<>>], s, S, 0)
    BY DEF IsFilter
  <2>2. QED
    BY <2>1
<1>2. ASSUME NEW k \in 1..n, k - 1 \in G PROVE k \in G
  <2>1. PICK f : IsFilter(f, s, S, k - 1)
    BY <1>2
  <2> DEFINE g == [i \in 0..k |-> IF i < k THEN f[i]
                                  ELSE IF s[k] \in S THEN Append(f[k - 1], s[k]) ELSE f[k - 1]]
  <2>2. /\ f[0] = <<>>
        /\ \A i \in 1..(k - 1) :
             f[i] = IF s[i] \in S THEN Append(f[i - 1], s[i]) ELSE f[i - 1]
    BY <2>1, FilterValues DEF Keeps
  <2>3. g = [i \in 0..k |->
               IF i = 0 THEN <<>>
               ELSE IF s[i] \in S THEN Append(g[i - 1], s[i]) ELSE g[i - 1]]
    <3>1. \A i \in 0..k :
            g[i] = IF i = 0 THEN <<>>
                   ELSE IF s[i] \in S THEN Append(g[i - 1], s[i]) ELSE g[i - 1]
      BY <2>2
    <3>2. QED
      BY <3>1
  <2>4. IsFilter(g, s, S, k)
    <3> HIDE DEF g
    <3>1. QED
      BY <2>3 DEF IsFilter
  <2>5. QED
    BY <2>4
<1>3. n \in G
  <2> HIDE DEF G
  <2>1. 0..n \subseteq G
    BY <1>1, <1>2, UpTo
  <2>2. QED
    BY <2>1
<1>4. QED
  BY <1>3

(* ... and Only() is its last one.                                         *)
LEMMA OnlyIsLast ==
  ASSUME NEW s, NEW S, Len(s) \in Nat
  PROVE  \E f : Keeps(f, s, S, Len(s)) /\ Only(s, S) = f[Len(s)]
<1> DEFINE kept == CHOOSE f : IsFilter(f, s, S, Len(s))
<1>1. IsFilter(kept, s, S, Len(s))
  BY FilterExists
<1>2. Only(s, S) = kept[Len(s)]
  BY DEF Only, IsFilter
<1>3. QED
  BY <1>1, <1>2, FilterValues

(* What a sequence with one more element has.                              *)
LEMMA AppendRange ==
  ASSUME NEW X, NEW s \in Seq(X), NEW x \in X
  PROVE  /\ Append(s, x) \in Seq(X)
         /\ Range(Append(s, x)) = Range(s) \cup {x}
         /\ IsInjective(s) /\ x \notin Range(s) => IsInjective(Append(s, x))
<1>1. /\ Append(s, x) \in Seq(X)
      /\ Len(Append(s, x)) = Len(s) + 1 /\ Len(s) \in Nat
      /\ \A i \in 1..Len(s) : Append(s, x)[i] = s[i]
      /\ Append(s, x)[Len(s) + 1] = x
      /\ DOMAIN s = 1..Len(s) /\ DOMAIN Append(s, x) = 1..(Len(s) + 1)
  BY AppendProperties, LenProperties
<1>2. Range(Append(s, x)) = Range(s) \cup {x}
  BY <1>1 DEF Range
<1>3. IsInjective(s) /\ x \notin Range(s) => IsInjective(Append(s, x))
  <2> SUFFICES ASSUME IsInjective(s), x \notin Range(s),
                      NEW i \in 1..(Len(s) + 1), NEW j \in 1..(Len(s) + 1),
                      Append(s, x)[i] = Append(s, x)[j]
               PROVE  i = j
    BY <1>1 DEF IsInjective
  <2>1. \A k \in 1..Len(s) : s[k] # x
    BY <1>1 DEF Range
  <2>2. CASE i \in 1..Len(s) /\ j \in 1..Len(s)
    BY <1>1, <2>2 DEF IsInjective
  <2>3. CASE ~(i \in 1..Len(s) /\ j \in 1..Len(s))
    BY <1>1, <2>1, <2>3
  <2>4. QED
    BY <2>2, <2>3
<1>4. QED
  BY <1>1, <1>2, <1>3

(* What is left of a sequence without its first element.                   *)
LEMMA TailRange ==
  ASSUME NEW X, NEW s \in Seq(X), s # <<>>
  PROVE  /\ Head(s) \in X /\ Tail(s) \in Seq(X)
         /\ Range(s) = Range(Tail(s)) \cup {Head(s)}
         /\ IsInjective(s) => IsInjective(Tail(s)) /\ Head(s) \notin Range(Tail(s))
<1>1. /\ Head(s) \in X /\ Head(s) = s[1] /\ Tail(s) \in Seq(X)
      /\ Len(s) \in Nat \ {0} /\ Len(Tail(s)) = Len(s) - 1
      /\ \A i \in 1..(Len(s) - 1) : Tail(s)[i] = s[i + 1]
      /\ DOMAIN s = 1..Len(s) /\ DOMAIN Tail(s) = 1..(Len(s) - 1)
  BY HeadTailProperties, LenProperties, EmptySeq
<1>2. Range(s) = Range(Tail(s)) \cup {Head(s)}
  <2>1. \A i \in 1..Len(s) : i = 1 \/ i - 1 \in 1..(Len(s) - 1)
    BY <1>1
  <2>2. Range(s) \subseteq Range(Tail(s)) \cup {Head(s)}
    <3> SUFFICES ASSUME NEW i \in 1..Len(s) PROVE s[i] \in Range(Tail(s)) \cup {Head(s)}
      BY <1>1 DEF Range
    <3>1. CASE i = 1
      BY <1>1, <3>1
    <3>2. CASE i - 1 \in 1..(Len(s) - 1)
      <4>1. Tail(s)[i - 1] = s[i]
        BY <1>1, <3>2
      <4>2. QED
        BY <1>1, <3>2, <4>1 DEF Range
    <3>3. QED
      BY <2>1, <3>1, <3>2
  <2>3. Range(Tail(s)) \cup {Head(s)} \subseteq Range(s)
    <3>1. \A i \in 1..(Len(s) - 1) : i + 1 \in 1..Len(s)
      BY <1>1
    <3>2. 1 \in 1..Len(s)
      BY <1>1
    <3>3. QED
      BY <1>1, <3>1, <3>2 DEF Range
  <2>4. QED
    BY <2>2, <2>3
<1>3. ASSUME IsInjective(s) PROVE IsInjective(Tail(s)) /\ Head(s) \notin Range(Tail(s))
  <2>1. \A i, j \in 1..Len(s) : s[i] = s[j] => i = j
    BY <1>1, <1>3 DEF IsInjective
  <2>2. ASSUME NEW i \in 1..(Len(s) - 1) PROVE Tail(s)[i] = s[i + 1] /\ i + 1 \in 1..Len(s) /\ i + 1 # 1
    BY <1>1
  <2>3. Head(s) \notin Range(Tail(s))
    BY <1>1, <2>1, <2>2 DEF Range
  <2>4. ASSUME NEW i \in 1..(Len(s) - 1), NEW j \in 1..(Len(s) - 1), Tail(s)[i] = Tail(s)[j]
        PROVE  i = j
    BY <1>1, <2>1, <2>2, <2>4
  <2>5. QED
    BY <1>1, <2>3, <2>4 DEF IsInjective
<1>4. QED
  BY <1>1, <1>2, <1>3

(* The empty sequence has no elements.                                     *)
LEMMA EmptyRange == Range(<<>>) = {} /\ IsInjective(<<>>)
<1>1. DOMAIN <<>> = {}
  BY EmptySeq, LenProperties
<1>2. QED
  BY <1>1 DEF Range, IsInjective

(* What two sequences have in one.                                         *)
LEMMA ConcatRange ==
  ASSUME NEW X, NEW s \in Seq(X), NEW t \in Seq(X)
  PROVE  s \o t \in Seq(X) /\ Range(s \o t) = Range(s) \cup Range(t)
<1>1. /\ s \o t \in Seq(X) /\ Len(s \o t) = Len(s) + Len(t)
      /\ \A i \in 1..(Len(s) + Len(t)) :
           (s \o t)[i] = IF i <= Len(s) THEN s[i] ELSE t[i - Len(s)]
  BY ConcatProperties
<1>2. /\ Len(s) \in Nat /\ Len(t) \in Nat
      /\ DOMAIN s = 1..Len(s) /\ DOMAIN t = 1..Len(t)
      /\ DOMAIN (s \o t) = 1..(Len(s) + Len(t))
  BY <1>1, LenProperties
<1>3. ASSUME NEW i \in DOMAIN (s \o t) PROVE (s \o t)[i] \in Range(s) \cup Range(t)
  <2>1. CASE i <= Len(s)
    BY <1>1, <1>2, <2>1 DEF Range
  <2>2. CASE ~(i <= Len(s))
    <3>1. i - Len(s) \in DOMAIN t /\ (s \o t)[i] = t[i - Len(s)]
      BY <1>1, <1>2, <2>2
    <3>2. QED
      BY <3>1 DEF Range
  <2>3. QED
    BY <2>1, <2>2
<1>4. ASSUME NEW i \in DOMAIN s PROVE s[i] \in Range(s \o t)
  <2>1. i \in DOMAIN (s \o t) /\ (s \o t)[i] = s[i]
    BY <1>1, <1>2
  <2>2. QED
    BY <2>1 DEF Range
<1>5. ASSUME NEW i \in DOMAIN t PROVE t[i] \in Range(s \o t)
  <2>1. Len(s) + i \in DOMAIN (s \o t) /\ (s \o t)[Len(s) + i] = t[i]
    BY <1>1, <1>2
  <2>2. QED
    BY <2>1 DEF Range
<1>6. QED
  BY <1>1, <1>3, <1>4, <1>5 DEF Range

-----------------------------------------------------------------------------
(* What Only() keeps: the elements in S, each as often as before.          *)
LEMMA OnlyKeeps ==
  ASSUME NEW X, NEW s \in Seq(X), NEW S
  PROVE  /\ Only(s, S) \in Seq(X)
         /\ Range(Only(s, S)) = Range(s) \cap S
         /\ IsInjective(s) => IsInjective(Only(s, S))
<1>1. Len(s) \in Nat /\ DOMAIN s = 1..Len(s) /\ \A i \in 1..Len(s) : s[i] \in X
  BY LenProperties
<1>2. PICK f : Keeps(f, s, S, Len(s)) /\ Only(s, S) = f[Len(s)]
  BY <1>1, OnlyIsLast
<1>3. /\ f[0] = <<>>
      /\ \A i \in 1..Len(s) : f[i] = IF s[i] \in S THEN Append(f[i - 1], s[i]) ELSE f[i - 1]
  BY <1>2 DEF Keeps
<1> DEFINE G == {i \in 0..Len(s) :
                   /\ f[i] \in Seq(X)
                   /\ Range(f[i]) = {s[j] : j \in 1..i} \cap S
                   /\ IsInjective(s) => IsInjective(f[i])}
<1>4. 0 \in G
  <2>1. f[0] \in Seq(X) /\ Range(f[0]) = {} /\ IsInjective(f[0])
    BY <1>3, EmptyRange, EmptySeq
  <2>2. {s[j] : j \in 1..0} = {}
    OBVIOUS
  <2>3. QED
    BY <1>1, <2>1, <2>2
<1>5. ASSUME NEW k \in 1..Len(s), k - 1 \in G PROVE k \in G
  <2>1. /\ f[k - 1] \in Seq(X)
        /\ Range(f[k - 1]) = {s[j] : j \in 1..(k - 1)} \cap S
        /\ IsInjective(s) => IsInjective(f[k - 1])
    BY <1>5
  <2>2. {s[j] : j \in 1..k} = {s[j] : j \in 1..(k - 1)} \cup {s[k]}
    BY <1>1
  <2>3. CASE s[k] \in S
    <3>1. f[k] = Append(f[k - 1], s[k])
      BY <1>3, <2>3
    <3>2. /\ f[k] \in Seq(X)
          /\ Range(f[k]) = Range(f[k - 1]) \cup {s[k]}
          /\ IsInjective(f[k - 1]) /\ s[k] \notin Range(f[k - 1]) => IsInjective(f[k])
      BY <1>1, <2>1, <3>1, AppendRange
    <3>3. IsInjective(s) => s[k] \notin Range(f[k - 1])
      BY <1>1, <2>1 DEF IsInjective
    <3>4. QED
      BY <1>1, <2>1, <2>2, <2>3, <3>2, <3>3
  <2>4. CASE s[k] \notin S
    <3>1. f[k] = f[k - 1]
      BY <1>3, <2>4
    <3>2. QED
      BY <1>1, <2>1, <2>2, <2>4, <3>1
  <2>5. QED
    BY <2>3, <2>4
<1>6. Len(s) \in G
  <2> HIDE DEF G
  <2>1. 0..Len(s) \subseteq G
    BY <1>1, <1>4, <1>5, UpTo
  <2>2. QED
    BY <1>1, <2>1
<1>7. Range(s) = {s[j] : j \in 1..Len(s)}
  BY <1>1 DEF Range
<1>8. QED
  BY <1>2, <1>6, <1>7

(* Only() of the empty sequence.                                           *)
LEMMA OnlyEmpty ==
  ASSUME NEW S
  PROVE  Only(<<>>, S) = <<>>
<1>1. Len(<<>>) = 0
  BY EmptySeq
<1>2. PICK f : Keeps(f, <<>>, S, 0) /\ Only(<<>>, S) = f[0]
  BY <1>1, OnlyIsLast
<1>3. QED
  BY <1>2 DEF Keeps

(* Only() of the empty sequence, and of a sequence with one more element.  *)
LEMMA OnlyAppend ==
  ASSUME NEW X, NEW s \in Seq(X), NEW x \in X, NEW S
  PROVE  /\ Only(<<>>, S) = <<>>
         /\ Only(Append(s, x), S) = IF x \in S THEN Append(Only(s, S), x) ELSE Only(s, S)
<1> DEFINE t == Append(s, x)
<1>1. Len(s) \in Nat /\ Len(t) = Len(s) + 1 /\ t[Len(s) + 1] = x
      /\ \A i \in 1..Len(s) : t[i] = s[i]
  BY AppendProperties, LenProperties
<1> HIDE DEF t
<1>2. Only(<<>>, S) = <<>>
  BY OnlyEmpty
<1>3. PICK f : Keeps(f, s, S, Len(s)) /\ Only(s, S) = f[Len(s)]
  BY <1>1, OnlyIsLast
<1>4. PICK g : Keeps(g, t, S, Len(t)) /\ Only(t, S) = g[Len(t)]
  BY <1>1, OnlyIsLast
<1>5. /\ f[0] = <<>>
      /\ \A i \in 1..Len(s) : f[i] = IF s[i] \in S THEN Append(f[i - 1], s[i]) ELSE f[i - 1]
  BY <1>3 DEF Keeps
<1>6. /\ g[0] = <<>>
      /\ \A i \in 1..Len(t) : g[i] = IF t[i] \in S THEN Append(g[i - 1], t[i]) ELSE g[i - 1]
  BY <1>4 DEF Keeps
<1> DEFINE G == {i \in 0..Len(s) : f[i] = g[i]}
<1>7. 0 \in G
  BY <1>1, <1>5, <1>6
<1>8. ASSUME NEW k \in 1..Len(s), k - 1 \in G PROVE k \in G
  BY <1>1, <1>5, <1>6, <1>8
<1>9. f[Len(s)] = g[Len(s)]
  <2> HIDE DEF G
  <2>1. 0..Len(s) \subseteq G
    BY <1>1, <1>7, <1>8, UpTo
  <2>2. QED
    BY <1>1, <2>1 DEF G
<1>10. Only(t, S) = IF x \in S THEN Append(Only(s, S), x) ELSE Only(s, S)
  BY <1>1, <1>3, <1>4, <1>6, <1>9
<1>11. QED
  BY <1>2, <1>10 DEF t

(* Filtering twice is filtering once, if the second filter is finer.       *)
LEMMA OnlyFiner ==
  ASSUME NEW X, NEW s \in Seq(X), NEW A, NEW B, B \subseteq A
  PROVE  Only(Only(s, A), B) = Only(s, B)
<1>1. Len(s) \in Nat /\ \A i \in 1..Len(s) : s[i] \in X
  BY LenProperties
<1>2. PICK f : Keeps(f, s, A, Len(s)) /\ Only(s, A) = f[Len(s)]
  BY <1>1, OnlyIsLast
<1>3. PICK g : Keeps(g, s, B, Len(s)) /\ Only(s, B) = g[Len(s)]
  BY <1>1, OnlyIsLast
<1>4. /\ f[0] = <<>>
      /\ \A i \in 1..Len(s) : f[i] = IF s[i] \in A THEN Append(f[i - 1], s[i]) ELSE f[i - 1]
  BY <1>2 DEF Keeps
<1>5. /\ g[0] = <<>>
      /\ \A i \in 1..Len(s) : g[i] = IF s[i] \in B THEN Append(g[i - 1], s[i]) ELSE g[i - 1]
  BY <1>3 DEF Keeps
<1> DEFINE G == {i \in 0..Len(s) : f[i] \in Seq(X) /\ Only(f[i], B) = g[i]}
<1>6. 0 \in G
  <2>1. f[0] \in Seq(X) /\ Only(f[0], B) = g[0]
    BY <1>4, <1>5, OnlyEmpty, EmptySeq
  <2>2. QED
    BY <1>1, <2>1
<1>7. ASSUME NEW k \in 1..Len(s), k - 1 \in G PROVE k \in G
  <2>1. f[k - 1] \in Seq(X) /\ Only(f[k - 1], B) = g[k - 1] /\ s[k] \in X
    BY <1>1, <1>7
  <2>2. Append(f[k - 1], s[k]) \in Seq(X)
    BY <2>1, AppendRange
  <2>3. Only(Append(f[k - 1], s[k]), B)
          = IF s[k] \in B THEN Append(Only(f[k - 1], B), s[k]) ELSE Only(f[k - 1], B)
    <3>1. \A t \in Seq(X), x \in X :
            Only(Append(t, x), B) = IF x \in B THEN Append(Only(t, B), x) ELSE Only(t, B)
      BY OnlyAppend
    <3>2. QED
      BY <2>1, <3>1
  <2>4. CASE s[k] \in A
    <3>1. f[k] = Append(f[k - 1], s[k])
      BY <1>4, <2>4
    <3>2. g[k] = IF s[k] \in B THEN Append(g[k - 1], s[k]) ELSE g[k - 1]
      BY <1>5
    <3>3. f[k] \in Seq(X) /\ Only(f[k], B) = g[k]
      BY <2>1, <2>2, <2>3, <3>1, <3>2
    <3>4. QED
      BY <1>1, <3>3
  <2>5. CASE s[k] \notin A
    BY <1>4, <1>5, <2>1, <2>5
  <2>6. QED
    BY <2>4, <2>5
<1>8. Len(s) \in G
  <2> HIDE DEF G
  <2>1. 0..Len(s) \subseteq G
    BY <1>1, <1>6, <1>7, UpTo
  <2>2. QED
    BY <1>1, <2>1
<1>9. QED
  BY <1>2, <1>3, <1>8

-----------------------------------------------------------------------------
(* Where a sequence has an element of S.                                   *)
Places(s, S) == {i \in DOMAIN s : s[i] \in S}

(* They are finitely many.                                                 *)
LEMMA PlacesFinite ==
  ASSUME NEW X, NEW s \in Seq(X), NEW S
  PROVE  IsFiniteSet(Places(s, S)) /\ Cardinality(Places(s, S)) \in Nat
<1>1. Len(s) \in Nat /\ Places(s, S) \in SUBSET (1..Len(s))
  BY LenProperties DEF Places
<1>2. IsFiniteSet(1..Len(s))
  BY <1>1, FS_Interval
<1>3. IsFiniteSet(Places(s, S))
  BY <1>1, <1>2, FS_Subset
<1>4. QED
  BY <1>3, FS_CardinalityType

(* A longer sequence has one more place for the element appended.          *)
LEMMA AppendPlaces ==
  ASSUME NEW X, NEW s \in Seq(X), NEW x \in X, NEW S
  PROVE  Cardinality(Places(Append(s, x), S)) =
           Cardinality(Places(s, S)) + (IF x \in S THEN 1 ELSE 0)
<1>1. /\ Append(s, x) \in Seq(X) /\ Len(s) \in Nat /\ Len(Append(s, x)) = Len(s) + 1
      /\ DOMAIN s = 1..Len(s) /\ DOMAIN Append(s, x) = 1..(Len(s) + 1)
      /\ \A i \in 1..Len(s) : Append(s, x)[i] = s[i]
      /\ Append(s, x)[Len(s) + 1] = x
  BY AppendProperties, LenProperties
<1>2. IsFiniteSet(Places(s, S)) /\ Cardinality(Places(s, S)) \in Nat
  BY PlacesFinite
<1>3. Len(s) + 1 \notin Places(s, S)
  BY <1>1 DEF Places
<1>4. Places(Append(s, x), S) = IF x \in S THEN Places(s, S) \cup {Len(s) + 1} ELSE Places(s, S)
  BY <1>1 DEF Places
<1>5. Cardinality(Places(s, S) \cup {Len(s) + 1}) = Cardinality(Places(s, S)) + 1
  BY <1>2, <1>3, FS_AddElement
<1>6. QED
  BY <1>2, <1>4, <1>5

(* A sequence without its first element has one place less for that one.   *)
LEMMA TailPlaces ==
  ASSUME NEW X, NEW s \in Seq(X), s # <<>>, NEW S
  PROVE  Cardinality(Places(s, S)) =
           Cardinality(Places(Tail(s), S)) + (IF Head(s) \in S THEN 1 ELSE 0)
<1>1. /\ Head(s) = s[1] /\ Tail(s) \in Seq(X)
      /\ Len(s) \in Nat \ {0} /\ Len(Tail(s)) = Len(s) - 1
      /\ \A i \in 1..(Len(s) - 1) : Tail(s)[i] = s[i + 1]
      /\ DOMAIN s = 1..Len(s) /\ DOMAIN Tail(s) = 1..(Len(s) - 1)
  BY HeadTailProperties, LenProperties, EmptySeq
<1> DEFINE P == Places(s, S)
           Q == Places(Tail(s), S)
           f == [i \in Q |-> i + 1]
<1>2. IsFiniteSet(P) /\ IsFiniteSet(Q)
  BY <1>1, PlacesFinite
<1>3. f \in Bijection(Q, P \ {1})
  <2>1. \A i \in Q : f[i] \in P \ {1}
    BY <1>1 DEF Places
  <2>2. \A i \in Q : \A j \in Q : f[i] = f[j] => i = j
    BY <1>1 DEF Places
  <2>3. \A i \in P \ {1} : i - 1 \in Q /\ f[i - 1] = i
    BY <1>1 DEF Places
  <2> HIDE DEF Q, P
  <2>4. f \in [Q -> P \ {1}]
    BY <2>1
  <2> HIDE DEF f
  <2>5. f \in Injection(Q, P \ {1})
    BY <2>2, <2>4, Fun_IsInj
  <2>6. f \in Surjection(Q, P \ {1})
    BY <2>3, <2>4, Fun_IsSurj
  <2>7. QED
    BY <2>5, <2>6, Fun_IsBij
<1>4. Cardinality(Q) = Cardinality(P \ {1})
  <2> HIDE DEF Q, P, f
  <2>1. QED
    BY <1>2, <1>3, FS_Bijection DEF ExistsBijection
<1>5. 1 \in P <=> Head(s) \in S
  BY <1>1 DEF Places
<1>6. QED
  <2> HIDE DEF P, Q
  <2>1. Cardinality(P \ {1}) = IF 1 \in P THEN Cardinality(P) - 1 ELSE Cardinality(P)
    BY <1>2, FS_RemoveElement
  <2>2. Cardinality(P) \in Nat
    BY <1>2, FS_CardinalityType
  <2>3. QED
    BY <1>4, <1>5, <2>1, <2>2 DEF P, Q

-----------------------------------------------------------------------------
(* Taking an element from one end of a sequence to the other of the next.  *)
LEMMA Shift ==
  ASSUME NEW X, NEW s \in Seq(X), NEW x \in X, NEW t \in Seq(X)
  PROVE  Append(s, x) \o t = s \o (<<x>> \o t)
<1>1. <<x>> \in Seq(X) /\ Append(s, x) = s \o <<x>>
  BY AppendIsConcat
<1>2. QED
  BY <1>1, ConcatAssociative

(* Adding an element at the end of two sequences.                          *)
LEMMA ConcatAppend ==
  ASSUME NEW X, NEW s \in Seq(X), NEW t \in Seq(X), NEW x \in X
  PROVE  s \o Append(t, x) = Append(s \o t, x)
<1>1. <<x>> \in Seq(X) /\ Append(t, x) = t \o <<x>>
  BY AppendIsConcat
<1>2. s \o t \in Seq(X) /\ Append(s \o t, x) = (s \o t) \o <<x>>
  <2>1. s \o t \in Seq(X)
    BY ConcatProperties
  <2>2. QED
    BY <2>1, AppendIsConcat
<1>3. QED
  BY <1>1, <1>2, ConcatAssociative

(* Only() of a sequence begins with what it keeps of the first element.    *)
LEMMA OnlyHead ==
  ASSUME NEW X, NEW s \in Seq(X), s # <<>>, NEW S
  PROVE  Only(s, S) = (IF Head(s) \in S THEN <<Head(s)>> ELSE <<>>) \o Only(Tail(s), S)
<1> DEFINE t == Tail(s)
           first == IF Head(s) \in S THEN <<Head(s)>> ELSE <<>>
<1>1. /\ Len(s) \in Nat \ {0} /\ t \in Seq(X) /\ Len(t) = Len(s) - 1
      /\ Head(s) = s[1] /\ Head(s) \in X
      /\ \A i \in 1..Len(t) : t[i] = s[i + 1] /\ t[i] \in X
      /\ Len(t) \in Nat
  BY HeadTailProperties, LenProperties, EmptySeq
<1> HIDE DEF t
<1>2. first \in Seq(X)
  <2>1. <<>> \in Seq(X) /\ <<Head(s)>> \in Seq(X)
    BY <1>1
  <2>2. QED
    BY <2>1
<1>3. PICK f : Keeps(f, s, S, Len(s)) /\ Only(s, S) = f[Len(s)]
  BY <1>1, OnlyIsLast
<1>4. PICK g : Keeps(g, t, S, Len(t)) /\ Only(t, S) = g[Len(t)]
  BY <1>1, OnlyIsLast
<1>5. /\ f[0] = <<>>
      /\ \A i \in 1..Len(s) : f[i] = IF s[i] \in S THEN Append(f[i - 1], s[i]) ELSE f[i - 1]
  BY <1>3 DEF Keeps
<1>6. /\ g[0] = <<>>
      /\ \A i \in 1..Len(t) : g[i] = IF t[i] \in S THEN Append(g[i - 1], t[i]) ELSE g[i - 1]
  BY <1>4 DEF Keeps
<1>7. f[1] = first
  <2>1. f[1] = IF s[1] \in S THEN Append(<<>>, s[1]) ELSE <<>>
    <3>1. 1 \in 1..Len(s) /\ 1 - 1 = 0
      BY <1>1
    <3>2. f[1] = IF s[1] \in S THEN Append(f[1 - 1], s[1]) ELSE f[1 - 1]
      BY <1>5, <3>1
    <3>3. QED
      BY <1>5, <3>1, <3>2
  <2>2. Append(<<>>, s[1]) = <<s[1]>>
    OBVIOUS
  <2>3. QED
    BY <1>1, <2>1, <2>2
<1> HIDE DEF first
<1> DEFINE G == {i \in 0..Len(t) : g[i] \in Seq(X) /\ f[i + 1] = first \o g[i]}
<1>8. 0 \in G
  <2>1. g[0] \in Seq(X) /\ first \o <<>> = first
    BY <1>2, <1>6, EmptySeq, ConcatEmptySeq
  <2>2. f[0 + 1] = first \o g[0]
    BY <1>6, <1>7, <2>1
  <2>3. QED
    BY <1>1, <2>1, <2>2
<1>9. ASSUME NEW k \in 1..Len(t), k - 1 \in G PROVE k \in G
  <2>1. /\ g[k - 1] \in Seq(X) /\ f[(k - 1) + 1] = first \o g[k - 1]
        /\ t[k] \in X /\ t[k] = s[k + 1] /\ (k - 1) + 1 = k /\ (k + 1) - 1 = k
        /\ k + 1 \in 1..Len(s) /\ k \in 0..Len(t)
    BY <1>1, <1>9
  <2>2. g[k] = IF t[k] \in S THEN Append(g[k - 1], t[k]) ELSE g[k - 1]
    BY <1>6
  <2>3. f[k + 1] = IF t[k] \in S THEN Append(f[k], t[k]) ELSE f[k]
    BY <1>5, <2>1
  <2>4. f[k] = first \o g[k - 1]
    BY <2>1
  <2>5. Append(first \o g[k - 1], t[k]) = first \o Append(g[k - 1], t[k])
    <3>1. \A a, b \in Seq(X), c \in X : a \o Append(b, c) = Append(a \o b, c)
      BY ConcatAppend
    <3>2. QED
      BY <1>2, <2>1, <3>1
  <2>6. Append(g[k - 1], t[k]) \in Seq(X)
    BY <2>1, AppendRange
  <2>7. g[k] \in Seq(X) /\ f[k + 1] = first \o g[k]
    BY <2>1, <2>2, <2>3, <2>4, <2>5, <2>6
  <2>8. QED
    BY <2>1, <2>7
<1>10. Len(t) \in G
  <2> HIDE DEF G
  <2>1. 0..Len(t) \subseteq G
    BY <1>1, <1>8, <1>9, UpTo
  <2>2. QED
    BY <1>1, <2>1
<1>11. f[Len(s)] = first \o g[Len(t)]
  BY <1>1, <1>10
<1>12. QED
  BY <1>3, <1>4, <1>11 DEF t, first

-----------------------------------------------------------------------------
(* What f makes of the elements of s that are in S, in their order.        *)
Picked(s, S, f) == LET kept == Only(s, S) IN [i \in DOMAIN kept |-> f[kept[i]]]

(* What is picked are values of f, and nothing of the empty sequence.      *)
LEMMA PickedValues ==
  ASSUME NEW X, NEW S, NEW f, NEW s \in Seq(X)
  PROVE  Picked(s, S, f) \in Seq({f[a] : a \in S}) /\ Picked(<<>>, S, f) = <<>>
<1> DEFINE kept == Only(s, S)
           picked == Picked(s, S, f)
           Y == {f[a] : a \in S}
<1>0. \A a \in S : f[a] \in Y
  OBVIOUS
<1> HIDE DEF Y
<1>1. kept \in Seq(X) /\ Range(kept) \subseteq S
  BY OnlyKeeps
<1>2. /\ Len(kept) \in Nat /\ DOMAIN kept = 1..Len(kept)
      /\ \A i \in 1..Len(kept) : kept[i] \in S
  BY <1>1, LenProperties DEF Range
<1>3. picked = [i \in 1..Len(kept) |-> f[kept[i]]]
  BY <1>2 DEF Picked
<1>4. picked \in Seq(Y)
  BY <1>0, <1>2, <1>3
<1>5. Picked(<<>>, S, f) = <<>>
  <2>1. Only(<<>>, S) = <<>> /\ DOMAIN <<>> = {}
    BY OnlyEmpty
  <2>2. QED
    BY <2>1 DEF Picked
<1>6. QED
  BY <1>4, <1>5 DEF Y

(* Picking from a sequence with an element more.                           *)
LEMMA PickedAppend ==
  ASSUME NEW X, NEW S, NEW f, NEW s \in Seq(X), NEW x \in X
  PROVE  Picked(Append(s, x), S, f) =
           IF x \in S THEN Append(Picked(s, S, f), f[x]) ELSE Picked(s, S, f)
<1> DEFINE kept == Only(s, S)
           picked == Picked(s, S, f)
           Y == {f[a] : a \in S}
<1>0. \A a \in S : f[a] \in Y
  OBVIOUS
<1> HIDE DEF Y
<1>1. kept \in Seq(X) /\ Range(kept) \subseteq S
  BY OnlyKeeps
<1>2. /\ Len(kept) \in Nat /\ DOMAIN kept = 1..Len(kept)
      /\ \A i \in 1..Len(kept) : kept[i] \in S
  BY <1>1, LenProperties DEF Range
<1>3. picked = [i \in 1..Len(kept) |-> f[kept[i]]]
  BY <1>2 DEF Picked
<1>4. picked \in Seq(Y) /\ Len(picked) = Len(kept) /\ \A i \in 1..Len(kept) : picked[i] = f[kept[i]]
  BY <1>0, <1>2, <1>3
<1>6. CASE x \notin S
  <2>1. Only(Append(s, x), S) = kept
    BY <1>6, OnlyAppend
  <2>2. QED
    BY <1>4, <1>6, <2>1 DEF Picked, Y
<1>7. CASE x \in S
  <2>1. Only(Append(s, x), S) = Append(kept, x)
    BY <1>7, OnlyAppend
  <2>2. /\ DOMAIN Append(kept, x) = 1..(Len(kept) + 1)
        /\ \A i \in 1..Len(kept) : Append(kept, x)[i] = kept[i]
        /\ Append(kept, x)[Len(kept) + 1] = x
    <3> HIDE DEF kept
    <3>1. Append(kept, x) \in Seq(X) /\ Len(Append(kept, x)) = Len(kept) + 1
      BY <1>1, AppendProperties
    <3>2. QED
      BY <1>1, <1>2, <3>1, AppendProperties, LenProperties
  <2>3. f[x] \in Y
    BY <1>0, <1>7
  <2>4. /\ Append(picked, f[x]) \in Seq(Y) /\ Len(Append(picked, f[x])) = Len(kept) + 1
        /\ \A i \in 1..Len(kept) : Append(picked, f[x])[i] = f[kept[i]]
        /\ Append(picked, f[x])[Len(kept) + 1] = f[x]
    BY <1>4, <2>3, AppendProperties
  <2> DEFINE longer == Picked(Append(s, x), S, f)
  <2>5. longer = [i \in 1..(Len(kept) + 1) |-> f[Append(kept, x)[i]]]
    BY <2>1, <2>2 DEF Picked
  <2>6. \A i \in 1..(Len(kept) + 1) : i \in 1..Len(kept) \/ i = Len(kept) + 1
    BY <1>2
  <2>7. \A i \in 1..(Len(kept) + 1) : longer[i] = Append(picked, f[x])[i] /\ longer[i] \in Y
    BY <1>0, <1>2, <2>2, <2>3, <2>4, <2>5, <2>6
  <2>8. longer \in Seq(Y) /\ Len(longer) = Len(kept) + 1
    <3> HIDE DEF kept, picked
    <3>1. DOMAIN longer = 1..(Len(kept) + 1) /\ Len(kept) + 1 \in Nat
      BY <1>2, <2>5
    <3> HIDE DEF longer
    <3>2. longer = [i \in 1..(Len(kept) + 1) |-> longer[i]]
      BY <2>5, <3>1 DEF longer
    <3>3. QED
      BY <2>7, <3>1, <3>2
  <2>9. longer = Append(picked, f[x])
    <3> HIDE DEF longer, picked, kept
    <3>1. QED
      BY <2>4, <2>7, <2>8, SeqEqual
  <2>10. QED
    BY <1>4, <1>7, <2>9
<1>8. QED
  BY <1>6, <1>7

(* Of a head that is not picked nothing is picked.                         *)
LEMMA PickedSkips ==
  ASSUME NEW X, NEW S, NEW f, NEW s \in Seq(X), s # <<>>, Head(s) \notin S
  PROVE  Picked(s, S, f) = Picked(Tail(s), S, f)
<1> DEFINE rest == Only(Tail(s), S)
<1>1. Tail(s) \in Seq(X) /\ Head(s) \in X
  BY TailRange
<1>2. rest \in Seq(X) /\ Range(rest) \subseteq S
  <2>1. \A t \in Seq(X) : Only(t, S) \in Seq(X) /\ Range(Only(t, S)) \subseteq S
    BY OnlyKeeps
  <2>2. QED
    BY <1>1, <2>1
<1>3. <<>> \o rest = rest
  BY <1>2, ConcatEmptySeq
<1>4. Only(s, S) = rest
  BY <1>3, OnlyHead
<1>5. QED
  BY <1>4 DEF Picked

(* Picking from a sequence begins with what is picked of its head.         *)
LEMMA PickedFirst ==
  ASSUME NEW X, NEW S, NEW f, NEW s \in Seq(X), s # <<>>, Head(s) \in S
  PROVE  Picked(s, S, f) = <<f[Head(s)]>> \o Picked(Tail(s), S, f)
<1> DEFINE rest == Only(Tail(s), S)
           later == Picked(Tail(s), S, f)
           Y == {f[a] : a \in S}
<1>0. \A a \in S : f[a] \in Y
  OBVIOUS
<1>1. Tail(s) \in Seq(X) /\ Head(s) \in X
  BY TailRange
<1>2. rest \in Seq(X) /\ Range(rest) \subseteq S
  <2>1. \A t \in Seq(X) : Only(t, S) \in Seq(X) /\ Range(Only(t, S)) \subseteq S
    BY OnlyKeeps
  <2>2. QED
    BY <1>1, <2>1
<1>3. later \in Seq(Y)
  <2>1. \A t \in Seq(X) : Picked(t, S, f) \in Seq(Y)
    BY PickedValues
  <2>2. QED
    BY <1>1, <2>1
<1>4. Only(s, S) = <<Head(s)>> \o rest
  BY OnlyHead
<1> DEFINE h == Head(s)
<1>5. /\ Len(rest) \in Nat /\ DOMAIN rest = 1..Len(rest)
      /\ \A i \in 1..Len(rest) : rest[i] \in S
  BY <1>2, LenProperties DEF Range
<1>6. h \in S /\ f[h] \in Y /\ h \in X
  BY <1>1
<1> HIDE DEF h, rest
<1>7. /\ <<h>> \in Seq(X) /\ Len(<<h>>) = 1 /\ <<h>>[1] = h
      /\ <<f[h]>> \in Seq(Y) /\ Len(<<f[h]>>) = 1 /\ <<f[h]>>[1] = f[h]
  BY <1>6
<1>8. /\ <<h>> \o rest \in Seq(X) /\ Len(<<h>> \o rest) = 1 + Len(rest)
      /\ \A i \in 1..(1 + Len(rest)) : (<<h>> \o rest)[i] = IF i <= 1 THEN h ELSE rest[i - 1]
  <2>1. /\ <<h>> \o rest \in Seq(X) /\ Len(<<h>> \o rest) = Len(<<h>>) + Len(rest)
        /\ \A i \in 1..(Len(<<h>>) + Len(rest)) :
             (<<h>> \o rest)[i] = IF i <= Len(<<h>>) THEN <<h>>[i] ELSE rest[i - Len(<<h>>)]
    BY <1>2, <1>7, ConcatProperties DEF rest
  <2>2. \A i \in 1..(1 + Len(rest)) : i <= 1 => i = 1
    BY <1>5
  <2>3. QED
    BY <1>7, <2>1, <2>2
<1>9. later = [i \in 1..Len(rest) |-> f[rest[i]]]
  BY <1>5 DEF Picked, rest
<1>10. Len(later) = Len(rest) /\ \A i \in 1..Len(rest) : later[i] = f[rest[i]]
  BY <1>5, <1>9
<1> HIDE DEF later
<1>11. /\ <<f[h]>> \o later \in Seq(Y) /\ Len(<<f[h]>> \o later) = 1 + Len(rest)
      /\ \A i \in 1..(1 + Len(rest)) :
           (<<f[h]>> \o later)[i] = IF i <= 1 THEN f[h] ELSE later[i - 1]
  <2>1. /\ <<f[h]>> \o later \in Seq(Y) /\ Len(<<f[h]>> \o later) = Len(<<f[h]>>) + Len(later)
        /\ \A i \in 1..(Len(<<f[h]>>) + Len(later)) :
             (<<f[h]>> \o later)[i] =
               IF i <= Len(<<f[h]>>) THEN <<f[h]>>[i] ELSE later[i - Len(<<f[h]>>)]
    BY <1>3, <1>7, ConcatProperties DEF later
  <2>2. \A i \in 1..(1 + Len(rest)) : i <= 1 => i = 1
    BY <1>5
  <2>3. QED
    BY <1>7, <1>10, <2>1, <2>2
<1> DEFINE whole == Picked(s, S, f)
<1>12. whole = [i \in 1..(1 + Len(rest)) |-> f[(<<h>> \o rest)[i]]]
  <2>1. DOMAIN (<<h>> \o rest) = 1..(1 + Len(rest))
    BY <1>8, LenProperties
  <2>2. QED
    BY <1>4, <2>1 DEF Picked, h
<1>13. \A i \in 1..(1 + Len(rest)) : i > 1 => i - 1 \in 1..Len(rest)
  BY <1>5
<1>14. \A i \in 1..(1 + Len(rest)) : whole[i] = (<<f[h]>> \o later)[i] /\ whole[i] \in Y
  <2> SUFFICES ASSUME NEW i \in 1..(1 + Len(rest))
               PROVE  whole[i] = (<<f[h]>> \o later)[i] /\ whole[i] \in Y
    OBVIOUS
  <2>1. whole[i] = f[(<<h>> \o rest)[i]]
    BY <1>12
  <2>2. CASE i <= 1
    BY <1>6, <1>8, <1>11, <2>1, <2>2
  <2>3. CASE i > 1
    <3>1. i - 1 \in 1..Len(rest) /\ ~(i <= 1)
      BY <1>5, <1>13, <2>3
    <3>2. whole[i] = f[rest[i - 1]] /\ (<<f[h]>> \o later)[i] = later[i - 1]
      BY <1>8, <1>11, <2>1, <3>1
    <3>3. QED
      BY <1>5, <1>10, <3>1, <3>2
  <2>4. i <= 1 \/ i > 1
    BY <1>5
  <2>5. QED
    BY <2>2, <2>3, <2>4
<1>15. whole \in Seq(Y) /\ Len(whole) = 1 + Len(rest)
  <2>1. DOMAIN whole = 1..(1 + Len(rest)) /\ 1 + Len(rest) \in Nat
    BY <1>5, <1>12
  <2>2. whole = [i \in 1..(1 + Len(rest)) |-> whole[i]]
    BY <1>12, <2>1
  <2> HIDE DEF whole
  <2>3. QED
    BY <1>14, <2>1, <2>2
<1>16. whole = <<f[h]>> \o later
  <2> HIDE DEF whole
  <2>1. QED
    BY <1>11, <1>14, <1>15, SeqEqual
<1>17. QED
  BY <1>3, <1>6, <1>16 DEF h, later

(* Picking from a sequence that has only what is picked maps each of its   *)
(* elements.                                                               *)
LEMMA OnlyAll ==
  ASSUME NEW S, NEW s \in Seq(S)
  PROVE  Only(s, S) = s
<1>1. Len(s) \in Nat /\ \A i \in 1..Len(s) : s[i] \in S
  BY LenProperties
<1>2. PICK f : Keeps(f, s, S, Len(s)) /\ Only(s, S) = f[Len(s)]
  BY <1>1, OnlyIsLast
<1> DEFINE G == {k \in 0..Len(s) : f[k] = SubSeq(s, 1, k)}
<1>3. 0 \in G
  <2>1. f[0] = <<>>
    BY <1>2 DEF Keeps
  <2>2. SubSeq(s, 1, 0) = <<>>
    BY SubSeqEmpty
  <2>3. 0 \in 0..Len(s)
    BY <1>1
  <2>4. f[0] = SubSeq(s, 1, 0)
    BY <2>1, <2>2, Zenon
  <2>5. QED
    BY <2>3, <2>4
<1>4. \A k \in 1..Len(s) : k - 1 \in G => k \in G
  <2> SUFFICES ASSUME NEW k \in 1..Len(s), k - 1 \in G PROVE k \in G
    OBVIOUS
  <2>1. k \in 0..Len(s) /\ k \in Nat /\ 1 \in 1..Len(s) /\ k \in 1..Len(s) /\ s[k] \in S
    BY <1>1
  <2>2. f[k] = Append(f[k - 1], s[k])
    BY <1>2, <2>1 DEF Keeps
  <2>3. f[k - 1] = SubSeq(s, 1, k - 1)
    OBVIOUS
  <2>4. SubSeq(s, 1, k) = SubSeq(s, 1, k - 1) \o <<s[k]>>
    BY <2>1, SubSeqRecursiveSecond
  <2>5. SubSeq(s, 1, k - 1) \in Seq(S)
    <3>1. \A i \in 1..(k - 1) : s[i] \in S
      BY <1>1, <2>1
    <3>2. k - 1 \in Int /\ 1 \in Int
      BY <2>1
    <3>3. QED
      BY <3>1, <3>2, SubSeqProperties
  <2>6. Append(SubSeq(s, 1, k - 1), s[k]) = SubSeq(s, 1, k - 1) \o <<s[k]>>
    BY <2>1, <2>5, AppendIsConcat
  <2>7. QED
    BY <2>1, <2>2, <2>3, <2>4, <2>6
<1>5. f[Len(s)] = SubSeq(s, 1, Len(s))
  <2> HIDE DEF G
  <2>1. 0..Len(s) \subseteq G
    BY <1>1, <1>3, <1>4, UpTo
  <2>2. QED
    BY <1>1, <2>1 DEF G
<1>6. QED
  BY <1>2, <1>5, SubSeqFull

(* Nothing of an element that comes last is lost when the first one goes.  *)
LEMMA TailAppend ==
  ASSUME NEW X, NEW s \in Seq(X), s # <<>>, NEW x \in X
  PROVE  Tail(Append(s, x)) = Append(Tail(s), x) /\ Head(Append(s, x)) = Head(s)
<1> DEFINE t == Append(s, x)
           a == Tail(t)
           b == Append(Tail(s), x)
<1>1. /\ t \in Seq(X) /\ Len(t) = Len(s) + 1 /\ Len(s) \in Nat \ {0}
      /\ \A i \in 1..Len(s) : t[i] = s[i]
      /\ t[Len(s) + 1] = x /\ t # <<>>
  BY AppendProperties, EmptySeq
<1>2. /\ Tail(s) \in Seq(X) /\ Len(Tail(s)) = Len(s) - 1
      /\ \A i \in 1..(Len(s) - 1) : Tail(s)[i] = s[i + 1]
  BY HeadTailProperties
<1> HIDE DEF t
<1>3. /\ a \in Seq(X) /\ Len(a) = Len(s)
      /\ \A i \in 1..Len(s) : a[i] = t[i + 1]
  BY <1>1, HeadTailProperties
<1>4. /\ b \in Seq(X) /\ Len(b) = Len(s)
      /\ \A i \in 1..(Len(s) - 1) : b[i] = s[i + 1]
      /\ b[Len(s)] = x
  BY <1>1, <1>2, AppendProperties
<1> HIDE DEF a, b
<1>5. \A i \in 1..Len(s) : a[i] = b[i]
  <2> SUFFICES ASSUME NEW i \in 1..Len(s) PROVE a[i] = b[i]
    OBVIOUS
  <2>1. CASE i = Len(s)
    BY <1>1, <1>3, <1>4, <2>1
  <2>2. CASE i # Len(s)
    <3>1. i \in 1..(Len(s) - 1) /\ i + 1 \in 1..Len(s)
      BY <1>1, <2>2
    <3>2. QED
      BY <1>1, <1>3, <1>4, <3>1
  <2>3. QED
    BY <2>1, <2>2
<1>6. a = b
  BY <1>3, <1>4, <1>5, SeqEqual
<1>7. Head(t) = Head(s)
  <2>1. Head(t) = t[1] /\ Head(s) = s[1] /\ 1 \in 1..Len(s)
    BY <1>1
  <2>2. QED
    BY <1>1, <2>1
<1>8. QED
  BY <1>6, <1>7 DEF a, b, t

(* What a sequence begins with.                                            *)
LEMMA ConcatPrefix ==
  ASSUME NEW X, NEW s \in Seq(X), NEW t \in Seq(X)
  PROVE  /\ Len(s) <= Len(s \o t)
         /\ SubSeq(s, 1, Len(s)) = SubSeq(s \o t, 1, Len(s))
         /\ \A i \in 1..Len(s) : (s \o t)[i] = s[i]
<1> DEFINE u == s \o t
<1>1. /\ Len(s) \in Nat /\ Len(t) \in Nat /\ u \in Seq(X) /\ Len(u) = Len(s) + Len(t)
      /\ \A i \in 1..Len(s) : u[i] = s[i] /\ s[i] \in X
  <2>1. /\ Len(s) \in Nat /\ Len(t) \in Nat /\ \A i \in 1..Len(s) : s[i] \in X
    BY LenProperties
  <2>2. /\ u \in Seq(X) /\ Len(u) = Len(s) + Len(t)
        /\ \A i \in 1..(Len(s) + Len(t)) : u[i] = IF i <= Len(s) THEN s[i] ELSE t[i - Len(s)]
    BY ConcatProperties
  <2>3. \A i \in 1..Len(s) : i \in 1..(Len(s) + Len(t)) /\ i <= Len(s)
    BY <2>1
  <2> HIDE DEF u
  <2>4. QED
    BY <2>1, <2>2, <2>3
<1> HIDE DEF u
<1>2. /\ SubSeq(s, 1, Len(s)) \in Seq(X) /\ Len(SubSeq(s, 1, Len(s))) = Len(s)
      /\ \A i \in 1..Len(s) : SubSeq(s, 1, Len(s))[i] = s[i]
  BY <1>1, SubSeqFull
<1>3. /\ SubSeq(u, 1, Len(s)) \in Seq(X) /\ Len(SubSeq(u, 1, Len(s))) = Len(s)
      /\ \A i \in 1..Len(s) : SubSeq(u, 1, Len(s))[i] = u[i]
  <2>1. 1 \in Int /\ Len(s) \in Int /\ \A i \in 1..Len(s) : u[i] \in X
    BY <1>1
  <2>2. /\ SubSeq(u, 1, Len(s)) \in Seq(X)
        /\ Len(SubSeq(u, 1, Len(s))) = (IF 1 <= Len(s) THEN Len(s) - 1 + 1 ELSE 0)
        /\ \A i \in 1..(Len(s) - 1 + 1) : SubSeq(u, 1, Len(s))[i] = u[1 + i - 1]
    BY <2>1, SubSeqProperties
  <2>3. QED
    BY <1>1, <2>2
<1>4. SubSeq(s, 1, Len(s)) = SubSeq(u, 1, Len(s))
  BY <1>1, <1>2, <1>3, SeqEqual
<1>5. QED
  BY <1>1, <1>4 DEF u

-----------------------------------------------------------------------------
(* What holds of the empty sequence, and of every sequence with an element *)
(* more, holds of all: G has those of which it holds.                      *)
LEMMA SequenceInduction ==
  ASSUME NEW X, NEW s \in Seq(X), NEW G, <<>> \in G,
         \A u \in Seq(X), x \in X : u \in G => Append(u, x) \in G
  PROVE  s \in G
<1>1. Len(s) \in Nat /\ \A i \in 1..Len(s) : s[i] \in X
  BY LenProperties
<1> DEFINE K == {k \in 0..Len(s) : SubSeq(s, 1, k) \in G}
<1>2. 0 \in K
  <2>1. SubSeq(s, 1, 0) = <<>>
    BY SubSeqEmpty
  <2>2. SubSeq(s, 1, 0) \in G
    BY <2>1, Zenon
  <2>3. QED
    BY <1>1, <2>2
<1>3. \A k \in 1..Len(s) : k - 1 \in K => k \in K
  <2> SUFFICES ASSUME NEW k \in 1..Len(s), k - 1 \in K PROVE k \in K
    OBVIOUS
  <2>1. /\ k \in 0..Len(s) /\ k \in Nat /\ 1 \in 1..Len(s) /\ s[k] \in X
        /\ SubSeq(s, 1, k - 1) \in G
    BY <1>1
  <2>2. SubSeq(s, 1, k - 1) \in Seq(X)
    <3>1. /\ \A i \in 1..(k - 1) : s[i] \in X
          /\ k - 1 \in Int /\ 1 \in Int
      BY <1>1, <2>1
    <3>2. QED
      BY <3>1, SubSeqProperties
  <2>3. SubSeq(s, 1, k) = SubSeq(s, 1, k - 1) \o <<s[k]>>
    BY <2>1, SubSeqRecursiveSecond
  <2>4. Append(SubSeq(s, 1, k - 1), s[k]) = SubSeq(s, 1, k - 1) \o <<s[k]>>
    BY <2>1, <2>2, AppendIsConcat
  <2>5. Append(SubSeq(s, 1, k - 1), s[k]) \in G
    BY <2>1, <2>2
  <2>6. QED
    BY <2>1, <2>3, <2>4, <2>5
<1>4. SubSeq(s, 1, Len(s)) \in G
  <2> HIDE DEF K
  <2>1. 0..Len(s) \subseteq K
    BY <1>1, <1>2, <1>3, UpTo
  <2>2. QED
    BY <1>1, <2>1 DEF K
<1>5. QED
  BY <1>4, SubSeqFull

(* Only() of two sequences in one.                                         *)
LEMMA OnlyConcat ==
  ASSUME NEW X, NEW s \in Seq(X), NEW t \in Seq(X), NEW S
  PROVE  Only(s \o t, S) = Only(s, S) \o Only(t, S)
<1> DEFINE G == {u \in Seq(X) : Only(s \o u, S) = Only(s, S) \o Only(u, S)}
<1>0. Only(s, S) \in Seq(X)
  BY OnlyKeeps
<1>1. <<>> \in G
  <2>1. <<>> \in Seq(X) /\ s \o <<>> = s /\ Only(s, S) \o <<>> = Only(s, S)
    BY <1>0, ConcatEmptySeq
  <2>2. QED
    BY <2>1, OnlyEmpty
<1>2. ASSUME NEW u \in Seq(X), NEW x \in X, u \in G PROVE Append(u, x) \in G
  <2>1. Only(u, S) \in Seq(X)
    BY OnlyKeeps
  <2>2. s \o u \in Seq(X) /\ Append(u, x) \in Seq(X)
    BY ConcatProperties, AppendProperties
  <2>3. s \o Append(u, x) = Append(s \o u, x)
    BY ConcatAppend
  <2>4. Only(Append(s \o u, x), S) = IF x \in S THEN Append(Only(s \o u, S), x) ELSE Only(s \o u, S)
    BY <2>2, OnlyAppend
  <2>5. Only(Append(u, x), S) = IF x \in S THEN Append(Only(u, S), x) ELSE Only(u, S)
    BY OnlyAppend
  <2>6. Only(s, S) \o Append(Only(u, S), x) = Append(Only(s, S) \o Only(u, S), x)
    BY <1>0, <2>1, ConcatAppend
  <2>7. Only(s \o u, S) = Only(s, S) \o Only(u, S)
    BY <1>2
  <2>8. QED
    BY <2>2, <2>3, <2>4, <2>5, <2>6, <2>7
<1> HIDE DEF G
<1>3. t \in G
  BY <1>1, <1>2, SequenceInduction
<1>4. QED
  BY <1>3 DEF G

(* Only() looks at no more of S than the elements there are.               *)
LEMMA OnlyAgree ==
  ASSUME NEW X, NEW s \in Seq(X), NEW A, NEW B, \A x \in X : x \in A <=> x \in B
  PROVE  Only(s, A) = Only(s, B)
<1> DEFINE G == {u \in Seq(X) : Only(u, A) = Only(u, B)}
<1>1. <<>> \in G
  BY OnlyEmpty
<1>2. ASSUME NEW u \in Seq(X), NEW x \in X, u \in G PROVE Append(u, x) \in G
  <2>1. Append(u, x) \in Seq(X)
    BY AppendProperties
  <2>2. \A S : Only(Append(u, x), S) = IF x \in S THEN Append(Only(u, S), x) ELSE Only(u, S)
    BY OnlyAppend
  <2>3. QED
    BY <1>2, <2>1, <2>2
<1> HIDE DEF G
<1>3. s \in G
  BY <1>1, <1>2, SequenceInduction
<1>4. QED
  BY <1>3 DEF G

(* Nothing is kept of what has nothing in S.                               *)
LEMMA OnlyNone ==
  ASSUME NEW X, NEW s \in Seq(X), NEW S, \A x \in X : x \notin S
  PROVE  Only(s, S) = <<>>
<1>1. Only(s, S) \in Seq(X) /\ Range(Only(s, S)) \subseteq {}
  BY OnlyKeeps DEF Range
<1>2. Len(Only(s, S)) \in Nat /\ DOMAIN Only(s, S) = 1..Len(Only(s, S))
  BY <1>1, LenProperties
<1>3. Len(Only(s, S)) = 0
  <2> SUFFICES ASSUME Len(Only(s, S)) # 0 PROVE FALSE
    BY <1>2
  <2>1. 1 \in DOMAIN Only(s, S)
    BY <1>2
  <2>2. QED
    BY <1>1, <2>1 DEF Range
<1>4. QED
  BY <1>1, <1>3, EmptySeq

(* Keeping twice is keeping what both keep.                                *)
LEMMA OnlyBoth ==
  ASSUME NEW X, NEW s \in Seq(X), NEW A, NEW B
  PROVE  Only(Only(s, A), B) = Only(s, A \cap B)
<1> DEFINE G == {u \in Seq(X) : Only(Only(u, A), B) = Only(u, A \cap B)}
<1>1. <<>> \in G
  BY OnlyEmpty
<1>2. ASSUME NEW u \in Seq(X), NEW x \in X, u \in G PROVE Append(u, x) \in G
  <2>1. Append(u, x) \in Seq(X)
    BY AppendProperties
  <2>2. /\ Only(Append(u, x), A) = IF x \in A THEN Append(Only(u, A), x) ELSE Only(u, A)
        /\ Only(Append(u, x), A \cap B) =
             IF x \in A \cap B THEN Append(Only(u, A \cap B), x) ELSE Only(u, A \cap B)
    BY OnlyAppend
  <2>3. Only(u, A) \in Seq(X)
    BY OnlyKeeps
  <2>4. Only(Append(Only(u, A), x), B) =
          IF x \in B THEN Append(Only(Only(u, A), B), x) ELSE Only(Only(u, A), B)
    BY <2>3, OnlyAppend
  <2>5. Only(Only(u, A), B) = Only(u, A \cap B)
    BY <1>2
  <2>6. Only(Only(Append(u, x), A), B) = Only(Append(u, x), A \cap B)
    <3>1. CASE x \in A
      <4>1. x \in A \cap B <=> x \in B
        BY <3>1
      <4>2. /\ Only(Append(u, x), A) = Append(Only(u, A), x)
            /\ Only(Append(u, x), A \cap B) =
                 IF x \in B THEN Append(Only(u, A \cap B), x) ELSE Only(u, A \cap B)
        BY <2>2, <3>1, <4>1
      <4>3. QED
        BY <2>4, <2>5, <4>2
    <3>2. CASE x \notin A
      <4>1. x \notin A \cap B
        BY <3>2
      <4>2. QED
        BY <2>2, <2>5, <3>2, <4>1
    <3>3. QED
      BY <3>1, <3>2
  <2>7. QED
    BY <2>1, <2>6
<1> HIDE DEF G
<1>3. s \in G
  BY <1>1, <1>2, SequenceInduction
<1>4. QED
  BY <1>3 DEF G

(* Picking from two sequences in one.                                      *)
LEMMA PickedConcat ==
  ASSUME NEW X, NEW S, NEW f, NEW s \in Seq(X), NEW t \in Seq(X)
  PROVE  Picked(s \o t, S, f) = Picked(s, S, f) \o Picked(t, S, f)
<1>a. \A u \in Seq(X), x \in X : Picked(Append(u, x), S, f) =
        IF x \in S THEN Append(Picked(u, S, f), f[x]) ELSE Picked(u, S, f)
  BY PickedAppend
<1> DEFINE Y == {f[a] : a \in S}
           G == {u \in Seq(X) : Picked(s \o u, S, f) = Picked(s, S, f) \o Picked(u, S, f)}
<1>0. Picked(s, S, f) \in Seq(Y)
  BY PickedValues
<1>1. <<>> \in G
  <2>1. <<>> \in Seq(X) /\ s \o <<>> = s
    BY ConcatEmptySeq
  <2>2. Picked(s, S, f) \o <<>> = Picked(s, S, f)
    BY <1>0, ConcatEmptySeq
  <2>3. Picked(<<>>, S, f) = <<>>
    BY PickedValues
  <2>4. QED
    BY <2>1, <2>2, <2>3
<1>2. ASSUME NEW u \in Seq(X), NEW x \in X, u \in G PROVE Append(u, x) \in G
  <2>1. Picked(u, S, f) \in Seq(Y)
    BY PickedValues
  <2>2. s \o u \in Seq(X) /\ Append(u, x) \in Seq(X)
    BY ConcatProperties, AppendProperties
  <2>3. s \o Append(u, x) = Append(s \o u, x)
    BY ConcatAppend
  <2>4. Picked(Append(s \o u, x), S, f) =
          IF x \in S THEN Append(Picked(s \o u, S, f), f[x]) ELSE Picked(s \o u, S, f)
    BY <1>a, <2>2
  <2>5. Picked(Append(u, x), S, f) =
          IF x \in S THEN Append(Picked(u, S, f), f[x]) ELSE Picked(u, S, f)
    BY <1>a
  <2>6. x \in S => Picked(s, S, f) \o Append(Picked(u, S, f), f[x])
                     = Append(Picked(s, S, f) \o Picked(u, S, f), f[x])
    <3>1. x \in S => f[x] \in Y
      OBVIOUS
    <3> HIDE DEF Y
    <3>2. QED
      BY <1>0, <2>1, <3>1, ConcatAppend
  <2>7. Picked(s \o u, S, f) = Picked(s, S, f) \o Picked(u, S, f)
    BY <1>2
  <2>8. QED
    BY <2>2, <2>3, <2>4, <2>5, <2>6, <2>7
<1> HIDE DEF G
<1>3. t \in G
  BY <1>1, <1>2, SequenceInduction
<1>4. QED
  BY <1>3 DEF G
-----------------------------------------------------------------------------
(* A sequence of numbers that grow.                                        *)
Increasing(q) == \A i, j \in DOMAIN q : i < j => q[i] < q[j]

(* The places of two sequences in one.                                     *)
LEMMA ConcatPlaces ==
  ASSUME NEW X, NEW a \in Seq(X), NEW b \in Seq(X)
  PROVE  /\ Len(a) \in Nat /\ Len(b) \in Nat /\ a \o b \in Seq(X)
         /\ DOMAIN a = 1..Len(a) /\ DOMAIN b = 1..Len(b) /\ DOMAIN (a \o b) = 1..(Len(a) + Len(b))
         /\ \A i \in DOMAIN a : i \in DOMAIN (a \o b) /\ (a \o b)[i] = a[i]
         /\ \A i \in DOMAIN b : Len(a) + i \in DOMAIN (a \o b) /\ (a \o b)[Len(a) + i] = b[i]
         /\ \A i \in DOMAIN (a \o b) :
              \/ i \in DOMAIN a
              \/ i > Len(a) /\ i - Len(a) \in DOMAIN b /\ (a \o b)[i] = b[i - Len(a)]
<1>1. Len(a) \in Nat /\ Len(b) \in Nat /\ DOMAIN a = 1..Len(a) /\ DOMAIN b = 1..Len(b)
  BY LenProperties
<1>2. /\ a \o b \in Seq(X) /\ Len(a \o b) = Len(a) + Len(b)
      /\ \A i \in 1..(Len(a) + Len(b)) : (a \o b)[i] = IF i <= Len(a) THEN a[i] ELSE b[i - Len(a)]
  BY ConcatProperties
<1>3. DOMAIN (a \o b) = 1..(Len(a) + Len(b))
  BY <1>2, LenProperties
<1> DEFINE c == a \o b
<1> HIDE DEF c
<1>4. /\ DOMAIN c = 1..(Len(a) + Len(b))
      /\ \A i \in 1..(Len(a) + Len(b)) : c[i] = IF i <= Len(a) THEN a[i] ELSE b[i - Len(a)]
  BY <1>2, <1>3 DEF c
<1>5. \A i \in DOMAIN a : i \in DOMAIN c /\ c[i] = a[i]
  BY <1>1, <1>4
<1>6. ASSUME NEW i \in DOMAIN b
      PROVE  Len(a) + i \in DOMAIN c /\ c[Len(a) + i] = b[i]
  <2>1. i \in 1..Len(b)
    BY <1>1
  <2>2. /\ Len(a) + i \in 1..(Len(a) + Len(b)) /\ ~(Len(a) + i <= Len(a))
        /\ (Len(a) + i) - Len(a) = i
    BY <1>1, <2>1
  <2>3. QED
    BY <1>4, <2>2
<1>7. ASSUME NEW i \in DOMAIN c, i \notin DOMAIN a
      PROVE  i > Len(a) /\ i - Len(a) \in DOMAIN b /\ c[i] = b[i - Len(a)]
  <2>1. i \in 1..(Len(a) + Len(b)) /\ ~(i <= Len(a)) /\ i > Len(a) /\ i - Len(a) \in 1..Len(b)
    BY <1>1, <1>4, <1>7
  <2>2. QED
    BY <1>1, <1>4, <2>1
<1>8. QED
  BY <1>1, <1>2, <1>3, <1>5, <1>6, <1>7 DEF c

(* Two that grow, the second from above the first, grow in one.            *)
LEMMA IncreasingConcat ==
  ASSUME NEW a \in Seq(Nat), NEW b \in Seq(Nat), Increasing(a), Increasing(b),
         \A i \in DOMAIN a, j \in DOMAIN b : a[i] < b[j]
  PROVE  Increasing(a \o b)
<1> DEFINE c == a \o b
<1>1. /\ Len(a) \in Nat /\ DOMAIN a = 1..Len(a) /\ DOMAIN b = 1..Len(b) /\ Len(b) \in Nat
      /\ DOMAIN c = 1..(Len(a) + Len(b))
      /\ \A i \in DOMAIN a : c[i] = a[i]
      /\ \A i \in DOMAIN c :
           \/ i \in DOMAIN a
           \/ i > Len(a) /\ i - Len(a) \in DOMAIN b /\ c[i] = b[i - Len(a)]
  BY ConcatPlaces
<1> HIDE DEF c
<1>2. SUFFICES ASSUME NEW i \in DOMAIN c, NEW j \in DOMAIN c, i < j
               PROVE  c[i] < c[j]
  BY DEF Increasing, c
<1>3. CASE j \in DOMAIN a
  <2>1. i \in DOMAIN a
    BY <1>1, <1>2, <1>3
  <2>2. QED
    BY <1>1, <1>2, <1>3, <2>1 DEF Increasing
<1>4. CASE j \notin DOMAIN a
  <2>1. j > Len(a) /\ j - Len(a) \in DOMAIN b /\ c[j] = b[j - Len(a)]
    BY <1>1, <1>4
  <2>2. CASE i \in DOMAIN a
    BY <1>1, <2>1, <2>2
  <2>3. CASE i \notin DOMAIN a
    <3>1. i - Len(a) \in DOMAIN b /\ c[i] = b[i - Len(a)]
      BY <1>1, <2>3
    <3>2. i - Len(a) < j - Len(a)
      BY <1>1, <1>2
    <3>3. QED
      BY <2>1, <3>1, <3>2 DEF Increasing
  <2>4. QED
    BY <2>2, <2>3
<1>5. QED
  BY <1>3, <1>4

(* What grows in one grows in each, and from the first to the second.      *)
LEMMA IncreasingParts ==
  ASSUME NEW a \in Seq(Nat), NEW b \in Seq(Nat), Increasing(a \o b)
  PROVE  /\ Increasing(a) /\ Increasing(b)
         /\ \A i \in DOMAIN a, j \in DOMAIN b : a[i] < b[j]
<1> DEFINE c == a \o b
<1>1. /\ Len(a) \in Nat /\ DOMAIN a = 1..Len(a) /\ DOMAIN b = 1..Len(b) /\ Len(b) \in Nat
      /\ \A i \in DOMAIN a : i \in DOMAIN c /\ c[i] = a[i]
      /\ \A i \in DOMAIN b : Len(a) + i \in DOMAIN c /\ c[Len(a) + i] = b[i]
  BY ConcatPlaces
<1> HIDE DEF c
<1>2. \A i, j \in DOMAIN c : i < j => c[i] < c[j]
  BY DEF Increasing, c
<1>3. Increasing(a)
  BY <1>1, <1>2 DEF Increasing
<1>4. Increasing(b)
  <2> SUFFICES ASSUME NEW i \in DOMAIN b, NEW j \in DOMAIN b, i < j PROVE b[i] < b[j]
    BY DEF Increasing
  <2>1. Len(a) + i < Len(a) + j
    BY <1>1
  <2>2. QED
    BY <1>1, <1>2, <2>1
<1>5. ASSUME NEW i \in DOMAIN a, NEW j \in DOMAIN b PROVE a[i] < b[j]
  <2>1. i < Len(a) + j
    BY <1>1
  <2>2. QED
    BY <1>1, <1>2, <2>1
<1>6. QED
  BY <1>3, <1>4, <1>5

(* What grows still does without a part of it.                             *)
LEMMA IncreasingWithout ==
  ASSUME NEW a \in Seq(Nat), NEW b \in Seq(Nat), NEW c \in Seq(Nat), Increasing(a \o (b \o c))
  PROVE  Increasing(a \o c)
<1>1. b \o c \in Seq(Nat)
  BY ConcatProperties
<1>2. Increasing(a) /\ Increasing(b \o c) /\ \A i \in DOMAIN a, j \in DOMAIN (b \o c) : a[i] < (b \o c)[j]
  BY <1>1, IncreasingParts
<1>3. Increasing(c)
  BY <1>2, IncreasingParts
<1>4. \A j \in DOMAIN c : Len(b) + j \in DOMAIN (b \o c) /\ (b \o c)[Len(b) + j] = c[j]
  BY ConcatPlaces
<1>5. \A i \in DOMAIN a, j \in DOMAIN c : a[i] < c[j]
  BY <1>2, <1>4
<1>6. QED
  BY <1>2, <1>3, <1>5, IncreasingConcat

(* One number grows.                                                       *)
LEMMA IncreasingOne ==
  ASSUME NEW x \in Nat
  PROVE  <<x>> \in Seq(Nat) /\ Increasing(<<x>>) /\ DOMAIN <<x>> = {1} /\ <<x>>[1] = x
<1>1. <<x>> \in Seq(Nat) /\ Len(<<x>>) = 1 /\ <<x>>[1] = x
  OBVIOUS
<1>2. DOMAIN <<x>> = {1}
  BY <1>1, LenProperties
<1>3. QED
  BY <1>1, <1>2 DEF Increasing

(* What is kept of numbers that grow, grows.                               *)
LEMMA IncreasingOnly ==
  ASSUME NEW s \in Seq(Nat), NEW S, Increasing(s)
  PROVE  Increasing(Only(s, S))
<1> DEFINE G == {u \in Seq(Nat) : Increasing(u) => Increasing(Only(u, S))}
<1>1. <<>> \in G
  BY OnlyEmpty
<1>2. ASSUME NEW u \in Seq(Nat), NEW x \in Nat, u \in G PROVE Append(u, x) \in G
  <2>1. Append(u, x) \in Seq(Nat) /\ Append(u, x) = u \o <<x>>
    BY AppendProperties, AppendIsConcat
  <2>2. SUFFICES ASSUME Increasing(Append(u, x)) PROVE Increasing(Only(Append(u, x), S))
    BY <2>1
  <2>3. <<x>> \in Seq(Nat) /\ Increasing(<<x>>) /\ DOMAIN <<x>> = {1} /\ <<x>>[1] = x
    BY IncreasingOne
  <2>4. Increasing(u \o <<x>>)
    BY <2>1, <2>2
  <2>5. Increasing(u) /\ \A i \in DOMAIN u : u[i] < x
    BY <2>3, <2>4, IncreasingParts
  <2>6. Increasing(Only(u, S))
    BY <1>2, <2>5
  <2>7. /\ Only(u, S) \in Seq(Nat) /\ Range(Only(u, S)) = Range(u) \cap S
    BY OnlyKeeps
  <2>8. ASSUME NEW i \in DOMAIN Only(u, S), NEW j \in DOMAIN <<x>>
        PROVE  Only(u, S)[i] < <<x>>[j]
    <3>1. Only(u, S)[i] \in Range(u)
      BY <2>7 DEF Range
    <3>2. PICK k \in DOMAIN u : u[k] = Only(u, S)[i]
      BY <3>1 DEF Range
    <3>3. <<x>>[j] = x
      BY <2>3
    <3>4. QED
      BY <2>5, <3>2, <3>3
  <2>9. Increasing(Only(u, S) \o <<x>>)
    BY <2>3, <2>6, <2>7, <2>8, IncreasingConcat
  <2>10. Append(Only(u, S), x) = Only(u, S) \o <<x>>
    BY <2>7, AppendIsConcat
  <2>11. Only(Append(u, x), S) = IF x \in S THEN Append(Only(u, S), x) ELSE Only(u, S)
    BY OnlyAppend
  <2>12. QED
    BY <2>6, <2>9, <2>10, <2>11
<1> HIDE DEF G
<1>3. s \in G
  BY <1>1, <1>2, SequenceInduction
<1>4. QED
  BY <1>3 DEF G

(* Of two elements that are kept, the earlier one is kept earlier.         *)
LEMMA OnlyOrder ==
  ASSUME NEW X, NEW s \in Seq(X), NEW S, NEW i \in DOMAIN s, NEW j \in DOMAIN s, i < j,
         s[i] \in S, s[j] \in S
  PROVE  \E k, l \in DOMAIN Only(s, S) : k < l /\ Only(s, S)[k] = s[i] /\ Only(s, S)[l] = s[j]
<1> DEFINE Ordered(u) ==
             \A i0, j0 \in DOMAIN u : i0 < j0 /\ u[i0] \in S /\ u[j0] \in S =>
               \E k, l \in DOMAIN Only(u, S) :
                 k < l /\ Only(u, S)[k] = u[i0] /\ Only(u, S)[l] = u[j0]
           G == {u \in Seq(X) : Ordered(u)}
<1>1. <<>> \in G
  BY EmptySeq, LenProperties
<1>2. ASSUME NEW u \in Seq(X), NEW x \in X, u \in G PROVE Append(u, x) \in G
  <2> DEFINE v == Append(u, x)
             w == Only(u, S)
             y == Only(v, S)
  <2>1. /\ v \in Seq(X) /\ Len(v) = Len(u) + 1
        /\ \A m \in 1..Len(u) : v[m] = u[m]
        /\ v[Len(u) + 1] = x
    BY AppendProperties
  <2>2. /\ DOMAIN u = 1..Len(u) /\ DOMAIN v = 1..(Len(u) + 1) /\ Len(u) \in Nat
        /\ w \in Seq(X) /\ Range(w) = Range(u) \cap S
        /\ DOMAIN w = 1..Len(w) /\ Len(w) \in Nat
    BY <2>1, OnlyKeeps, LenProperties
  <2>3. y = IF x \in S THEN Append(w, x) ELSE w
    BY OnlyAppend
  <2>4. \A m \in DOMAIN w : m \in DOMAIN y /\ y[m] = w[m]
    <3>1. /\ Append(w, x) \in Seq(X) /\ Len(Append(w, x)) = Len(w) + 1
          /\ \A m \in 1..Len(w) : Append(w, x)[m] = w[m]
      BY <2>2, AppendProperties
    <3>2. DOMAIN Append(w, x) = 1..(Len(w) + 1)
      BY <3>1, LenProperties
    <3> HIDE DEF w, y
    <3>3. QED
      BY <2>2, <2>3, <3>1, <3>2
  <2>5. x \in S => Len(w) + 1 \in DOMAIN y /\ y[Len(w) + 1] = x
    <3>1. /\ Append(w, x) \in Seq(X) /\ Len(Append(w, x)) = Len(w) + 1
          /\ Append(w, x)[Len(w) + 1] = x
      BY <2>2, AppendProperties
    <3>2. DOMAIN Append(w, x) = 1..(Len(w) + 1)
      BY <3>1, LenProperties
    <3> HIDE DEF w, y
    <3>3. QED
      BY <2>2, <2>3, <3>1, <3>2
  <2> HIDE DEF v, w, y
  <2>6. ASSUME NEW i0 \in DOMAIN v, NEW j0 \in DOMAIN v, i0 < j0, v[i0] \in S, v[j0] \in S
        PROVE  \E k, l \in DOMAIN y : k < l /\ y[k] = v[i0] /\ y[l] = v[j0]
    <3>1. i0 \in DOMAIN u /\ u[i0] = v[i0]
      BY <2>1, <2>2, <2>6
    <3>2. CASE j0 \in DOMAIN u
      <4>1. u[j0] = v[j0]
        BY <2>1, <2>2, <3>2
      <4>2. Ordered(u)
        BY <1>2
      <4>3. PICK k \in DOMAIN w, l \in DOMAIN w : k < l /\ w[k] = u[i0] /\ w[l] = u[j0]
        BY <2>6, <3>1, <3>2, <4>1, <4>2 DEF w
      <4>4. QED
        BY <2>4, <3>1, <4>1, <4>3
    <3>3. CASE j0 \notin DOMAIN u
      <4>1. j0 = Len(u) + 1 /\ v[j0] = x /\ x \in S
        BY <2>1, <2>2, <2>6, <3>3
      <4>2. PICK k \in DOMAIN w : w[k] = u[i0]
        BY <2>2, <2>6, <3>1 DEF Range
      <4>3. k < Len(w) + 1
        BY <2>2
      <4>4. QED
        BY <2>4, <2>5, <3>1, <4>1, <4>2, <4>3
    <3>4. QED
      BY <3>2, <3>3
  <2>7. Ordered(v)
    BY <2>6 DEF y
  <2>8. QED
    BY <2>1, <2>7 DEF v
<1> HIDE DEF G
<1>3. s \in G
  BY <1>1, <1>2, SequenceInduction
<1>4. Ordered(s)
  BY <1>3 DEF G
<1>5. QED
  BY <1>4

(* Three sequences of numbers in one.                                      *)
LEMMA Regroup == \A p, q, r \in Seq(Nat) : (p \o q) \o r = p \o (q \o r)
<1>a. \A a, b \in Seq(Nat), c \in Nat : a \o Append(b, c) = Append(a \o b, c)
  BY ConcatAppend
<1> SUFFICES ASSUME NEW p \in Seq(Nat), NEW q \in Seq(Nat), NEW r \in Seq(Nat)
             PROVE  (p \o q) \o r = p \o (q \o r)
  OBVIOUS
<1> DEFINE G == {u \in Seq(Nat) : (p \o q) \o u = p \o (q \o u)}
<1>1. p \o q \in Seq(Nat)
  BY ConcatProperties
<1>2. <<>> \in G
  <2>1. <<>> \in Seq(Nat) /\ q \o <<>> = q /\ (p \o q) \o <<>> = p \o q
    BY <1>1, ConcatEmptySeq
  <2>2. QED
    BY <2>1
<1>3. ASSUME NEW u \in Seq(Nat), NEW x \in Nat, u \in G PROVE Append(u, x) \in G
  <2>1. q \o u \in Seq(Nat) /\ Append(u, x) \in Seq(Nat)
    BY ConcatProperties, AppendProperties
  <2>2. (p \o q) \o Append(u, x) = Append((p \o q) \o u, x)
    BY <1>1, <1>a, Zenon
  <2>3. q \o Append(u, x) = Append(q \o u, x)
    BY <1>a, Zenon
  <2>4. p \o Append(q \o u, x) = Append(p \o (q \o u), x)
    BY <2>1, <1>a, Zenon
  <2>5. (p \o q) \o u = p \o (q \o u)
    BY <1>3
  <2>6. (p \o q) \o Append(u, x) = p \o (q \o Append(u, x))
    BY <2>2, <2>3, <2>4, <2>5, Zenon
  <2>7. QED
    BY <2>1, <2>6
<1> HIDE DEF G
<1>4. r \in G
  BY <1>2, <1>3, SequenceInduction
<1>5. QED
  BY <1>4 DEF G
-----------------------------------------------------------------------------
(* No element of S is in s twice.                                          *)
Once(s, S) == IsInjective(Only(s, S))

(* A sequence without repetitions, or with nothing of S, is an example.    *)
LEMMA OnceInjective ==
  ASSUME NEW X, NEW s \in Seq(X), NEW S
  PROVE  /\ IsInjective(s) => Once(s, S)
         /\ Range(s) \cap S = {} => Once(s, S)
<1>1. Range(Only(s, S)) = Range(s) \cap S /\ (IsInjective(s) => IsInjective(Only(s, S)))
  BY OnlyKeeps
<1>2. Range(Only(s, S)) = {} => IsInjective(Only(s, S))
  BY DEF Range, IsInjective
<1>3. QED
  BY <1>1, <1>2 DEF Once

(* What is said of S is true of a part of it, and of a part of s.          *)
LEMMA OncePart ==
  ASSUME NEW X, NEW s \in Seq(X), NEW S, Once(s, S)
  PROVE  /\ \A T : T \subseteq S => Once(s, T)
         /\ \A T : Once(Only(s, T), S)
<1>1. Only(s, S) \in Seq(X)
  BY OnlyKeeps
<1>2. ASSUME NEW T, T \subseteq S PROVE Once(s, T)
  <2>1. Only(Only(s, S), T) = Only(s, T)
    BY <1>2, OnlyFiner
  <2>2. IsInjective(Only(s, S)) => IsInjective(Only(Only(s, S), T))
    BY <1>1, OnlyKeeps
  <2>3. QED
    BY <2>1, <2>2 DEF Once
<1>3. ASSUME NEW T PROVE Once(Only(s, T), S)
  <2>1. Only(Only(s, T), S) = Only(s, T \cap S) /\ Only(Only(s, S), T) = Only(s, S \cap T)
    BY OnlyBoth
  <2>2. T \cap S = S \cap T
    OBVIOUS
  <2>3. IsInjective(Only(s, S)) => IsInjective(Only(Only(s, S), T))
    BY <1>1, OnlyKeeps
  <2>4. QED
    BY <2>1, <2>2, <2>3 DEF Once
<1>4. QED
  BY <1>2, <1>3

LEMMA OnceAppend ==
  ASSUME NEW X, NEW s \in Seq(X), NEW x \in X, NEW S, Once(s, S), x \in S => x \notin Range(s)
  PROVE  Once(Append(s, x), S)
<1>1. /\ Only(s, S) \in Seq(X) /\ Range(Only(s, S)) = Range(s) \cap S
      /\ Only(Append(s, x), S) = IF x \in S THEN Append(Only(s, S), x) ELSE Only(s, S)
  BY OnlyKeeps, OnlyAppend
<1>2. x \notin Range(Only(s, S)) => IsInjective(Append(Only(s, S), x))
  BY <1>1, AppendRange DEF Once
<1>3. QED
  BY <1>1, <1>2 DEF Once

(* An element of S that is there is in one place.                          *)
LEMMA OncePlace ==
  ASSUME NEW X, NEW s \in Seq(X), NEW S, Once(s, S),
         NEW i \in DOMAIN s, NEW j \in DOMAIN s, s[i] = s[j], s[i] \in S
  PROVE  i = j
<1>1. ASSUME NEW k \in DOMAIN s, NEW l \in DOMAIN s, k < l, s[k] = s[l], s[k] \in S PROVE FALSE
  <2>1. PICK a, b \in DOMAIN Only(s, S) : a < b /\ Only(s, S)[a] = s[k] /\ Only(s, S)[b] = s[l]
    BY <1>1, OnlyOrder
  <2>2. Only(s, S) \in Seq(X)
    BY OnlyKeeps
  <2>3. a \in Nat /\ b \in Nat
    BY <2>2, LenProperties
  <2>4. a = b
    BY <1>1, <2>1 DEF Once, IsInjective
  <2>5. QED
    BY <2>1, <2>3, <2>4
<1>2. i \in Nat /\ j \in Nat
  BY LenProperties
<1>3. ~(i < j) /\ ~(j < i)
  BY <1>1
<1>4. QED
  BY <1>2, <1>3

LEMMA OnceTail ==
  ASSUME NEW X, NEW s \in Seq(X), s # <<>>, NEW S, Once(s, S)
  PROVE  /\ Once(Tail(s), S)
         /\ Head(s) \in S => Head(s) \notin Range(Tail(s))
<1>1. /\ Head(s) \in X /\ Tail(s) \in Seq(X)
      /\ Len(s) \in Nat \ {0} /\ DOMAIN s = 1..Len(s) /\ DOMAIN Tail(s) = 1..(Len(s) - 1)
      /\ \A i \in 1..(Len(s) - 1) : Tail(s)[i] = s[i + 1]
      /\ Head(s) = s[1]
  BY HeadTailProperties, LenProperties, EmptySeq
<1>2. ASSUME Head(s) \in S, Head(s) \in Range(Tail(s)) PROVE FALSE
  <2>1. PICK i \in 1..(Len(s) - 1) : s[i + 1] = s[1]
    BY <1>1, <1>2 DEF Range
  <2>2. i + 1 \in DOMAIN s /\ 1 \in DOMAIN s /\ i + 1 # 1
    BY <1>1
  <2>3. s[1] \in S
    BY <1>1, <1>2
  <2>4. QED
    BY <2>1, <2>2, <2>3, OncePlace
<1>3. Once(Tail(s), S)
  <2> DEFINE t == Only(Tail(s), S)
  <2>1. t \in Seq(X) /\ Only(s, S) = (IF Head(s) \in S THEN <<Head(s)>> ELSE <<>>) \o t
    BY <1>1, OnlyHead, OnlyKeeps
  <2> HIDE DEF t
  <2>2. CASE Head(s) \notin S
    BY <2>1, <2>2, ConcatEmptySeq DEF Once, t
  <2>3. CASE Head(s) \in S
    <3>1. <<Head(s)>> \in Seq(X) /\ Len(<<Head(s)>>) = 1
      BY <1>1
    <3>2. \A i \in DOMAIN t : Len(<<Head(s)>>) + i \in DOMAIN (<<Head(s)>> \o t)
                              /\ (<<Head(s)>> \o t)[Len(<<Head(s)>>) + i] = t[i]
      BY <2>1, <3>1, ConcatPlaces
    <3>3. DOMAIN t \subseteq Nat
      BY <2>1, LenProperties
    <3>4. IsInjective(<<Head(s)>> \o t)
      BY <2>1, <2>3 DEF Once
    <3>5. \A i, j \in DOMAIN t : t[i] = t[j] => 1 + i = 1 + j
      BY <3>1, <3>2, <3>4 DEF IsInjective
    <3>6. IsInjective(t)
      BY <3>3, <3>5 DEF IsInjective
    <3>7. QED
      BY <3>6 DEF Once, t
  <2>4. QED
    BY <2>2, <2>3
<1>4. QED
  BY <1>2, <1>3

(* Writing new over the beginning of old.                                  *)
LEMMA Overwritten ==
  ASSUME NEW X, NEW old \in Seq(X), NEW new \in Seq(X)
  PROVE  /\ new \o SubSeq(old, Len(new) + 1, Len(old)) \in Seq(X)
         /\ Range(new \o SubSeq(old, Len(new) + 1, Len(old))) \subseteq Range(old) \cup Range(new)
         /\ old = <<>> => new \o SubSeq(old, Len(new) + 1, Len(old)) = new
<1> DEFINE rest == SubSeq(old, Len(new) + 1, Len(old))
<1>1. /\ Len(old) \in Nat /\ Len(new) \in Nat /\ DOMAIN old = 1..Len(old)
      /\ \A i \in (Len(new) + 1)..Len(old) : old[i] \in X
  BY LenProperties
<1>2. /\ rest \in Seq(X)
      /\ Len(rest) = IF Len(new) + 1 <= Len(old) THEN Len(old) - (Len(new) + 1) + 1 ELSE 0
      /\ \A i \in 1..(Len(old) - (Len(new) + 1) + 1) : rest[i] = old[(Len(new) + 1) + i - 1]
  BY <1>1, SubSeqProperties
<1>3. old = <<>> => rest = <<>>
  <2>1. old = <<>> => Len(old) < Len(new) + 1
    BY <1>1, EmptySeq
  <2>2. QED
    BY <1>1, <2>1, SubSeqEmpty
<1> HIDE DEF rest
<1>4. Range(rest) \subseteq Range(old)
  <2> SUFFICES ASSUME NEW i \in DOMAIN rest PROVE rest[i] \in Range(old)
    BY DEF Range
  <2>1. i \in 1..Len(rest)
    BY <1>2, LenProperties
  <2>2. /\ i \in 1..(Len(old) - (Len(new) + 1) + 1)
        /\ (Len(new) + 1) + i - 1 \in DOMAIN old
    <3>1. \A m, n \in Nat : \A k \in 1..(IF n + 1 <= m THEN m - (n + 1) + 1 ELSE 0) :
            k \in 1..(m - (n + 1) + 1) /\ (n + 1) + k - 1 \in 1..m
      OBVIOUS
    <3>2. QED
      BY <1>1, <1>2, <2>1, <3>1
  <2>3. QED
    BY <1>2, <2>2 DEF Range
<1>5. /\ new \o rest \in Seq(X) /\ Range(new \o rest) = Range(new) \cup Range(rest)
      /\ rest = <<>> => new \o rest = new
  BY <1>2, ConcatRange, ConcatEmptySeq
<1>6. QED
  BY <1>3, <1>4, <1>5 DEF rest

(* A sequence is one of its own elements, ...                              *)
LEMMA OfItsRange ==
  ASSUME NEW X, NEW s \in Seq(X)
  PROVE  s \in Seq(Range(s))
<1> DEFINE G == {u \in Seq(X) : u \in Seq(Range(u))}
<1>1. <<>> \in G
  BY EmptySeq
<1>2. ASSUME NEW u \in Seq(X), NEW x \in X, u \in G PROVE Append(u, x) \in G
  <2>1. Append(u, x) \in Seq(X) /\ Range(Append(u, x)) = Range(u) \cup {x}
    BY AppendRange
  <2>2. u \in Seq(Range(u) \cup {x})
    <3>1. u \in Seq(Range(u)) /\ Range(u) \subseteq Range(u) \cup {x}
      BY <1>2
    <3>2. QED
      BY <3>1, SeqMonotonic
  <2>3. Append(u, x) \in Seq(Range(u) \cup {x})
    <3>1. x \in Range(u) \cup {x}
      OBVIOUS
    <3>2. QED
      BY <2>2, <3>1, AppendProperties
  <2>4. QED
    BY <2>1, <2>3
<1> HIDE DEF G
<1>3. s \in G
  BY <1>1, <1>2, SequenceInduction
<1>4. QED
  BY <1>3 DEF G

(* ... so only these count for what is kept of it.                         *)
LEMMA OnlySame ==
  ASSUME NEW X, NEW s \in Seq(X), NEW A, NEW B, \A x \in Range(s) : x \in A <=> x \in B
  PROVE  Only(s, A) = Only(s, B)
BY OfItsRange, OnlyAgree


(* Shift, for numbers.                                                     *)
LEMMA ShiftNumbers ==
  \A a, b \in Seq(Nat), x \in Nat : Append(a, x) \o b = a \o (<<x>> \o b)
<1>1. ASSUME NEW a \in Seq(Nat), NEW b \in Seq(Nat), NEW x \in Nat
      PROVE  Append(a, x) \o b = a \o (<<x>> \o b)
  <2>1. <<x>> \in Seq(Nat) /\ Append(a, x) = a \o <<x>>
    BY AppendIsConcat
  <2>2. QED
    BY <2>1, Regroup
<1>2. QED
  BY <1>1
=============================================================================
