--------------------------- MODULE SequenceProofs ----------------------------
(***************************************************************************)
(* What the proofs of the other modules use of numbers, sequences and      *)
(* sums: induction and recursion over an index, the operators on           *)
(* sequences, and what SumFunction comes to.                               *)
(***************************************************************************)
EXTENDS Integers, Sequences, SequencesExt, FiniteSetTheorems, SequenceTheorems,
        WellFoundedInduction, TLAPS

-----------------------------------------------------------------------------
(* Induction and recursion over an index *)

\* A set of numbers has a least one.
LEMMA LeastNat ==
    ASSUME NEW T, T \subseteq Nat, T # {}
    PROVE  \E x \in T : \A y \in T : x <= y
  <1>1. PICK x \in T : \A y \in T : ~ (<<y, x>> \in OpToRel(<, Nat))
    BY NatLessThanWellFounded, WFMin
  <1>2. \A y \in T : ~(y < x)
    BY <1>1 DEF OpToRel
  <1> QED
    BY <1>2

\* What holds of zero and of the number after each of which it holds, holds of all.
LEMMA Upward ==
    ASSUME NEW S, 0 \in S, \A n \in Nat : n \in S => n + 1 \in S
    PROVE  Nat \subseteq S
  <1> DEFINE T == Nat \ S
  <1> SUFFICES ASSUME T # {} PROVE FALSE
    OBVIOUS
  <1>1. PICK x \in T : \A y \in T : x <= y
    BY LeastNat
  <1>2. x # 0 /\ x \in Nat
    OBVIOUS
  <1>3. x - 1 \in Nat /\ x - 1 \in S
    BY <1>1, <1>2
  <1>4. (x - 1) + 1 \in S
    BY <1>3
  <1> QED
    BY <1>2, <1>4

\* Steps that take one element of S to the next, and a sequence that follows them.
AreSteps(F, n, S) == F \in [1..n -> [S -> S]]

Follow(F, n, S, b) ==
    \E f \in [0..n -> S] : f[0] = b /\ \A i \in 1..n : f[i] = F[i][f[i - 1]]

\* A sequence may be computed step by step.
LEMMA Computed ==
    ASSUME NEW n \in Nat, NEW S, NEW b \in S, NEW F, AreSteps(F, n, S)
    PROVE  Follow(F, n, S, b)
  <1> USE DEF AreSteps, Follow
  <1> DEFINE Done(k, f) == f[0] = b /\ \A i \in 1..k : f[i] = F[i][f[i - 1]]
             T == {k \in Nat : k <= n => \E f \in [0..k -> S] : Done(k, f)}
  <1>1. 0 \in T
    <2> DEFINE f == [i \in 0..0 |-> b]
    <2>1. f \in [0..0 -> S] /\ Done(0, f)
      OBVIOUS
    <2> QED
      BY <2>1
  <1>2. ASSUME NEW k \in Nat, k \in T PROVE k + 1 \in T
    <2> SUFFICES ASSUME k + 1 <= n PROVE \E f \in [0..(k + 1) -> S] : Done(k + 1, f)
      OBVIOUS
    <2>1. PICK f \in [0..k -> S] : Done(k, f)
      BY <1>2
    <2> DEFINE x == F[k + 1][f[k]]
               g == [i \in 0..(k + 1) |-> IF i = k + 1 THEN x ELSE f[i]]
    <2>2. F[k + 1] \in [S -> S] /\ f[k] \in S
      OBVIOUS
    <2>3. x \in S
      BY <2>2
    <2> HIDE DEF x
    <2>4. g \in [0..(k + 1) -> S] /\ g[0] = b /\ g[k + 1] = x
          /\ \A i \in 0..k : g[i] = f[i]
      BY <2>1, <2>3
    <2> HIDE DEF g
    <2>5. ASSUME NEW i \in 1..(k + 1) PROVE g[i] = F[i][g[i - 1]]
      <3>1. CASE i = k + 1
        BY <2>4, <3>1 DEF x
      <3>2. CASE i # k + 1
        <4>1. i \in 1..k /\ i \in 0..k /\ i - 1 \in 0..k
          BY <3>2
        <4> QED
          BY <2>1, <2>4, <4>1
      <3> QED
        BY <3>1, <3>2
    <2> QED
      BY <2>4, <2>5
  <1> HIDE DEF T
  <1>3. n \in T
    BY <1>1, <1>2, Upward
  <1> QED
    BY <1>3 DEF T

-----------------------------------------------------------------------------
(* Sequences *)

\* All but the last element of a sequence that has one.
LEMMA FrontOfSeq ==
    ASSUME NEW S, NEW s \in Seq(S), s # <<>>
    PROVE  /\ Front(s) \in Seq(S) /\ Len(Front(s)) = Len(s) - 1
           /\ \A i \in 1..(Len(s) - 1) : Front(s)[i] = s[i]
           /\ Len(s) \in Nat \ {0} /\ Last(s) = s[Len(s)] /\ Last(s) \in S
  <1>1. Len(s) \in Nat \ {0}
    BY EmptySeq
  <1>2. \A i \in 1..Len(s) : s[i] \in S
    BY ElementOfSeq
  <1>3. PICK n \in Nat : n = Len(s) - 1
    BY <1>1
  <1>4. \A i \in 1..n : s[i] \in S
    BY <1>1, <1>2, <1>3
  <1>5. /\ SubSeq(s, 1, n) \in Seq(S)
        /\ Len(SubSeq(s, 1, n)) = (IF 1 <= n THEN n - 1 + 1 ELSE 0)
        /\ \A i \in 1..(n - 1 + 1) : SubSeq(s, 1, n)[i] = s[1 + i - 1]
    <2> HIDE <1>1, <1>2, <1>3
    <2>1. 1 \in Int /\ n \in Int
      OBVIOUS
    <2> QED
      BY <1>4, <2>1, SubSeqProperties
  <1>6. \A i \in 1..n : 1 + i - 1 = i /\ i \in 1..(n - 1 + 1)
    BY <1>3
  <1>7. Len(SubSeq(s, 1, n)) = n /\ \A i \in 1..n : SubSeq(s, 1, n)[i] = s[i]
    BY <1>5, <1>6
  <1> QED
    BY <1>1, <1>2, <1>3, <1>5, <1>7 DEF Front, Last

\* One element in front of a sequence.
LEMMA InFrontOf ==
    ASSUME NEW S, NEW s \in Seq(S), NEW e \in S
    PROVE  /\ <<e>> \o s \in Seq(S) /\ Len(<<e>> \o s) = Len(s) + 1
           /\ (<<e>> \o s)[1] = e
           /\ \A i \in 1..Len(s) : (<<e>> \o s)[i + 1] = s[i]
  <1>1. <<e>> \in Seq(S) /\ Len(<<e>>) = 1 /\ <<e>>[1] = e /\ Len(s) \in Nat
    BY LenProperties
  <1>2. /\ <<e>> \o s \in Seq(S) /\ Len(<<e>> \o s) = Len(<<e>>) + Len(s)
        /\ \A i \in 1..(Len(<<e>>) + Len(s)) :
              (<<e>> \o s)[i] = IF i <= Len(<<e>>) THEN <<e>>[i] ELSE s[i - Len(<<e>>)]
    BY <1>1, ConcatProperties
  <1>3. (<<e>> \o s)[1] = e
    BY <1>1, <1>2
  <1>4. ASSUME NEW i \in 1..Len(s) PROVE (<<e>> \o s)[i + 1] = s[i]
    <2>1. i + 1 \in 1..(1 + Len(s)) /\ ~(i + 1 <= 1) /\ i + 1 - 1 = i
      BY <1>1
    <2> QED
      BY <1>1, <1>2, <2>1
  <1> QED
    BY <1>1, <1>2, <1>3, <1>4

\* A sequence without one of its elements.
LEMMA RemovedAt ==
    ASSUME NEW S, NEW s \in Seq(S), NEW p \in 1..Len(s)
    PROVE  /\ RemoveAt(s, p) \in Seq(S) /\ Len(RemoveAt(s, p)) = Len(s) - 1
           /\ \A i \in 1..(Len(s) - 1) :
                 RemoveAt(s, p)[i] = IF i < p THEN s[i] ELSE s[i + 1]
  <1> DEFINE n == Len(s)
             l == SubSeq(s, 1, p - 1)
             r == SubSeq(s, p + 1, n)
  <1>1. n \in Nat /\ p \in 1..n /\ \A i \in 1..n : s[i] \in S
    BY LenProperties, ElementOfSeq
  <1> HIDE DEF n
  <1>2. /\ l \in Seq(S) /\ Len(l) = (IF 1 <= p - 1 THEN p - 1 - 1 + 1 ELSE 0)
        /\ \A i \in 1..(p - 1 - 1 + 1) : l[i] = s[1 + i - 1]
    <2>1. 1 \in Int /\ p - 1 \in Int /\ \A i \in 1..(p - 1) : s[i] \in S
      BY <1>1
    <2>2. PICK q \in Int : q = p - 1
      BY <2>1
    <2>3. /\ SubSeq(s, 1, q) \in Seq(S) /\ Len(SubSeq(s, 1, q)) = (IF 1 <= q THEN q - 1 + 1 ELSE 0)
          /\ \A i \in 1..(q - 1 + 1) : SubSeq(s, 1, q)[i] = s[1 + i - 1]
      BY <2>1, <2>2, SubSeqProperties
    <2> QED
      BY <2>2, <2>3
  <1>3. /\ r \in Seq(S) /\ Len(r) = (IF p + 1 <= n THEN n - (p + 1) + 1 ELSE 0)
        /\ \A i \in 1..(n - (p + 1) + 1) : r[i] = s[p + 1 + i - 1]
    <2>1. PICK q \in Int : q = p + 1
      BY <1>1
    <2>2. n \in Int /\ \A i \in q..n : s[i] \in S
      BY <1>1, <2>1
    <2>3. /\ SubSeq(s, q, n) \in Seq(S) /\ Len(SubSeq(s, q, n)) = (IF q <= n THEN n - q + 1 ELSE 0)
          /\ \A i \in 1..(n - q + 1) : SubSeq(s, q, n)[i] = s[q + i - 1]
      BY <2>2, SubSeqProperties
    <2> QED
      BY <2>1, <2>3
  <1> HIDE DEF l, r
  <1>4. Len(l) = p - 1 /\ \A i \in 1..(p - 1) : l[i] = s[i]
    BY <1>1, <1>2
  <1>5. Len(r) = n - p /\ \A i \in 1..(n - p) : r[i] = s[p + i]
    BY <1>1, <1>3
  <1>6. /\ l \o r \in Seq(S) /\ Len(l \o r) = Len(l) + Len(r)
        /\ \A i \in 1..(Len(l) + Len(r)) :
              (l \o r)[i] = IF i <= Len(l) THEN l[i] ELSE r[i - Len(l)]
    BY <1>2, <1>3, ConcatProperties
  <1>7. ASSUME NEW i \in 1..(n - 1)
        PROVE  (l \o r)[i] = IF i < p THEN s[i] ELSE s[i + 1]
    <2>1. CASE i < p
      BY <1>1, <1>4, <1>5, <1>6, <2>1
    <2>2. CASE ~(i < p)
      <3>1. i - (p - 1) \in 1..(n - p) /\ p + (i - (p - 1)) = i + 1
        BY <1>1, <2>2
      <3>2. (l \o r)[i] = r[i - (p - 1)]
        BY <1>1, <1>4, <1>5, <1>6, <2>2
      <3> QED
        BY <1>5, <2>2, <3>1, <3>2
    <2> QED
      BY <2>1, <2>2
  <1>8. Len(l \o r) = n - 1
    BY <1>1, <1>4, <1>5, <1>6
  <1> QED
    BY <1>6, <1>7, <1>8 DEF RemoveAt, l, r, n

\* The goals of the list are the elements at its places.
LEMMA ToSetOfSeq ==
    ASSUME NEW S, NEW s \in Seq(S)
    PROVE  /\ Len(s) \in Nat /\ DOMAIN s = 1..Len(s)
           /\ \A i \in 1..Len(s) : s[i] \in ToSet(s) /\ s[i] \in S
           /\ \A x \in ToSet(s) : \E i \in 1..Len(s) : x = s[i]
  BY LenProperties, ElementOfSeq DEF ToSet

\* A sequence with one element more.
LEMMA AppendToSeq ==
    ASSUME NEW S, NEW s \in Seq(S), NEW e \in S
    PROVE  /\ Append(s, e) \in Seq(S) /\ Len(Append(s, e)) = Len(s) + 1
           /\ Append(s, e) # <<>> /\ Last(Append(s, e)) = e
           /\ \A i \in 1..Len(s) : Append(s, e)[i] = s[i]
           /\ Append(s, e)[Len(s) + 1] = e
  BY AppendProperties DEF Last

\* A sequence whose last element is another.
LEMMA ReplaceLast ==
    ASSUME NEW S, NEW s \in Seq(S), s # <<>>, NEW e \in S
    PROVE  /\ Append(Front(s), e) \in Seq(S) /\ Len(Append(Front(s), e)) = Len(s)
           /\ Append(Front(s), e) # <<>> /\ Last(Append(Front(s), e)) = e
           /\ \A i \in 1..(Len(s) - 1) : Append(Front(s), e)[i] = s[i]
           /\ Append(Front(s), e)[Len(s)] = e
  <1> DEFINE r == Front(s)
  <1>1. /\ r \in Seq(S) /\ Len(r) = Len(s) - 1 /\ Len(s) \in Nat \ {0}
        /\ \A i \in 1..(Len(s) - 1) : r[i] = s[i]
    BY FrontOfSeq
  <1> HIDE DEF r
  <1>2. /\ Append(r, e) \in Seq(S) /\ Len(Append(r, e)) = Len(r) + 1
        /\ Append(r, e) # <<>> /\ Last(Append(r, e)) = e
        /\ \A i \in 1..Len(r) : Append(r, e)[i] = r[i]
        /\ Append(r, e)[Len(r) + 1] = e
    BY <1>1, AppendToSeq
  <1>3. /\ Append(r, e) \in Seq(S) /\ Len(Append(r, e)) = Len(s)
        /\ Append(r, e) # <<>> /\ Last(Append(r, e)) = e
        /\ \A i \in 1..(Len(s) - 1) : Append(r, e)[i] = s[i]
        /\ Append(r, e)[Len(s)] = e
    BY <1>1, <1>2
  <1> QED
    BY <1>3 DEF r

-----------------------------------------------------------------------------
(* Sums *)

\* What holds of a set whenever it holds of the set without any one of its elements
\* holds of all subsets of a finite set.
LEMMA Elementwise ==
    ASSUME NEW D, IsFiniteSet(D), NEW T,
           \A s \in SUBSET D : (\A x \in s : s \ {x} \in T) => s \in T
    PROVE  SUBSET D \subseteq T
  <1> DEFINE U == {k \in Nat : \A s \in SUBSET D : Cardinality(s) = k => s \in T}
  <1>1. \A s \in SUBSET D : /\ Cardinality(s) \in Nat /\ (Cardinality(s) = 0 <=> s = {})
                            /\ \A x \in s : Cardinality(s \ {x}) = Cardinality(s) - 1
    <2> SUFFICES ASSUME NEW s \in SUBSET D
                 PROVE  /\ Cardinality(s) \in Nat /\ (Cardinality(s) = 0 <=> s = {})
                        /\ \A x \in s : Cardinality(s \ {x}) = Cardinality(s) - 1
      OBVIOUS
    <2>1. IsFiniteSet(s)
      BY FS_Subset
    <2> QED
      BY <2>1, FS_CardinalityType, FS_EmptySet, FS_RemoveElement
  <1>2. 0 \in U
    BY <1>1
  <1>3. ASSUME NEW k \in Nat, k \in U PROVE k + 1 \in U
    <2> SUFFICES ASSUME NEW s \in SUBSET D, Cardinality(s) = k + 1 PROVE s \in T
      OBVIOUS
    <2>1. \A x \in s : s \ {x} \in SUBSET D /\ Cardinality(s \ {x}) = k
      BY <1>1
    <2> QED
      BY <1>3, <2>1
  <1>4. Nat \subseteq U
    <2> HIDE DEF U
    <2> QED
      BY <1>2, <1>3, Upward
  <1> QED
    BY <1>1, <1>4

\* A member of a set that has one.
Pick(s) == CHOOSE y \in s : TRUE

\* The sets of no more than k elements of D.
Sized(D, k) == {s \in SUBSET D : Cardinality(s) <= k}

\* The sums of f over the sets of P, from those over the sets one smaller.
SumsFrom(f, g, P) == [s \in P |-> IF s = {} THEN 0 ELSE f[Pick(s)] + g[s \ {Pick(s)}]]

\* The sums of f are there for the library to choose.
LEMMA SumsPicked ==
    ASSUME NEW D, IsFiniteSet(D), NEW f \in [D -> Int]
    PROVE  \E t : t = SumsFrom(f, t, SUBSET D) /\ SumFunction(f) = t[D]
  <1> DEFINE T == {k \in Nat : \E g \in [Sized(D, k) -> Int] : g = SumsFrom(f, g, Sized(D, k))}
             m == Cardinality(D)
  <1>1. ASSUME NEW k \in Nat, NEW s \in Sized(D, k)
        PROVE  /\ s \in Sized(D, k + 1) /\ (k = 0 => s = {})
               /\ s # {} => /\ Pick(s) \in s /\ f[Pick(s)] \in Int
                            /\ k # 0 /\ s \ {Pick(s)} \in Sized(D, k - 1)
    <2>1. s \in SUBSET D /\ IsFiniteSet(s) /\ Cardinality(s) <= k
      BY FS_Subset DEF Sized
    <2>2. Cardinality(s) \in Nat /\ (s = {} <=> Cardinality(s) = 0)
      BY <2>1, FS_CardinalityType, FS_EmptySet
    <2>3. s \in Sized(D, k + 1) /\ (k = 0 => s = {})
      BY <2>1, <2>2 DEF Sized
    <2>4. ASSUME s # {}
          PROVE  /\ Pick(s) \in s /\ f[Pick(s)] \in Int
                 /\ k # 0 /\ s \ {Pick(s)} \in Sized(D, k - 1)
      <3>1. Pick(s) \in s /\ f[Pick(s)] \in Int
        BY <2>1, <2>4 DEF Pick
      <3>2. Cardinality(s \ {Pick(s)}) = Cardinality(s) - 1
        BY <2>1, <3>1, FS_RemoveElement
      <3> QED
        BY <2>1, <2>2, <2>4, <3>1, <3>2 DEF Sized
    <2> QED
      BY <2>3, <2>4
  <1>2. m \in Nat /\ Sized(D, m) = SUBSET D
    <2>1. \A s \in SUBSET D : Cardinality(s) <= m
      BY FS_Subset
    <2> QED
      BY <2>1, FS_CardinalityType DEF Sized
  <1> HIDE DEF m
  <1>3. 0 \in T
    <2> DEFINE g == [s \in Sized(D, 0) |-> 0]
    <2>1. \A s \in Sized(D, 0) : s = {}
      BY <1>1
    <2>2. g \in [Sized(D, 0) -> Int] /\ g = SumsFrom(f, g, Sized(D, 0))
      BY <2>1 DEF SumsFrom
    <2> QED
      BY <2>2
  <1>4. ASSUME NEW k \in Nat, k \in T PROVE k + 1 \in T
    <2>1. PICK g \in [Sized(D, k) -> Int] : g = SumsFrom(f, g, Sized(D, k))
      BY <1>4
    <2> DEFINE h == [s \in Sized(D, k + 1) |->
                        IF s \in Sized(D, k) THEN g[s] ELSE f[Pick(s)] + g[s \ {Pick(s)}]]
    <2>2. \A s \in Sized(D, k + 1) : s # {} =>
              Pick(s) \in s /\ f[Pick(s)] \in Int /\ s \ {Pick(s)} \in Sized(D, k)
      <3>1. k + 1 \in Nat /\ (k + 1) - 1 = k
        OBVIOUS
      <3> QED
        BY <1>1, <3>1
    <2>3. \A s \in Sized(D, k) : g[s] \in Int /\ s \in Sized(D, k + 1)
      <3>1. \A s \in Sized(D, k) : s \in Sized(D, k + 1)
        BY <1>1
      <3> QED
        BY <2>1, <3>1
    <2>4. \A s \in Sized(D, k + 1) : s = {} => s \in Sized(D, k)
      BY FS_EmptySet DEF Sized
    <2>5. \A s \in Sized(D, k) : g[s] = IF s = {} THEN 0 ELSE f[Pick(s)] + g[s \ {Pick(s)}]
      BY <2>1 DEF SumsFrom
    <2>6. h \in [Sized(D, k + 1) -> Int]
      BY <2>2, <2>3, <2>4
    <2>7. \A s \in Sized(D, k + 1) : h[s] = IF s \in Sized(D, k) THEN g[s] ELSE f[Pick(s)] + g[s \ {Pick(s)}]
      OBVIOUS
    <2> HIDE DEF h
    <2>8. ASSUME NEW s \in Sized(D, k + 1)
          PROVE  h[s] = IF s = {} THEN 0 ELSE f[Pick(s)] + h[s \ {Pick(s)}]
      <3>1. CASE s = {}
        BY <2>4, <2>5, <2>7, <3>1
      <3>2. CASE s # {}
        <4>1. h[s \ {Pick(s)}] = g[s \ {Pick(s)}]
          BY <2>2, <2>3, <2>7, <3>2
        <4>2. h[s] = f[Pick(s)] + g[s \ {Pick(s)}]
          BY <2>5, <2>7, <3>2
        <4> QED
          BY <3>2, <4>1, <4>2
      <3> QED
        BY <3>1, <3>2
    <2>9. h = SumsFrom(f, h, Sized(D, k + 1))
      BY <2>6, <2>8 DEF SumsFrom
    <2> QED
      BY <2>6, <2>9
  <1>5. m \in T
    <2> HIDE DEF T
    <2> QED
      BY <1>2, <1>3, <1>4, Upward
  <1>6. PICK g \in [SUBSET D -> Int] : g = SumsFrom(f, g, SUBSET D)
    BY <1>2, <1>5
  <1> DEFINE t == CHOOSE h : h = SumsFrom(f, h, SUBSET D)
  <1>7. t = SumsFrom(f, t, SUBSET D)
    BY <1>6
  <1>8. SumFunction(f) = t[D]
    BY DEF SumFunction, SumFunctionOnSet, FoldFunctionOnSet, MapThenFoldSet, SumsFrom, Pick
  <1> QED
    BY <1>7, <1>8

\* t holds the sums of f over all sets of its arguments.
AreSums(t, f, D) ==
    /\ t \in [SUBSET D -> Int] /\ t[{}] = 0 /\ SumFunction(f) = t[D]
    /\ \A s \in SUBSET D : \A x \in s : t[s] = f[x] + t[s \ {x}]

\* A sum does not depend on the order in which the library picks what it adds.
LEMMA SumsComputed ==
    ASSUME NEW D, IsFiniteSet(D), NEW f \in [D -> Int]
    PROVE  \E t : AreSums(t, f, D)
  <1>1. PICK t : t = SumsFrom(f, t, SUBSET D) /\ SumFunction(f) = t[D]
    BY SumsPicked
  <1>2. \A s \in SUBSET D : t[s] = IF s = {} THEN 0 ELSE f[Pick(s)] + t[s \ {Pick(s)}]
    BY <1>1 DEF SumsFrom
  <1>3. t[{}] = 0
    BY <1>2
  <1>4. \A s \in SUBSET D : s # {} => /\ Pick(s) \in s /\ f[Pick(s)] \in Int
                                      /\ t[s] = f[Pick(s)] + t[s \ {Pick(s)}]
    BY <1>2 DEF Pick
  <1> DEFINE Ints == {s \in SUBSET D : t[s] \in Int}
  <1>5. SUBSET D \subseteq Ints
    <2>1. ASSUME NEW s \in SUBSET D, \A x \in s : s \ {x} \in Ints
          PROVE  s \in Ints
      <3>1. CASE s = {}
        BY <1>3, <3>1
      <3>2. CASE s # {}
        <4>1. /\ Pick(s) \in s /\ f[Pick(s)] \in Int
              /\ t[s] = f[Pick(s)] + t[s \ {Pick(s)}]
          BY <1>4, <3>2
        <4>2. t[s \ {Pick(s)}] \in Int
          BY <2>1, <4>1
        <4> QED
          BY <4>1, <4>2
      <3> QED
        BY <3>1, <3>2
    <2> HIDE DEF Ints
    <2> QED
      BY <2>1, Elementwise
  <1> DEFINE Splits(s) == \A x \in s : t[s] = f[x] + t[s \ {x}]
             Split == {s \in SUBSET D : Splits(s)}
  <1>6. ASSUME NEW s \in SUBSET D, \A y \in s : Splits(s \ {y}), NEW x \in s
        PROVE  t[s] = f[x] + t[s \ {x}]
    <2> DEFINE p == Pick(s)
               r == (s \ {p}) \ {x}
    <2>1. p \in s /\ f[p] \in Int /\ f[x] \in Int /\ t[s] = f[p] + t[s \ {p}]
      BY <1>4
    <2> HIDE DEF p
    <2>2. CASE x = p
      BY <2>1, <2>2
    <2>3. CASE x # p
      <3>1. t[s \ {p}] = f[x] + t[r]
        BY <1>6, <2>1, <2>3
      <3>2. t[s \ {x}] = f[p] + t[(s \ {x}) \ {p}]
        BY <1>6, <2>1, <2>3
      <3>3. r = (s \ {x}) \ {p} /\ r \in SUBSET D
        OBVIOUS
      <3>4. t[r] \in Int /\ t[s \ {x}] = f[p] + t[r]
        BY <1>5, <3>2, <3>3
      <3> HIDE DEF r
      <3>5. \A a, b, c \in Int : a + (b + c) = b + (a + c)
        OBVIOUS
      <3>6. f[p] + (f[x] + t[r]) = f[x] + (f[p] + t[r])
        BY <2>1, <3>4, <3>5
      <3> QED
        BY <2>1, <3>1, <3>4, <3>6
    <2> QED
      BY <2>2, <2>3
  <1>7. SUBSET D \subseteq Split
    <2>1. \A s \in SUBSET D : (\A x \in s : s \ {x} \in Split) => s \in Split
      BY <1>6
    <2> HIDE DEF Split
    <2> QED
      BY <2>1, Elementwise
  <1>8. t \in [SUBSET D -> Int]
    <2>1. t = [s \in SUBSET D |-> IF s = {} THEN 0 ELSE f[Pick(s)] + t[s \ {Pick(s)}]]
      BY <1>1 DEF SumsFrom
    <2>2. \A s \in SUBSET D : (IF s = {} THEN 0 ELSE f[Pick(s)] + t[s \ {Pick(s)}]) \in Int
      BY <1>2, <1>5
    <2> QED
      BY <2>1, <2>2
  <1>9. AreSums(t, f, D)
    BY <1>1, <1>3, <1>7, <1>8 DEF AreSums
  <1> QED
    BY <1>9

\* A sum of natural numbers is one.
LEMMA SumIsNat ==
    ASSUME NEW D, IsFiniteSet(D), NEW f \in [D -> Nat]
    PROVE  SumFunction(f) \in Nat
  <1>1. f \in [D -> Int]
    OBVIOUS
  <1>2. PICK t : AreSums(t, f, D)
    BY <1>1, SumsComputed
  <1> DEFINE T == {s \in SUBSET D : t[s] \in Nat}
  <1>3. ASSUME NEW s \in SUBSET D, \A x \in s : s \ {x} \in T
        PROVE  s \in T
    <2>1. CASE s = {}
      BY <1>2, <2>1 DEF AreSums
    <2>2. CASE s # {}
      <3>1. PICK x \in s : TRUE
        BY <2>2
      <3>2. t[s] = f[x] + t[s \ {x}] /\ t[s \ {x}] \in Nat
        BY <1>2, <1>3 DEF AreSums
      <3> QED
        BY <3>2
    <2> QED
      BY <2>1, <2>2
  <1>4. SUBSET D \subseteq T
    <2> HIDE DEF T
    <2> QED
      BY <1>3, Elementwise
  <1> QED
    BY <1>2, <1>4 DEF AreSums

\* A sum of integers is one, and that of zeroes is zero.
LEMMA SumIsInt ==
    ASSUME NEW D, IsFiniteSet(D), NEW f \in [D -> Int]
    PROVE  /\ SumFunction(f) \in Int
           /\ (\A i \in D : f[i] = 0) => SumFunction(f) = 0
  <1>1. PICK t : AreSums(t, f, D)
    BY SumsComputed
  <1>2. ASSUME \A i \in D : f[i] = 0 PROVE t[D] = 0
    <2> DEFINE T == {s \in SUBSET D : t[s] = 0}
    <2>1. ASSUME NEW s \in SUBSET D, \A x \in s : s \ {x} \in T
          PROVE  s \in T
      <3>1. CASE s = {}
        BY <1>1, <3>1 DEF AreSums
      <3>2. CASE s # {}
        <4>1. PICK x \in s : TRUE
          BY <3>2
        <4>2. t[s] = f[x] + t[s \ {x}] /\ t[s \ {x}] = 0 /\ f[x] = 0
          BY <1>1, <1>2, <2>1 DEF AreSums
        <4> QED
          BY <4>2
      <3> QED
        BY <3>1, <3>2
    <2>2. SUBSET D \subseteq T
      <3> HIDE DEF T
      <3> QED
        BY <2>1, Elementwise
    <2> QED
      BY <2>2
  <1> QED
    BY <1>1, <1>2 DEF AreSums

\* A sum is no less than that of lesser parts.
LEMMA SumMonotone ==
    ASSUME NEW D, IsFiniteSet(D), NEW f \in [D -> Int], NEW g \in [D -> Int],
           \A i \in D : f[i] <= g[i]
    PROVE  SumFunction(f) <= SumFunction(g)
  <1>1. PICK t : AreSums(t, f, D)
    BY SumsComputed
  <1>2. PICK u : AreSums(u, g, D)
    BY SumsComputed
  <1> DEFINE T == {s \in SUBSET D : t[s] <= u[s]}
  <1>3. \A s \in SUBSET D : (\A x \in s : s \ {x} \in T) => s \in T
    <2> SUFFICES ASSUME NEW s \in SUBSET D, \A x \in s : s \ {x} \in T PROVE t[s] <= u[s]
      OBVIOUS
    <2>1. CASE s = {}
      BY <1>1, <1>2, <2>1 DEF AreSums
    <2>2. CASE s # {}
      <3>1. PICK x \in s : TRUE
        BY <2>2
      <3>2. t[s] = f[x] + t[s \ {x}] /\ u[s] = g[x] + u[s \ {x}]
        BY <1>1, <1>2 DEF AreSums
      <3>3. f[x] \in Int /\ g[x] \in Int /\ f[x] <= g[x]
        OBVIOUS
      <3>4. t[s \ {x}] \in Int /\ u[s \ {x}] \in Int
        BY <1>1, <1>2 DEF AreSums
      <3> QED
        BY <3>2, <3>3, <3>4
    <2> QED
      BY <2>1, <2>2
  <1>4. SUBSET D \subseteq T
    <2> HIDE DEF T
    <2> QED
      BY <1>3, Elementwise
  <1> QED
    BY <1>1, <1>2, <1>4 DEF AreSums

\* h is made of a times f and b times g.
IsCombined(h, D, a, f, b, g) == \A i \in D : h[i] = a * f[i] + b * g[i]

\* A sum of multiples is the multiple of the sums.
LEMMA SumCombined ==
    ASSUME NEW D, IsFiniteSet(D), NEW f \in [D -> Int], NEW g \in [D -> Int],
           NEW h \in [D -> Int], NEW a \in Int, NEW b \in Int, IsCombined(h, D, a, f, b, g)
    PROVE  SumFunction(h) = a * SumFunction(f) + b * SumFunction(g)
  <1>1. PICK t : AreSums(t, f, D)
    BY SumsComputed
  <1>2. PICK u : AreSums(u, g, D)
    BY SumsComputed
  <1>3. PICK v : AreSums(v, h, D)
    BY SumsComputed
  <1> DEFINE T == {s \in SUBSET D : v[s] = a * t[s] + b * u[s]}
  <1>4. \A s \in SUBSET D : (\A x \in s : s \ {x} \in T) => s \in T
    <2> SUFFICES ASSUME NEW s \in SUBSET D, \A x \in s : s \ {x} \in T
                 PROVE  v[s] = a * t[s] + b * u[s]
      OBVIOUS
    <2>1. CASE s = {}
      BY <1>1, <1>2, <1>3, <2>1 DEF AreSums
    <2>2. CASE s # {}
      <3>1. PICK x \in s : TRUE
        BY <2>2
      <3> DEFINE r == s \ {x}
      <3>2. t[s] = f[x] + t[r] /\ u[s] = g[x] + u[r] /\ v[s] = h[x] + v[r]
        BY <1>1, <1>2, <1>3 DEF AreSums
      <3>3. t[r] \in Int /\ u[r] \in Int /\ f[x] \in Int /\ g[x] \in Int
        BY <1>1, <1>2 DEF AreSums
      <3>4. h[x] = a * f[x] + b * g[x] /\ v[r] = a * t[r] + b * u[r]
        BY DEF IsCombined
      <3> HIDE DEF r
      <3>5. \A c, m, n \in Int : c * (m + n) = c * m + c * n /\ c * m \in Int
        OBVIOUS
      <3>6. a * t[s] = a * f[x] + a * t[r] /\ b * u[s] = b * g[x] + b * u[r]
        BY <3>2, <3>3, <3>5
      <3>7. a * f[x] \in Int /\ a * t[r] \in Int /\ b * g[x] \in Int /\ b * u[r] \in Int
        BY <3>3, <3>5
      <3> QED
        BY <3>2, <3>4, <3>6, <3>7
    <2> QED
      BY <2>1, <2>2
  <1>5. SUBSET D \subseteq T
    <2> HIDE DEF T
    <2> QED
      BY <1>4, Elementwise
  <1> QED
    BY <1>1, <1>2, <1>3, <1>5 DEF AreSums

\* A sum of some of the parts is no greater than that of all.
LEMMA SumOfPart ==
    ASSUME NEW D, IsFiniteSet(D), NEW f \in [D -> Nat], NEW E \in SUBSET D,
           NEW g \in [E -> Nat], \A i \in E : g[i] = f[i]
    PROVE  SumFunction(g) <= SumFunction(f)
  <1>1. PICK t : AreSums(t, f, D)
    BY SumsComputed
  <1>2. PICK u : AreSums(u, g, E)
    BY FS_Subset, SumsComputed
  <1> DEFINE T == {s \in SUBSET D : u[s \cap E] <= t[s]}
  <1>3. \A s \in SUBSET D : (\A x \in s : s \ {x} \in T) => s \in T
    <2> SUFFICES ASSUME NEW s \in SUBSET D, \A x \in s : s \ {x} \in T
                 PROVE  u[s \cap E] <= t[s]
      OBVIOUS
    <2>1. CASE s = {}
      <3>1. s \cap E = {}
        BY <2>1
      <3> QED
        BY <1>1, <1>2, <2>1, <3>1 DEF AreSums
    <2>2. CASE s # {}
      <3>1. PICK x \in s : TRUE
        BY <2>2
      <3>2. u[(s \ {x}) \cap E] <= t[s \ {x}] /\ t[s] = f[x] + t[s \ {x}] /\ f[x] \in Nat
        BY <1>1 DEF AreSums
      <3>3. u[(s \ {x}) \cap E] \in Int /\ t[s \ {x}] \in Int
        BY <1>1, <1>2 DEF AreSums
      <3>4. CASE x \in E
        <4>1. (s \cap E) \ {x} = (s \ {x}) \cap E /\ x \in s \cap E /\ s \cap E \in SUBSET E
          BY <3>4
        <4>2. u[s \cap E] = g[x] + u[(s \cap E) \ {x}]
          BY <1>2, <4>1 DEF AreSums
        <4>3. u[s \cap E] = f[x] + u[(s \ {x}) \cap E]
          BY <3>4, <4>1, <4>2
        <4> QED
          BY <3>2, <3>3, <4>3
      <3>5. CASE x \notin E
        <4>1. s \cap E = (s \ {x}) \cap E
          BY <3>5
        <4>2. u[s \cap E] = u[(s \ {x}) \cap E]
          BY <4>1
        <4> QED
          BY <3>2, <3>3, <4>2
      <3> QED
        BY <3>4, <3>5
    <2> QED
      BY <2>1, <2>2
  <1>4. SUBSET D \subseteq T
    <2> HIDE DEF T
    <2> QED
      BY <1>3, Elementwise
  <1>5. D \cap E = E
    OBVIOUS
  <1> QED
    BY <1>1, <1>2, <1>4, <1>5 DEF AreSums

\* The sums of two functions make that of their sum.
LEMMA SumAdded ==
    ASSUME NEW D, IsFiniteSet(D), NEW f \in [D -> Int], NEW g \in [D -> Int],
           NEW h \in [D -> Int], \A i \in D : h[i] = f[i] + g[i]
    PROVE  SumFunction(h) = SumFunction(f) + SumFunction(g)
  <1>1. IsCombined(h, D, 1, f, 1, g)
    BY DEF IsCombined
  <1>2. SumFunction(h) = 1 * SumFunction(f) + 1 * SumFunction(g)
    BY <1>1, SumCombined
  <1> QED
    BY <1>2, SumIsInt

\* A product of integers is one, and of naturals a natural.
LEMMA ProductTyped ==
    /\ \A a, b \in Int : a * b \in Int
    /\ \A a, b \in Nat : a * b \in Nat
    /\ \A a \in Int : a * a \in Nat
  OBVIOUS

\* Of two vectors of lengths no more than A and B the sum is no longer than A + B: with
\* P and Q the squares of their lengths and S their product, (b x - a y)^2 is never negative.
LEMMA ProductBound ==
    ASSUME NEW P \in Nat, NEW Q \in Nat, NEW S \in Int, NEW A \in Nat, NEW B \in Nat,
           P <= A * A, Q <= B * B,
           \A a, b \in Int : 0 <= (b * b) * P + ((-(2 * (a * b))) * S + (a * a) * Q)
    PROVE  S <= A * B
  <1>1. CASE A = 0
    <2>1. P = 0
      BY <1>1
    <2>2. 0 <= ((Q + 1) * (Q + 1)) * P + ((-(2 * (1 * (Q + 1)))) * S + (1 * 1) * Q)
      <3>1. Q + 1 \in Int /\ 1 \in Int
        OBVIOUS
      <3> QED
        BY <3>1
    <2>3. 0 <= (-(2 * (Q + 1))) * S + Q
      BY <2>1, <2>2
    <2>4. ASSUME S >= 1 PROVE FALSE
      <3>1. (2 * (Q + 1)) * S >= 2 * (Q + 1)
        BY <2>4
      <3> QED
        BY <2>3, <3>1
    <2> QED
      BY <1>1, <2>4
  <1>2. CASE B = 0
    <2>1. Q = 0
      BY <1>2
    <2>2. 0 <= (1 * 1) * P + ((-(2 * ((P + 1) * 1))) * S + ((P + 1) * (P + 1)) * Q)
      <3>1. P + 1 \in Int /\ 1 \in Int
        OBVIOUS
      <3> QED
        BY <3>1
    <2>3. 0 <= (-(2 * (P + 1))) * S + P
      BY <2>1, <2>2
    <2>4. ASSUME S >= 1 PROVE FALSE
      <3>1. (2 * (P + 1)) * S >= 2 * (P + 1)
        BY <2>4
      <3> QED
        BY <2>3, <3>1
    <2> QED
      BY <1>2, <2>4
  <1>3. CASE A # 0 /\ B # 0
    <2> DEFINE C == A * B
    <2>1. C \in Nat /\ C >= 1 /\ A * A \in Nat /\ B * B \in Nat
      BY <1>3
    <2>2. 0 <= (B * B) * P + ((-(2 * (A * B))) * S + (A * A) * Q)
      OBVIOUS
    <2>3. (B * B) * P <= (B * B) * (A * A) /\ (A * A) * Q <= (A * A) * (B * B)
      BY <2>1
    <2>4. (B * B) * (A * A) = C * C /\ (A * A) * (B * B) = C * C
      BY <2>1
    <2> HIDE DEF C
    <2>5. 0 <= C * C + ((-(2 * C)) * S + C * C)
      <3>1. (B * B) * P \in Int /\ (A * A) * Q \in Int /\ C * C \in Int
        BY <2>1
      <3>2. (-(2 * (A * B))) * S = (-(2 * C)) * S /\ (-(2 * C)) * S \in Int
        BY <2>1 DEF C
      <3> QED
        BY <2>2, <2>3, <2>4, <3>1, <3>2
    <2>6. ASSUME S >= C + 1 PROVE FALSE
      <3>1. C * S >= C * (C + 1)
        BY <2>1, <2>6
      <3>2. C * (C + 1) = C * C + C
        BY <2>1
      <3>3. (-(2 * C)) * S = -(2 * (C * S))
        BY <2>1
      <3>4. C * C \in Int /\ C * S \in Int
        BY <2>1
      <3> QED
        BY <2>1, <2>5, <3>1, <3>2, <3>3, <3>4
    <2> QED
      BY <2>1, <2>6 DEF C
  <1> QED
    BY <1>1, <1>2, <1>3

\* The length of the sum of two vectors is at most the sum of their lengths.
LEMMA SquaresOfSum ==
    ASSUME NEW D, IsFiniteSet(D), NEW x \in [D -> Int], NEW y \in [D -> Int],
           NEW A \in Nat, NEW B \in Nat,
           SumFunction([i \in D |-> x[i] * x[i]]) <= A * A,
           SumFunction([i \in D |-> y[i] * y[i]]) <= B * B
    PROVE  SumFunction([i \in D |-> (x[i] + y[i]) * (x[i] + y[i])]) <= (A + B) * (A + B)
  <1> DEFINE X == [i \in D |-> x[i] * x[i]]
             Y == [i \in D |-> y[i] * y[i]]
             Z == [i \in D |-> x[i] * y[i]]
             P == SumFunction(X)
             Q == SumFunction(Y)
             S == SumFunction(Z)
  <1>1. X \in [D -> Nat] /\ Y \in [D -> Nat] /\ Z \in [D -> Int]
    BY ProductTyped
  <1>2. X \in [D -> Int] /\ Y \in [D -> Int]
    BY <1>1
  <1>3. P \in Nat /\ Q \in Nat /\ S \in Int
    <2> HIDE DEF X, Y, Z
    <2> QED
      BY <1>1, SumIsNat, SumIsInt
  <1>4. P <= A * A /\ Q <= B * B
    OBVIOUS
  <1>5. \A i \in D : /\ x[i] \in Int /\ y[i] \in Int
                     /\ X[i] = x[i] * x[i] /\ Y[i] = y[i] * y[i] /\ Z[i] = x[i] * y[i]
    OBVIOUS
  <1> HIDE DEF X, Y, Z
  <1>6. ASSUME NEW a \in Int, NEW b \in Int
        PROVE  0 <= (b * b) * P + ((-(2 * (a * b))) * S + (a * a) * Q)
    <2> DEFINE c == -(2 * (a * b))
               aa == a * a
               bb == b * b
               m == [i \in D |-> c * Z[i] + aa * Y[i]]
               h == [i \in D |-> bb * X[i] + 1 * m[i]]
    <2>1. c \in Int /\ aa \in Int /\ bb \in Int
      BY ProductTyped
    <2>2. m \in [D -> Int] /\ \A i \in D : m[i] = c * Z[i] + aa * Y[i]
      <3>1. \A i \in D : c * Z[i] + aa * Y[i] \in Int
        BY <1>1, <1>2, <2>1, ProductTyped
      <3> QED
        BY <3>1
    <2>3. SumFunction(m) = c * S + aa * Q
      <3>1. IsCombined(m, D, c, Z, aa, Y)
        BY <2>2 DEF IsCombined
      <3>2. m \in [D -> Int] /\ Z \in [D -> Int] /\ Y \in [D -> Int]
        BY <1>1, <1>2, <2>2
      <3> HIDE DEF h, m, c, aa, bb
      <3> QED
        BY <2>1, <3>1, <3>2, SumCombined
    <2>4. \A i \in D : h[i] = (b * x[i] - a * y[i]) * (b * x[i] - a * y[i])
      <3> SUFFICES ASSUME NEW i \in D
                   PROVE  bb * X[i] + 1 * m[i]
                              = (b * x[i] - a * y[i]) * (b * x[i] - a * y[i])
        OBVIOUS
      <3>1. x[i] \in Int /\ y[i] \in Int
        BY <1>5
      <3>2. \A u, v \in Int : (b * b) * (u * u) + 1 * ((-(2 * (a * b))) * (u * v) + (a * a) * (v * v))
                                = (b * u - a * v) * (b * u - a * v)
        OBVIOUS
      <3> QED
        BY <1>5, <2>2, <3>1, <3>2
    <2>5. h \in [D -> Nat] /\ h \in [D -> Int]
      <3>1. \A i \in D : h[i] \in Nat
        <4> SUFFICES ASSUME NEW i \in D PROVE h[i] \in Nat
          OBVIOUS
        <4>1. b * x[i] \in Int /\ a * y[i] \in Int
          BY <1>5, ProductTyped
        <4>2. b * x[i] - a * y[i] \in Int
          BY <4>1
        <4> HIDE DEF h
        <4> QED
          BY <2>4, <4>2, ProductTyped
      <3> QED
        BY <3>1
    <2>6. IsCombined(h, D, bb, X, 1, m) /\ 1 \in Int
      BY DEF IsCombined
    <2> HIDE DEF h, m, c, aa, bb
    <2>7. SumFunction(h) = bb * P + 1 * SumFunction(m)
      BY <1>2, <2>1, <2>2, <2>5, <2>6, SumCombined
    <2>8. SumFunction(h) \in Nat
      BY <2>5, SumIsNat
    <2>9. c * S \in Int /\ aa * Q \in Int /\ bb * P \in Int
      BY <1>3, <2>1, ProductTyped
    <2>10. 1 * SumFunction(m) = c * S + aa * Q
      BY <2>3, <2>9
    <2> QED
      BY <2>7, <2>8, <2>10 DEF c, aa, bb
  <1>7. S <= A * B
    <2> HIDE DEF P, Q, S
    <2> QED
      BY <1>3, <1>4, <1>6, ProductBound
  <1> DEFINE U == [i \in D |-> 2 * Z[i] + 1 * Y[i]]
             V == [i \in D |-> (x[i] + y[i]) * (x[i] + y[i])]
  <1>8. U \in [D -> Int] /\ IsCombined(U, D, 2, Z, 1, Y)
    BY <1>1, <1>2 DEF IsCombined
  <1>9. V \in [D -> Int] /\ IsCombined(V, D, 1, X, 1, U)
    <2>1. \A i \in D : (x[i] + y[i]) * (x[i] + y[i]) = 1 * X[i] + 1 * U[i]
      <3> SUFFICES ASSUME NEW i \in D
                   PROVE  (x[i] + y[i]) * (x[i] + y[i]) = 1 * X[i] + 1 * U[i]
        OBVIOUS
      <3>1. \A u, v \in Int : (u + v) * (u + v) = 1 * (u * u) + 1 * (2 * (u * v) + 1 * (v * v))
        OBVIOUS
      <3> QED
        BY <1>5, <3>1
    <2>2. \A i \in D : V[i] \in Int
      BY <1>2, <1>8, <2>1
    <2> QED
      BY <2>1, <2>2 DEF IsCombined
  <1> HIDE DEF U, V
  <1>10. SumFunction(U) = 2 * S + 1 * Q
    BY <1>1, <1>2, <1>8, SumCombined, 1 \in Int, 2 \in Int
  <1>11. SumFunction(V) = 1 * P + 1 * SumFunction(U)
    BY <1>2, <1>8, <1>9, SumCombined, 1 \in Int
  <1>12. SumFunction(V) <= (A + B) * (A + B)
    <2> HIDE DEF P, Q, S
    <2>1. SumFunction(V) = P + (2 * S + Q)
      BY <1>3, <1>10, <1>11
    <2>2. (A + B) * (A + B) = A * A + (2 * (A * B) + B * B)
      OBVIOUS
    <2>3. A * A \in Int /\ B * B \in Int /\ A * B \in Int
      OBVIOUS
    <2> QED
      BY <1>3, <1>4, <1>7, <2>1, <2>2, <2>3
  <1> QED
    BY <1>12 DEF V
=============================================================================
