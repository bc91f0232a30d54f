------------------------ MODULE SmalltalkTraceProofs ------------------------
(***************************************************************************)
(* Proofs about StackStitch, for stacks and chains of any length, and      *)
(* about SmalltalkTrace: the walk over the VM's frames, for any memory and *)
(* any limit, and the trace that is made of it and of any native stack.    *)
(*                                                                         *)
(* Stitching needs induction: on the numbers it is the theorem that each   *)
(* set of them has a least one (WFMin), and with it goes what Only and     *)
(* PartOf compute.                                                         *)
(***************************************************************************)
EXTENDS SmalltalkTrace, WellFoundedInduction, SequenceTheorems, TLAPS

-----------------------------------------------------------------------------
(***************************************************************************)
(* Induction.                                                              *)
(***************************************************************************)

\* A set of numbers has a least one.
LEMMA LeastNumber ==
  ASSUME NEW S \in SUBSET Nat, S # {}
  PROVE  \E m \in S : \A k \in S : m <= k
<1> DEFINE less == OpToRel(<, Nat)
<1>1. PICK m \in S : \A k \in S : <<k, m>> \notin less
  BY NatLessThanWellFounded, WFMin
<1>2. ASSUME NEW k \in S
      PROVE  ~ (k < m)
  <2>1. <<k, m>> \in less <=> k < m
    BY DEF OpToRel
  <2> QED
    BY <1>1, <2>1
<1> HIDE DEF less
<1> QED
  BY <1>2

\* A set of numbers that has 0, and the next number of each in it up to n, has
\* all numbers up to n.
LEMMA NumberInduction ==
  ASSUME NEW n \in Nat, NEW T, 0 \in T, \A k \in 0 .. n - 1 : k \in T => k + 1 \in T
  PROVE  \A k \in 0 .. n : k \in T
<1> DEFINE Out == {k \in 0 .. n : k \notin T}
<1> SUFFICES ASSUME Out # {}
             PROVE  FALSE
  OBVIOUS
<1>0. Out \in SUBSET Nat
  OBVIOUS
<1>1. PICK m \in Out : \A k \in Out : m <= k
  <2> HIDE DEF Out
  <2> QED
    BY <1>0, LeastNumber
<1>2. m \in 1 .. n /\ m - 1 \in 0 .. n - 1 /\ m - 1 \notin Out
  BY <1>1
<1> QED
  BY <1>2

\* A set of numbers that are at most n has a greatest one.
LEMMA GreatestNumber ==
  ASSUME NEW n \in Nat, NEW S \in SUBSET (0 .. n), S # {}
  PROVE  \E m \in S : \A k \in S : m >= k
<1> DEFINE T == {n - k : k \in S}
<1>1. \A k \in S : n - k \in Nat
  OBVIOUS
<1>2. PICK d \in T : \A k \in T : d <= k
  <2>1. T \in SUBSET Nat
    BY <1>1
  <2>2. T # {}
    OBVIOUS
  <2> HIDE DEF T
  <2> QED
    BY <2>1, <2>2, LeastNumber
<1>3. PICK m \in S : d = n - m
  BY <1>2
<1>4. ASSUME NEW k \in S
      PROVE  m >= k
  BY <1>2, <1>3
<1> QED
  BY <1>4

\* A set of sequences that has the empty one, and each that is one longer than
\* one in it, has all sequences.
LEMMA SequenceInduction ==
  ASSUME NEW F, NEW T, <<>> \in T,
         \A s \in Seq(F), f \in F : s \in T => Append(s, f) \in T
  PROVE  \A s \in Seq(F) : s \in T
<1> DEFINE In == {k \in Nat : \A s \in Seq(F) : Len(s) = k => s \in T}
<1>1. 0 \in In
  BY EmptySeq
<1>2. ASSUME NEW k \in Nat, k \in In
      PROVE  k + 1 \in In
  <2> SUFFICES ASSUME NEW s \in Seq(F), Len(s) = k + 1
               PROVE  s \in T
    OBVIOUS
  <2> DEFINE r == SubSeq(s, 1, k)
  <2>1. s # <<>>
    OBVIOUS
  <2>2. r \in Seq(F) /\ Len(r) = k /\ s[k + 1] \in F
    OBVIOUS
  <2>3. s = Append(r, s[k + 1])
    OBVIOUS
  <2> HIDE DEF r
  <2> QED
    BY <1>2, <2>2, <2>3
<1>3. ASSUME NEW s \in Seq(F)
      PROVE  s \in T
  <2>1. Len(s) \in Nat
    OBVIOUS
  <2> HIDE DEF In
  <2>2. \A k \in 0 .. Len(s) - 1 : k \in In => k + 1 \in In
    BY <1>2, <2>1
  <2>3. \A k \in 0 .. Len(s) : k \in In
    BY <1>1, <2>1, <2>2, NumberInduction
  <2> QED
    BY <2>1, <2>3 DEF In
<1> QED
  BY <1>3

-----------------------------------------------------------------------------
(***************************************************************************)
(* What Only computes.                                                     *)
(***************************************************************************)

\* g is the function by which Only is defined, up to m.
IsOnly(g, s, S, m) ==
  g = [n \in 0 .. m |->
        IF n = 0 THEN <<>>
        ELSE IF s[n] \in S THEN Append(g[n - 1], s[n]) ELSE g[n - 1]]

LEMMA OnlyStep ==
  ASSUME NEW g, NEW s, NEW S, NEW m \in Nat, IsOnly(g, s, S, m), NEW k \in 1 .. m
  PROVE  /\ g[0] = <<>>
         /\ g[k] = IF s[k] \in S THEN Append(g[k - 1], s[k]) ELSE g[k - 1]
<1> DEFINE r == [n \in 0 .. m |->
                  IF n = 0 THEN <<>>
                  ELSE IF s[n] \in S THEN Append(g[n - 1], s[n]) ELSE g[n - 1]]
<1>1. g = r
  BY DEF IsOnly
<1>2. /\ r[0] = <<>>
      /\ r[k] = IF s[k] \in S THEN Append(g[k - 1], s[k]) ELSE g[k - 1]
  OBVIOUS
<1> HIDE DEF r
<1> QED
  BY <1>1, <1>2

\* There is such a function.
LEMMA OnlyExists ==
  ASSUME NEW s, NEW S, NEW m \in Nat
  PROVE  \E g : IsOnly(g, s, S, m)
<1> DEFINE Upto == {k \in 0 .. m : \E g : IsOnly(g, s, S, k)}
<1>1. 0 \in Upto
  <2> DEFINE g == [n \in 0 .. 0 |-> <<>>]
  <2>1. IsOnly(g, s, S, 0)
    BY DEF IsOnly
  <2> QED
    BY <2>1
<1>2. ASSUME NEW k \in 0 .. m - 1, k \in Upto
      PROVE  k + 1 \in Upto
  <2>1. PICK g : IsOnly(g, s, S, k)
    BY <1>2
  <2> DEFINE h == [n \in 0 .. k + 1 |->
                    IF n = k + 1 THEN IF s[k + 1] \in S THEN Append(g[k], s[k + 1]) ELSE g[k]
                    ELSE g[n]]
  <2>2. ASSUME NEW n \in 0 .. k + 1
        PROVE  h[n] = IF n = 0 THEN <<>>
                      ELSE IF s[n] \in S THEN Append(h[n - 1], s[n]) ELSE h[n - 1]
    <3>1. n \in 0 .. k + 1 /\ k + 1 # 0 /\ k \in Nat
      OBVIOUS
    <3>2. CASE n = k + 1
      BY <3>1, <3>2
    <3>3. CASE n = 0
      <4>1. h[n] = g[n]
        BY <3>1, <3>3
      <4> QED
        BY <2>1, <3>3, <4>1 DEF IsOnly
    <3>4. CASE n \in 1 .. k
      <4>1. h[n] = g[n] /\ h[n - 1] = g[n - 1]
        BY <3>4
      <4> HIDE DEF h
      <4> QED
        BY <2>1, <3>1, <3>4, <4>1, OnlyStep
    <3> QED
      BY <3>2, <3>3, <3>4
  <2>3. h = [n \in 0 .. k + 1 |-> h[n]]
    OBVIOUS
  <2> HIDE DEF h
  <2>4. IsOnly(h, s, S, k + 1)
    BY <2>2, <2>3 DEF IsOnly
  <2> QED
    BY <2>4
<1> HIDE DEF Upto
<1>3. \A k \in 0 .. m : k \in Upto
  BY <1>1, <1>2, NumberInduction
<1> QED
  BY <1>3 DEF Upto

\* Only is what that function has at the end.
LEMMA OnlyUnfolds ==
  ASSUME NEW s, NEW S, Len(s) \in Nat
  PROVE  \E g : IsOnly(g, s, S, Len(s)) /\ Only(s, S) = g[Len(s)]
<1> DEFINE g == CHOOSE f : IsOnly(f, s, S, Len(s))
<1>1. IsOnly(g, s, S, Len(s))
  BY OnlyExists
<1>2. Only(s, S) = g[Len(s)]
  BY DEF Only, IsOnly
<1> QED
  BY <1>1, <1>2

LEMMA OnlyOfEmpty ==
  ASSUME NEW S
  PROVE  Only(<<>>, S) = <<>>
<1>1. Len(<<>>) = 0
  OBVIOUS
<1>2. PICK g : IsOnly(g, <<>>, S, 0) /\ Only(<<>>, S) = g[0]
  BY <1>1, OnlyUnfolds
<1> QED
  BY <1>2 DEF IsOnly

LEMMA OnlyOfAppend ==
  ASSUME NEW F, NEW s \in Seq(F), NEW f \in F, NEW S
  PROVE  Only(Append(s, f), S) = IF f \in S THEN Append(Only(s, S), f) ELSE Only(s, S)
<1> DEFINE t == Append(s, f)
           m == Len(s)
<1>1. m \in Nat /\ Len(t) = m + 1 /\ t[m + 1] = f /\ \A i \in 1 .. m : t[i] = s[i]
  OBVIOUS
<1>2. PICK g : IsOnly(g, s, S, m) /\ Only(s, S) = g[m]
  BY <1>1, OnlyUnfolds
<1> HIDE DEF t, m
<1>3. PICK h : IsOnly(h, t, S, m + 1) /\ Only(t, S) = h[m + 1]
  BY <1>1, OnlyUnfolds
<1> DEFINE Same == {k \in 0 .. m : g[k] = h[k]}
<1>4. 0 \in Same
  BY <1>1, <1>2, <1>3 DEF IsOnly
<1>5. ASSUME NEW k \in 0 .. m - 1, k \in Same
      PROVE  k + 1 \in Same
  <2>1. k + 1 \in 1 .. m /\ s[k + 1] = t[k + 1] /\ (k + 1) - 1 = k
    BY <1>1
  <2>2. g[k + 1] = IF s[k + 1] \in S THEN Append(g[k], s[k + 1]) ELSE g[k]
    BY <1>1, <1>2, <2>1, OnlyStep
  <2>3. h[k + 1] = IF t[k + 1] \in S THEN Append(h[k], t[k + 1]) ELSE h[k]
    <3>1. k + 1 \in 1 .. m + 1 /\ m + 1 \in Nat
      BY <1>1
    <3> QED
      BY <1>3, <2>1, <3>1, OnlyStep
  <2> QED
    BY <1>5, <2>1, <2>2, <2>3
<1>6. m \in Same
  <2> HIDE DEF Same
  <2>1. \A k \in 0 .. m : k \in Same
    BY <1>1, <1>4, <1>5, NumberInduction
  <2> QED
    BY <1>1, <2>1
<1>7. h[m + 1] = IF t[m + 1] \in S THEN Append(h[m], t[m + 1]) ELSE h[m]
  <2>1. m + 1 \in 1 .. m + 1 /\ m + 1 \in Nat /\ (m + 1) - 1 = m
    BY <1>1
  <2> QED
    BY <1>3, <2>1, OnlyStep
<1> QED
  BY <1>1, <1>2, <1>3, <1>6, <1>7 DEF t

\* One more frame is one more member.
LEMMA SetOfAppend ==
  ASSUME NEW F, NEW s \in Seq(F), NEW f \in F
  PROVE  ToSet(Append(s, f)) = ToSet(s) \cup {f}
<1>1. /\ Append(s, f) \in Seq(F) /\ Len(Append(s, f)) = Len(s) + 1 /\ Len(s) \in Nat
      /\ Append(s, f)[Len(s) + 1] = f
      /\ \A i \in 1 .. Len(s) : Append(s, f)[i] = s[i]
  OBVIOUS
<1>2. DOMAIN Append(s, f) = 1 .. Len(s) + 1 /\ DOMAIN s = 1 .. Len(s)
  BY <1>1
<1> QED
  BY <1>1, <1>2 DEF ToSet

LEMMA SetOfConcat ==
  ASSUME NEW F, NEW s \in Seq(F), NEW t \in Seq(F)
  PROVE  ToSet(s \o t) = ToSet(s) \cup ToSet(t)
<1>1. /\ s \o t \in Seq(F) /\ Len(s \o t) = Len(s) + Len(t) /\ Len(s) \in Nat /\ Len(t) \in Nat
      /\ \A i \in 1 .. Len(s) : (s \o t)[i] = s[i]
      /\ \A i \in 1 .. Len(t) : (s \o t)[Len(s) + i] = t[i]
  OBVIOUS
<1>2. /\ DOMAIN (s \o t) = 1 .. Len(s) + Len(t)
      /\ DOMAIN s = 1 .. Len(s) /\ DOMAIN t = 1 .. Len(t)
  BY <1>1
<1>3. ASSUME NEW i \in 1 .. Len(s) + Len(t)
      PROVE  (s \o t)[i] \in ToSet(s) \cup ToSet(t)
  <2>1. CASE i \in 1 .. Len(s)
    BY <1>1, <1>2, <2>1 DEF ToSet
  <2>2. CASE i - Len(s) \in 1 .. Len(t)
    <3>1. i = Len(s) + (i - Len(s))
      BY <1>1
    <3> QED
      BY <1>1, <1>2, <2>2, <3>1 DEF ToSet
  <2> QED
    BY <1>1, <2>1, <2>2
<1>4. \A i \in 1 .. Len(s) : s[i] \in ToSet(s \o t)
  BY <1>1, <1>2 DEF ToSet
<1>5. \A i \in 1 .. Len(t) : t[i] \in ToSet(s \o t)
  <2> TAKE i \in 1 .. Len(t)
  <2>1. Len(s) + i \in 1 .. Len(s) + Len(t)
    BY <1>1
  <2> QED
    BY <1>1, <1>2, <2>1 DEF ToSet
<1> QED
  BY <1>2, <1>3, <1>4, <1>5 DEF ToSet

\* Only leaves out exactly the frames that are not in the set.
LEMMA OnlyMembers ==
  ASSUME NEW F, NEW s \in Seq(F), NEW S
  PROVE  Only(s, S) \in Seq(F) /\ ToSet(Only(s, S)) = ToSet(s) \cap S
<1> DEFINE T == {t \in Seq(F) : Only(t, S) \in Seq(F) /\ ToSet(Only(t, S)) = ToSet(t) \cap S}
<1>1. <<>> \in T
  <2>1. <<>> \in Seq(F) /\ ToSet(<<>>) = {}
    BY DEF ToSet
  <2> QED
    BY <2>1, OnlyOfEmpty
<1>2. ASSUME NEW t \in Seq(F), NEW f \in F, t \in T
      PROVE  Append(t, f) \in T
  <2>1. Append(t, f) \in Seq(F) /\ ToSet(Append(t, f)) = ToSet(t) \cup {f}
    BY SetOfAppend
  <2>2. Only(Append(t, f), S) = IF f \in S THEN Append(Only(t, S), f) ELSE Only(t, S)
    BY OnlyOfAppend
  <2>3. Only(t, S) \in Seq(F) /\ ToSet(Only(t, S)) = ToSet(t) \cap S
    BY <1>2
  <2>4. Append(Only(t, S), f) \in Seq(F) /\ ToSet(Append(Only(t, S), f)) = ToSet(Only(t, S)) \cup {f}
    BY <2>3, SetOfAppend
  <2> QED
    BY <2>1, <2>2, <2>3, <2>4
<1> HIDE DEF T
<1>3. s \in T
  BY <1>1, <1>2, SequenceInduction
<1> QED
  BY <1>3 DEF T

LEMMA OnlyOfConcat ==
  ASSUME NEW F, NEW s \in Seq(F), NEW t \in Seq(F), NEW S
  PROVE  Only(s \o t, S) = Only(s, S) \o Only(t, S)
<1> DEFINE T == {u \in Seq(F) : Only(s \o u, S) = Only(s, S) \o Only(u, S)}
<1>1. <<>> \in T
  <2>1. <<>> \in Seq(F) /\ s \o <<>> = s
    OBVIOUS
  <2>2. Only(s, S) \in Seq(F)
    BY OnlyMembers
  <2>3. Only(s, S) \o <<>> = Only(s, S)
    BY <2>2
  <2> QED
    BY <2>1, <2>3, OnlyOfEmpty
<1>2. ASSUME NEW u \in Seq(F), NEW f \in F, u \in T
      PROVE  Append(u, f) \in T
  <2>1. Append(u, f) \in Seq(F) /\ s \o u \in Seq(F) /\ s \o Append(u, f) = Append(s \o u, f)
    OBVIOUS
  <2>2. /\ Only(Append(u, f), S) = IF f \in S THEN Append(Only(u, S), f) ELSE Only(u, S)
        /\ Only(Append(s \o u, f), S) = IF f \in S THEN Append(Only(s \o u, S), f) ELSE Only(s \o u, S)
    BY <2>1, OnlyOfAppend
  <2>3. Only(s, S) \in Seq(F) /\ Only(u, S) \in Seq(F)
    BY OnlyMembers
  <2>4. Only(s, S) \o Append(Only(u, S), f) = Append(Only(s, S) \o Only(u, S), f)
    BY <2>3
  <2>5. Only(s \o u, S) = Only(s, S) \o Only(u, S)
    BY <1>2
  <2>6. Only(s \o Append(u, f), S) = Only(s, S) \o Only(Append(u, f), S)
    BY <2>1, <2>2, <2>4, <2>5
  <2> QED
    BY <2>1, <2>6
<1> HIDE DEF T
<1>3. t \in T
  BY <1>1, <1>2, SequenceInduction
<1> QED
  BY <1>3 DEF T

LEMMA OnlyOfOnly ==
  ASSUME NEW F, NEW s \in Seq(F), NEW A, NEW B
  PROVE  Only(Only(s, A), B) = Only(s, A \cap B)
<1> DEFINE T == {t \in Seq(F) : Only(Only(t, A), B) = Only(t, A \cap B)}
<1>1. <<>> \in T
  BY OnlyOfEmpty
<1>2. ASSUME NEW t \in Seq(F), NEW f \in F, t \in T
      PROVE  Append(t, f) \in T
  <2>1. Append(t, f) \in Seq(F) /\ Only(t, A) \in Seq(F)
    BY OnlyMembers
  <2>2. /\ Only(Append(t, f), A) = IF f \in A THEN Append(Only(t, A), f) ELSE Only(t, A)
        /\ Only(Append(t, f), A \cap B) = IF f \in A \cap B THEN Append(Only(t, A \cap B), f)
                                         ELSE Only(t, A \cap B)
    BY OnlyOfAppend
  <2>3. Only(Append(Only(t, A), f), B) = IF f \in B THEN Append(Only(Only(t, A), B), f)
                                         ELSE Only(Only(t, A), B)
    BY <2>1, OnlyOfAppend
  <2>4. Only(Only(t, A), B) = Only(t, A \cap B)
    BY <1>2
  <2>5. Only(Only(Append(t, f), A), B) = Only(Append(t, f), A \cap B)
    <3>1. CASE f \in A /\ f \in B
      <4>1. f \in A \cap B
        BY <3>1
      <4>2. Only(Append(t, f), A \cap B) = Append(Only(t, A \cap B), f)
        BY <2>2, <4>1
      <4> QED
        BY <2>2, <2>3, <2>4, <3>1, <4>2
    <3>2. CASE ~ (f \in A /\ f \in B)
      <4>1. f \notin A \cap B
        BY <3>2
      <4>2. Only(Append(t, f), A \cap B) = Only(t, A \cap B)
        BY <2>2, <4>1
      <4> QED
        BY <2>2, <2>3, <2>4, <3>2, <4>2
    <3> QED
      BY <3>1, <3>2
  <2> QED
    BY <2>1, <2>5
<1> HIDE DEF T
<1>3. s \in T
  BY <1>1, <1>2, SequenceInduction
<1> QED
  BY <1>3 DEF T

\* Frames that do not occur do not matter to it.
LEMMA OnlyOfSame ==
  ASSUME NEW F, NEW s \in Seq(F), NEW A, NEW B, ToSet(s) \cap A = ToSet(s) \cap B
  PROVE  Only(s, A) = Only(s, B)
<1> DEFINE T == {t \in Seq(F) : ToSet(t) \cap A = ToSet(t) \cap B => Only(t, A) = Only(t, B)}
<1>1. <<>> \in T
  BY OnlyOfEmpty
<1>2. ASSUME NEW t \in Seq(F), NEW f \in F, t \in T
      PROVE  Append(t, f) \in T
  <2>1. Append(t, f) \in Seq(F)
    OBVIOUS
  <2>2. SUFFICES ASSUME ToSet(Append(t, f)) \cap A = ToSet(Append(t, f)) \cap B
                 PROVE  Only(Append(t, f), A) = Only(Append(t, f), B)
    BY <2>1
  <2>3. ToSet(Append(t, f)) = ToSet(t) \cup {f}
    BY SetOfAppend
  <2>4. ToSet(t) \cap A = ToSet(t) \cap B /\ (f \in A <=> f \in B)
    BY <2>2, <2>3
  <2>5. Only(t, A) = Only(t, B)
    BY <1>2, <2>4
  <2>6. /\ Only(Append(t, f), A) = IF f \in A THEN Append(Only(t, A), f) ELSE Only(t, A)
        /\ Only(Append(t, f), B) = IF f \in B THEN Append(Only(t, B), f) ELSE Only(t, B)
    BY OnlyOfAppend
  <2> QED
    BY <2>4, <2>5, <2>6
<1> HIDE DEF T
<1>3. s \in T
  BY <1>1, <1>2, SequenceInduction
<1> QED
  BY <1>3 DEF T

LEMMA OnlyOfNone ==
  ASSUME NEW F, NEW s \in Seq(F), NEW S, ToSet(s) \cap S = {}
  PROVE  Only(s, S) = <<>>
<1>1. Only(s, S) \in Seq(F) /\ ToSet(Only(s, S)) = {}
  BY OnlyMembers
<1>2. DOMAIN Only(s, S) = 1 .. Len(Only(s, S)) /\ Len(Only(s, S)) \in Nat
  BY <1>1
<1>3. ~ (1 \in DOMAIN Only(s, S))
  BY <1>1 DEF ToSet
<1> QED
  BY <1>1, <1>2, <1>3, EmptySeq

LEMMA OnlyOfAll ==
  ASSUME NEW F, NEW s \in Seq(F), NEW S, ToSet(s) \subseteq S
  PROVE  Only(s, S) = s
<1> DEFINE T == {t \in Seq(F) : Only(t, F) = t}
<1>1. <<>> \in T
  BY OnlyOfEmpty
<1>2. ASSUME NEW t \in Seq(F), NEW f \in F, t \in T
      PROVE  Append(t, f) \in T
  <2>1. Only(Append(t, f), F) = Append(Only(t, F), f)
    BY OnlyOfAppend
  <2> QED
    BY <1>2, <2>1
<1>3. s \in T
  <2> HIDE DEF T
  <2> QED
    BY <1>1, <1>2, SequenceInduction
<1>4. ToSet(s) \subseteq F
  BY DEF ToSet
<1>5. Only(s, S) = Only(s, F)
  BY <1>4, OnlyOfSame
<1> QED
  BY <1>3, <1>5

-----------------------------------------------------------------------------
(***************************************************************************)
(* Cutting: the deepest boundary, the last method, and what a prefix has.  *)
(***************************************************************************)

\* The greatest place at which a sequence has a member of the set.
LEMMA LastPlace ==
  ASSUME NEW F, NEW s \in Seq(F), NEW S
  PROVE  LET I == {i \in 1 .. Len(s) : s[i] \in S}
             b == IF I # {} THEN Max(I) ELSE 0
         IN  /\ b \in 0 .. Len(s)
             /\ b # 0 => s[b] \in S
             /\ \A i \in b + 1 .. Len(s) : s[i] \notin S
<1> DEFINE I == {i \in 1 .. Len(s) : s[i] \in S}
<1>1. Len(s) \in Nat
  OBVIOUS
<1>2. CASE I = {}
  BY <1>1, <1>2
<1>3. CASE I # {}
  <2>1. I \in SUBSET (0 .. Len(s))
    OBVIOUS
  <2>2. \E m \in I : \A k \in I : m >= k
    <3> HIDE DEF I
    <3> QED
      BY <1>1, <1>3, <2>1, GreatestNumber
  <2>3. Max(I) \in I /\ \A k \in I : Max(I) >= k
    <3> HIDE DEF I
    <3> QED
      BY <2>2 DEF Max
  <2>4. PICK b : b = Max(I)
    OBVIOUS
  <2>5. b \in 1 .. Len(s) /\ s[b] \in S
    BY <2>3, <2>4
  <2>6. ASSUME NEW i \in b + 1 .. Len(s)
        PROVE  s[i] \notin S
    <3>1. i \in 1 .. Len(s) /\ ~ (b >= i)
      BY <1>1, <2>5
    <3> QED
      BY <2>3, <2>4, <3>1
  <2> QED
    BY <1>1, <1>3, <2>4, <2>5, <2>6
<1> QED
  BY <1>2, <1>3

LEMMA LastBoundary ==
  ASSUME NEW F, NEW s \in Seq(F)
  PROVE  /\ SelectLastInSeq(s, IsBoundary) \in 0 .. Len(s)
         /\ SelectLastInSeq(s, IsBoundary) # 0 => IsBoundary(s[SelectLastInSeq(s, IsBoundary)])
         /\ \A i \in SelectLastInSeq(s, IsBoundary) + 1 .. Len(s) : ~ IsBoundary(s[i])
  BY LastPlace DEF SelectLastInSeq, IsBoundary

LEMMA LastMethod ==
  ASSUME NEW F, NEW s \in Seq(F)
  PROVE  /\ SelectLastInSeq(s, IsMethod) \in 0 .. Len(s)
         /\ SelectLastInSeq(s, IsMethod) # 0 => s[SelectLastInSeq(s, IsMethod)] \in Methods
         /\ \A i \in SelectLastInSeq(s, IsMethod) + 1 .. Len(s) : s[i] \notin Methods
  BY LastPlace DEF SelectLastInSeq, IsMethod

\* A sequence is its first k members and the others.
LEMMA Split ==
  ASSUME NEW F, NEW s \in Seq(F), NEW k \in 0 .. Len(s)
  PROVE  /\ SubSeq(s, 1, k) \in Seq(F) /\ SubSeq(s, k + 1, Len(s)) \in Seq(F)
         /\ s = SubSeq(s, 1, k) \o SubSeq(s, k + 1, Len(s))
         /\ Len(SubSeq(s, 1, k)) = k /\ \A i \in 1 .. k : SubSeq(s, 1, k)[i] = s[i]
         /\ ToSet(SubSeq(s, k + 1, Len(s))) = {s[i] : i \in k + 1 .. Len(s)}
<1> DEFINE p == SubSeq(s, 1, k)
           q == SubSeq(s, k + 1, Len(s))
<1>1. /\ p \in Seq(F) /\ Len(p) = k /\ k \in Nat /\ Len(s) \in Nat
      /\ \A i \in 1 .. k : p[i] = s[i]
  OBVIOUS
<1>2. /\ q \in Seq(F) /\ Len(q) = Len(s) - k
      /\ \A i \in 1 .. Len(s) - k : q[i] = s[k + i]
  OBVIOUS
<1>3. p \o q = s
  <2> HIDE DEF p, q
  <2>1. p \o q \in Seq(F) /\ Len(p \o q) = Len(s)
    BY <1>1, <1>2
  <2>2. ASSUME NEW i \in 1 .. Len(s)
        PROVE  (p \o q)[i] = s[i]
    <3>1. CASE i \in 1 .. k
      BY <1>1, <1>2, <3>1
    <3>2. CASE i - k \in 1 .. Len(s) - k
      <4>1. (p \o q)[i] = q[i - k] /\ k + (i - k) = i
        BY <1>1, <1>2, <3>2
      <4> QED
        BY <1>2, <3>2, <4>1
    <3>3. i \in 1 .. k \/ i - k \in 1 .. Len(s) - k
      BY <1>1
    <3> QED
      BY <3>1, <3>2, <3>3
  <2> QED
    BY <2>1, <2>2, SeqEqual
<1>4. ToSet(q) = {s[i] : i \in k + 1 .. Len(s)}
  <2> HIDE DEF q
  <2>1. DOMAIN q = 1 .. Len(s) - k
    BY <1>1, <1>2
  <2>2. ASSUME NEW i \in k + 1 .. Len(s)
        PROVE  s[i] \in ToSet(q)
    <3>1. i - k \in 1 .. Len(s) - k /\ k + (i - k) = i
      BY <1>1
    <3> QED
      BY <1>2, <2>1, <3>1 DEF ToSet
  <2>3. ASSUME NEW i \in 1 .. Len(s) - k
        PROVE  q[i] \in {s[j] : j \in k + 1 .. Len(s)}
    <3>1. k + i \in k + 1 .. Len(s)
      BY <1>1
    <3> QED
      BY <1>2, <3>1
  <2> QED
    BY <2>1, <2>2, <2>3 DEF ToSet
<1> QED
  BY <1>1, <1>2, <1>3, <1>4

\* A prefix calls no method more often.
LEMMA PrefixTimes ==
  ASSUME NEW F, NEW s \in Seq(F), NEW k \in 0 .. Len(s), NEW f
  PROVE  Times(f, SubSeq(s, 1, k)) <= Times(f, s)
<1> DEFINE p == SubSeq(s, 1, k)
           q == SubSeq(s, k + 1, Len(s))
<1>1. p \in Seq(F) /\ q \in Seq(F) /\ s = p \o q
  BY Split
<1> HIDE DEF p, q
<1>2. Only(s, {f}) = Only(p, {f}) \o Only(q, {f})
  BY <1>1, OnlyOfConcat
<1>3. Only(p, {f}) \in Seq(F) /\ Only(q, {f}) \in Seq(F)
  BY <1>1, OnlyMembers
<1>4. Len(Only(s, {f})) = Len(Only(p, {f})) + Len(Only(q, {f}))
  BY <1>2, <1>3
<1>5. Len(Only(p, {f})) \in Nat /\ Len(Only(q, {f})) \in Nat
  BY <1>3
<1>6. Times(f, p) <= Times(f, s)
  BY <1>4, <1>5 DEF Times
<1> QED
  BY <1>6 DEF p

-----------------------------------------------------------------------------
(***************************************************************************)
(* The result of the two passes.                                           *)
(***************************************************************************)

\* What Spliced makes of a stack and a chain.
LEMMA SplicedParts ==
  ASSUME NEW F, NEW s \in Seq(F), NEW c \in Seq(F), Root \in F
  PROVE  /\ Boundary(s) \in 0 .. Len(s)
         /\ Spliced(s, c) \in Seq(F) /\ Deduped(s, c) \in Seq(F) /\ SubSeq(s, 1, Boundary(s)) \in Seq(F)
         /\ <<Root>> \in Seq(F)
         /\ Spliced(s, c) = IF Boundary(s) = 0 \/ c = <<>> THEN s
                            ELSE (SubSeq(s, 1, Boundary(s)) \o Deduped(s, c)) \o <<Root>>
<1>1. Boundary(s) \in 0 .. Len(s)
  <2>1. 0 \in 0 .. Len(s)
    OBVIOUS
  <2> QED
    BY <2>1, LastBoundary DEF Boundary
<1>2. Deduped(s, c) \in Seq(F)
  BY OnlyMembers DEF Deduped
<1>3. SubSeq(s, 1, Boundary(s)) \in Seq(F)
  BY <1>1, Split
<1>4. <<Root>> \in Seq(F)
  OBVIOUS
<1>5. (SubSeq(s, 1, Boundary(s)) \o Deduped(s, c)) \o <<Root>> \in Seq(F)
  BY <1>2, <1>3, <1>4
<1>6. Spliced(s, c) = IF Boundary(s) = 0 \/ c = <<>> THEN s
                     ELSE (SubSeq(s, 1, Boundary(s)) \o Deduped(s, c)) \o <<Root>>
  <2> DEFINE b == Boundary(s)
  <2>1. SubSeq(s, 1, b) \o Deduped(s, c) \o <<Root>> = (SubSeq(s, 1, b) \o Deduped(s, c)) \o <<Root>>
    BY <1>2, <1>3, <1>4
  <2> QED
    BY <2>1 DEF Spliced
<1> QED
  BY <1>1, <1>2, <1>3, <1>4, <1>5, <1>6

\* A trace is either a stack as it was, or the parts of a stack and a chain;
\* Only goes through the parts.
IsConcat(u, s, t) == u = s \o t

LEMMA OnlyConcats ==
  ASSUME NEW F, NEW s, s \in Seq(F), NEW t, t \in Seq(F), NEW S, NEW u, IsConcat(u, s, t)
  PROVE  u \in Seq(F) /\ IsConcat(Only(u, S), Only(s, S), Only(t, S))
<1>1. u = s \o t
  BY DEF IsConcat
<1>2. u \in Seq(F)
  BY <1>1
<1>3. Only(u, S) = Only(s, S) \o Only(t, S)
  BY <1>1, OnlyOfConcat
<1> QED
  BY <1>2, <1>3 DEF IsConcat

LEMMA OnlyPassesOver ==
  ASSUME NEW F, NEW s, s \in Seq(F), NEW r, r \in Seq(F), NEW S, ToSet(r) \cap S = {},
         NEW u, IsConcat(u, s, r)
  PROVE  Only(u, S) = Only(s, S)
<1>1. IsConcat(Only(u, S), Only(s, S), Only(r, S))
  BY OnlyConcats
<1>2. Only(r, S) = <<>>
  BY OnlyOfNone
<1>3. Only(s, S) \in Seq(F)
  BY OnlyMembers
<1> QED
  BY <1>1, <1>2, <1>3 DEF IsConcat

LEMMA OnlyOfSpliced ==
  ASSUME NEW F, NEW s \in Seq(F), NEW c \in Seq(F), Root \in F, NEW S, Root \notin S,
         Boundary(s) # 0, c # <<>>
  PROVE  Only(Spliced(s, c), S) = Only(SubSeq(s, 1, Boundary(s)), S) \o Only(Deduped(s, c), S)
<1>1. PICK p, d, r : p = SubSeq(s, 1, Boundary(s)) /\ d = Deduped(s, c) /\ r = <<Root>>
  OBVIOUS
<1>2. PICK q, t : q = p \o d /\ t = q \o r
  OBVIOUS
<1>3. /\ SubSeq(s, 1, Boundary(s)) \in Seq(F) /\ Deduped(s, c) \in Seq(F) /\ <<Root>> \in Seq(F)
      /\ Spliced(s, c) = (SubSeq(s, 1, Boundary(s)) \o Deduped(s, c)) \o <<Root>>
  BY SplicedParts
<1>4. p \in Seq(F) /\ d \in Seq(F) /\ r \in Seq(F) /\ Spliced(s, c) = t
  <2>1. Spliced(s, c) = (p \o d) \o r
    BY <1>1, <1>3
  <2> QED
    BY <1>1, <1>2, <1>3, <2>1
<1>5. ToSet(r) \cap S = {}
  BY <1>1 DEF ToSet
<1>6. IsConcat(q, p, d) /\ IsConcat(t, q, r)
  BY <1>2 DEF IsConcat
<1>7. q \in Seq(F) /\ IsConcat(Only(q, S), Only(p, S), Only(d, S))
  BY <1>4, <1>6, OnlyConcats
<1>8. Only(t, S) = Only(q, S)
  <2>1. q \in Seq(F)
    BY <1>7
  <2>2. r \in Seq(F)
    BY <1>4
  <2>3. IsConcat(t, q, r)
    BY <1>6
  <2> QED
    BY <1>5, <2>1, <2>2, <2>3, OnlyPassesOver
<1>9. Only(t, S) = Only(p, S) \o Only(d, S)
  BY <1>7, <1>8 DEF IsConcat
<1> QED
  BY <1>1, <1>4, <1>9

\* Trimming leaves a prefix, with all the methods and one at its end.
LEMMA TrimmedKeeps ==
  ASSUME NEW F, NEW s \in Seq(F)
  PROVE  /\ \E k \in 0 .. Len(s) : Trimmed(s) = SubSeq(s, 1, k)
         /\ Only(Trimmed(s), Methods) = Only(s, Methods)
         /\ IF Only(s, Methods) = <<>> THEN Trimmed(s) = s ELSE Last(Trimmed(s)) \in Methods
<1> DEFINE last == SelectLastInSeq(s, IsMethod)
<1>1. /\ last \in 0 .. Len(s)
      /\ last # 0 => s[last] \in Methods
      /\ \A i \in last + 1 .. Len(s) : s[i] \notin Methods
  BY LastMethod
<1>2. Trimmed(s) = IF last = 0 THEN s ELSE SubSeq(s, 1, last)
  BY DEF Trimmed
<1> HIDE DEF last
<1>0. Len(s) \in Nat /\ last \in Nat
  BY <1>1
<1>3. CASE last = 0
  <2>1. \A i \in 1 .. Len(s) : s[i] \notin Methods
    BY <1>1, <1>3
  <2>2. ToSet(s) \cap Methods = {}
    BY <2>1 DEF ToSet
  <2>3. Only(s, Methods) = <<>>
    BY <2>2, OnlyOfNone
  <2>4. Len(s) \in 0 .. Len(s) /\ s = SubSeq(s, 1, Len(s))
    OBVIOUS
  <2>5. Trimmed(s) = s
    BY <1>2, <1>3
  <2> QED
    BY <2>3, <2>4, <2>5
<1>4. CASE last # 0
  <2> DEFINE p == SubSeq(s, 1, last)
             q == SubSeq(s, last + 1, Len(s))
  <2>1. /\ p \in Seq(F) /\ q \in Seq(F) /\ s = p \o q
        /\ Len(p) = last /\ \A i \in 1 .. last : p[i] = s[i]
        /\ ToSet(q) = {s[i] : i \in last + 1 .. Len(s)}
    <3>1. last \in 0 .. Len(s)
      BY <1>1
    <3> QED
      BY <3>1, Split
  <2>2. Trimmed(s) = p
    BY <1>2, <1>4
  <2> HIDE DEF p, q
  <2>3. Only(q, Methods) = <<>>
    <3>1. ToSet(q) \cap Methods = {}
      BY <1>1, <2>1
    <3> QED
      BY <2>1, <3>1, OnlyOfNone
  <2>4. Only(p, Methods) \in Seq(F)
    BY <2>1, OnlyMembers
  <2>5. Only(s, Methods) = Only(p, Methods) \o Only(q, Methods)
    BY <2>1, OnlyOfConcat
  <2>6. Only(p, Methods) \o <<>> = Only(p, Methods)
    BY <2>4
  <2>7. last \in 1 .. last /\ last \in 1 .. Len(s)
    BY <1>0, <1>1, <1>4
  <2>8. Last(p) = s[last]
    BY <2>1, <2>7 DEF Last
  <2>9. Only(s, Methods) # <<>>
    <3>1. s[last] \in ToSet(s)
      BY <2>7 DEF ToSet
    <3>2. ToSet(Only(s, Methods)) = ToSet(s) \cap Methods
      BY OnlyMembers
    <3>4. s[last] \in ToSet(s) \cap Methods
      BY <1>1, <1>4, <3>1
    <3>3. ToSet(<<>>) = {}
      BY DEF ToSet
    <3> QED
      BY <3>2, <3>3, <3>4
  <2>10. Only(Trimmed(s), Methods) = Only(s, Methods)
    BY <2>2, <2>3, <2>5, <2>6
  <2>11. Last(Trimmed(s)) \in Methods
    BY <1>1, <1>4, <2>2, <2>8
  <2>12. Trimmed(s) = SubSeq(s, 1, last)
    BY <2>2 DEF p
  <2> QED
    BY <1>1, <2>9, <2>10, <2>11, <2>12
<1> QED
  BY <1>3, <1>4

-----------------------------------------------------------------------------
(***************************************************************************)
(* What PartOf computes: it finds the frames of s in t, in their order, if *)
(* they can be found at all.                                               *)
(***************************************************************************)

\* Places in t of all frames of s, in their order.
Embeds(e, s, t) ==
  /\ e \in [1 .. Len(s) -> 1 .. Len(t)]
  /\ \A i \in 1 .. Len(s) : t[e[i]] = s[i]
  /\ \A i, j \in 1 .. Len(s) : i < j => e[i] < e[j]

Embedded(s, t) == \E e : Embeds(e, s, t)

\* g is the function by which PartOf is defined, up to m.
IsPlace(g, s, t, m) == g = [i \in 0 .. m |-> IF i = 0 THEN 0 ELSE NextIn(t, g[i - 1], s[i])]

LEMMA PlaceStep ==
  ASSUME NEW g, NEW s, NEW t, NEW m \in Nat, IsPlace(g, s, t, m), NEW k \in 1 .. m
  PROVE  g[0] = 0 /\ g[k] = NextIn(t, g[k - 1], s[k])
<1> DEFINE r == [i \in 0 .. m |-> IF i = 0 THEN 0 ELSE NextIn(t, g[i - 1], s[i])]
<1>1. g = r
  BY DEF IsPlace
<1>2. r[0] = 0 /\ r[k] = NextIn(t, g[k - 1], s[k])
  OBVIOUS
<1> HIDE DEF r
<1> QED
  BY <1>1, <1>2

LEMMA PlaceExists ==
  ASSUME NEW s, NEW t, NEW m \in Nat
  PROVE  \E g : IsPlace(g, s, t, m)
<1> DEFINE Upto == {k \in 0 .. m : \E g : IsPlace(g, s, t, k)}
<1>1. 0 \in Upto
  <2> DEFINE g == [n \in 0 .. 0 |-> 0]
  <2>1. IsPlace(g, s, t, 0)
    BY DEF IsPlace
  <2> QED
    BY <2>1
<1>2. ASSUME NEW k \in 0 .. m - 1, k \in Upto
      PROVE  k + 1 \in Upto
  <2>1. PICK g : IsPlace(g, s, t, k)
    BY <1>2
  <2> DEFINE h == [n \in 0 .. k + 1 |-> IF n = k + 1 THEN NextIn(t, g[k], s[k + 1]) ELSE g[n]]
  <2>2. ASSUME NEW n \in 0 .. k + 1
        PROVE  h[n] = IF n = 0 THEN 0 ELSE NextIn(t, h[n - 1], s[n])
    <3>1. n \in 0 .. k + 1 /\ k + 1 # 0 /\ k \in Nat
      OBVIOUS
    <3>2. CASE n = k + 1
      <4>1. h[n] = NextIn(t, g[k], s[n]) /\ h[n - 1] = g[k]
        BY <3>1, <3>2
      <4> HIDE DEF h
      <4> QED
        BY <3>1, <3>2, <4>1
    <3>3. CASE n = 0
      <4>1. h[n] = g[n]
        BY <3>1, <3>3
      <4> QED
        BY <2>1, <3>3, <4>1 DEF IsPlace
    <3>4. CASE n \in 1 .. k
      <4>1. h[n] = g[n] /\ h[n - 1] = g[n - 1]
        BY <3>4
      <4> HIDE DEF h
      <4> QED
        BY <2>1, <3>1, <3>4, <4>1, PlaceStep
    <3> QED
      BY <3>2, <3>3, <3>4
  <2>3. h = [n \in 0 .. k + 1 |-> h[n]]
    OBVIOUS
  <2> HIDE DEF h
  <2>4. IsPlace(h, s, t, k + 1)
    BY <2>2, <2>3 DEF IsPlace
  <2> QED
    BY <2>4
<1> HIDE DEF Upto
<1>3. \A k \in 0 .. m : k \in Upto
  BY <1>1, <1>2, NumberInduction
<1> QED
  BY <1>3 DEF Upto

\* The next place of a frame is no later than any place where it is.
LEMMA NextIsFirst ==
  ASSUME NEW t, Len(t) \in Nat, NEW i \in Nat, NEW j \in i + 1 .. Len(t)
  PROVE  NextIn(t, i, t[j]) \in Nat /\ NextIn(t, i, t[j]) <= j
<1> DEFINE places == {k \in i + 1 .. Len(t) : t[k] = t[j]}
           first  == CHOOSE k \in places : \A l \in places : k <= l
<1>1. places \in SUBSET Nat /\ j \in places
  OBVIOUS
<1>2. first \in places /\ \A l \in places : first <= l
  <2> HIDE DEF places
  <2>1. \E k \in places : \A l \in places : k <= l
    BY <1>1, LeastNumber
  <2> QED
    BY <2>1
<1>3. NextIn(t, i, t[j]) = first
  BY <1>1 DEF NextIn
<1> QED
  BY <1>1, <1>2, <1>3

LEMMA PartIfEmbedded ==
  ASSUME NEW F, NEW s \in Seq(F), NEW t \in Seq(F), Embedded(s, t)
  PROVE  PartOf(s, t)
<1> DEFINE m == Len(s)
           place == CHOOSE g : IsPlace(g, s, t, m)
<1>1. m \in Nat /\ Len(t) \in Nat
  OBVIOUS
<1>2. PartOf(s, t) <=> place[m] <= Len(t)
  BY DEF PartOf, IsPlace
<1>3. PICK g : g = place
  OBVIOUS
<1>4. IsPlace(g, s, t, m)
  BY <1>1, <1>3, PlaceExists
<1> HIDE DEF m, place
<1>5. PICK e : Embeds(e, s, t)
  BY DEF Embedded
<1>6. /\ \A i \in 1 .. m : e[i] \in 1 .. Len(t) /\ t[e[i]] = s[i]
      /\ \A i, j \in 1 .. m : i < j => e[i] < e[j]
  BY <1>5 DEF Embeds, m
<1> DEFINE Found == {k \in 0 .. m : g[k] \in Nat /\ (k = 0 => g[k] = 0) /\ (k # 0 => g[k] <= e[k])}
<1>7. 0 \in Found
  <2>1. g[0] = 0
    BY <1>1, <1>4 DEF IsPlace
  <2> QED
    BY <1>1, <2>1
<1>8. ASSUME NEW k \in 0 .. m - 1, k \in Found
      PROVE  k + 1 \in Found
  <2>1. k + 1 \in 1 .. m /\ (k + 1) - 1 = k /\ k \in Nat
    BY <1>1
  <2>2. g[k + 1] = NextIn(t, g[k], s[k + 1])
    BY <1>1, <1>4, <2>1, PlaceStep
  <2>3. e[k + 1] \in 1 .. Len(t) /\ t[e[k + 1]] = s[k + 1]
    BY <1>6, <2>1
  <2>4. g[k] \in Nat /\ (k = 0 => g[k] = 0) /\ (k # 0 => g[k] <= e[k])
    BY <1>8
  <2>5. e[k + 1] \in g[k] + 1 .. Len(t)
    <3>1. CASE k = 0
      BY <1>1, <2>3, <2>4, <3>1
    <3>2. CASE k # 0
      <4>1. k \in 1 .. m /\ k < k + 1
        BY <1>1, <3>2
      <4>2. e[k] < e[k + 1] /\ e[k] \in 1 .. Len(t)
        BY <1>6, <2>1, <4>1
      <4> QED
        BY <1>1, <2>3, <2>4, <3>2, <4>2
    <3> QED
      BY <3>1, <3>2
  <2>6. g[k + 1] \in Nat /\ g[k + 1] <= e[k + 1]
    BY <1>1, <2>2, <2>3, <2>4, <2>5, NextIsFirst
  <2> QED
    BY <2>1, <2>6
<1>9. m \in Found
  <2> HIDE DEF Found
  <2>1. \A k \in 0 .. m : k \in Found
    BY <1>1, <1>7, <1>8, NumberInduction
  <2> QED
    BY <1>1, <2>1
<1>10. g[m] <= Len(t)
  <2>1. g[m] \in Nat /\ (m = 0 => g[m] = 0) /\ (m # 0 => g[m] <= e[m])
    BY <1>9
  <2>2. CASE m = 0
    BY <1>1, <2>1, <2>2
  <2>3. CASE m # 0
    <3>1. m \in 1 .. m
      BY <1>1, <2>3
    <3>2. e[m] \in 1 .. Len(t)
      BY <1>6, <3>1
    <3> QED
      BY <1>1, <2>1, <2>3, <3>2
  <2> QED
    BY <2>2, <2>3
<1> QED
  BY <1>2, <1>3, <1>10

LEMMA EmbedEmpty ==
  ASSUME NEW t
  PROVE  Embedded(<<>>, t)
<1> DEFINE e == [i \in 1 .. 0 |-> 1]
<1>1. Len(<<>>) = 0 /\ 1 .. 0 = {}
  OBVIOUS
<1>2. e \in [1 .. 0 -> 1 .. Len(t)]
  BY <1>1
<1> HIDE DEF e
<1>3. Embeds(e, <<>>, t)
  BY <1>1, <1>2 DEF Embeds
<1> QED
  BY <1>3 DEF Embedded

LEMMA EmbedSelf ==
  ASSUME NEW F, NEW s \in Seq(F)
  PROVE  Embedded(s, s)
<1> DEFINE e == [i \in 1 .. Len(s) |-> i]
<1>1. Embeds(e, s, s)
  BY DEF Embeds
<1> QED
  BY <1>1 DEF Embedded

LEMMA EmbedConcat ==
  ASSUME NEW F, NEW s \in Seq(F), NEW t \in Seq(F), NEW u \in Seq(F), NEW v \in Seq(F),
         Embedded(s, t), Embedded(u, v)
  PROVE  Embedded(s \o u, t \o v)
<1>1. PICK d : Embeds(d, s, t)
  BY DEF Embedded
<1>2. PICK e : Embeds(e, u, v)
  BY DEF Embedded
<1>3. PICK m, n, k, l \in Nat : m = Len(s) /\ n = Len(t) /\ k = Len(u) /\ l = Len(v)
  OBVIOUS
<1>4. /\ \A i \in 1 .. m : d[i] \in 1 .. n /\ t[d[i]] = s[i]
      /\ \A i, j \in 1 .. m : i < j => d[i] < d[j]
  BY <1>1, <1>3 DEF Embeds
<1>5. /\ \A i \in 1 .. k : e[i] \in 1 .. l /\ v[e[i]] = u[i]
      /\ \A i, j \in 1 .. k : i < j => e[i] < e[j]
  BY <1>2, <1>3 DEF Embeds
<1>0. PICK su, tv : su = s \o u /\ tv = t \o v
  OBVIOUS
<1>6. /\ Len(su) = m + k /\ Len(tv) = n + l
      /\ \A i \in 1 .. m : su[i] = s[i]
      /\ \A i \in 1 .. k : su[m + i] = u[i]
      /\ \A i \in 1 .. n : tv[i] = t[i]
      /\ \A i \in 1 .. l : tv[n + i] = v[i]
  BY <1>0, <1>3
<1> DEFINE x == [i \in 1 .. m + k |-> IF i \in 1 .. m THEN d[i] ELSE n + e[i - m]]
<1>7. ASSUME NEW i \in 1 .. m
      PROVE  x[i] = d[i] /\ x[i] \in 1 .. n /\ tv[x[i]] = su[i]
  BY <1>4, <1>6
<1>8. ASSUME NEW i \in 1 .. k
      PROVE  x[m + i] = n + e[i] /\ x[m + i] \in n + 1 .. n + l /\ tv[x[m + i]] = su[m + i]
  <2>1. m + i \in 1 .. m + k /\ m + i \notin 1 .. m /\ (m + i) - m = i
    OBVIOUS
  <2>2. x[m + i] = n + e[i]
    BY <2>1
  <2> HIDE DEF x
  <2>3. e[i] \in 1 .. l /\ v[e[i]] = u[i]
    BY <1>5
  <2>4. tv[n + e[i]] = v[e[i]] /\ su[m + i] = u[i]
    BY <1>6, <2>3
  <2>5. n + e[i] \in n + 1 .. n + l
    BY <2>3
  <2> QED
    BY <2>2, <2>3, <2>4, <2>5
<1>9. \A i \in 1 .. m + k : i \in 1 .. m \/ \E j \in 1 .. k : i = m + j
  <2> TAKE i \in 1 .. m + k
  <2>1. i \in 1 .. m \/ (i - m \in 1 .. k /\ i = m + (i - m))
    OBVIOUS
  <2> QED
    BY <2>1
<1>10. DOMAIN x = 1 .. m + k /\ x = [i \in 1 .. m + k |-> x[i]]
  OBVIOUS
<1> HIDE DEF x
<1>11. ASSUME NEW i \in 1 .. m + k
       PROVE  x[i] \in 1 .. n + l /\ tv[x[i]] = su[i]
  <2>1. CASE i \in 1 .. m
    <3>1. x[i] \in 1 .. n /\ tv[x[i]] = su[i]
      BY <1>7, <2>1
    <3> QED
      BY <3>1
  <2>2. ASSUME NEW j \in 1 .. k, i = m + j
        PROVE  x[i] \in 1 .. n + l /\ tv[x[i]] = su[i]
    <3>1. x[m + j] \in n + 1 .. n + l /\ tv[x[m + j]] = su[m + j]
      BY <1>8
    <3>2. x[m + j] \in 1 .. n + l
      BY <3>1
    <3> QED
      BY <2>2, <3>1, <3>2
  <2> QED
    BY <1>9, <2>1, <2>2
<1>12. ASSUME NEW i \in 1 .. m + k, NEW j \in 1 .. m + k, i < j
       PROVE  x[i] < x[j]
  <2>1. CASE i \in 1 .. m /\ j \in 1 .. m
    BY <1>4, <1>7, <1>12, <2>1
  <2>2. ASSUME NEW q \in 1 .. k, j = m + q, i \in 1 .. m
        PROVE  x[i] < x[j]
    <3>1. x[i] \in 1 .. n
      BY <1>7, <2>2
    <3>2. x[j] \in n + 1 .. n + l
      BY <1>8, <2>2
    <3> QED
      BY <3>1, <3>2
  <2>3. ASSUME NEW p \in 1 .. k, NEW q \in 1 .. k, i = m + p, j = m + q
        PROVE  x[i] < x[j]
    <3>1. p < q
      BY <1>12, <2>3
    <3>2. e[p] < e[q] /\ e[p] \in 1 .. l /\ e[q] \in 1 .. l
      BY <1>5, <3>1
    <3>3. x[i] = n + e[p] /\ x[j] = n + e[q]
      BY <1>8, <2>3
    <3> QED
      BY <3>2, <3>3
  <2>4. ASSUME NEW p \in 1 .. k, i = m + p, j \in 1 .. m
        PROVE  FALSE
    BY <1>12, <2>4
  <2> QED
    BY <1>9, <2>1, <2>2, <2>3, <2>4
<1>13. x \in [1 .. m + k -> 1 .. n + l]
  BY <1>10, <1>11
<1>14. Embeds(x, su, tv)
  BY <1>6, <1>11, <1>12, <1>13 DEF Embeds
<1> QED
  BY <1>0, <1>14 DEF Embedded

\* What is left of a sequence is part of it.
LEMMA EmbedOnly ==
  ASSUME NEW F, NEW s \in Seq(F), NEW S
  PROVE  Embedded(Only(s, S), s)
<1> DEFINE T == {t \in Seq(F) : Embedded(Only(t, S), t)}
<1>1. <<>> \in T
  BY OnlyOfEmpty, EmbedEmpty
<1>2. ASSUME NEW t \in Seq(F), NEW f \in F, t \in T
      PROVE  Append(t, f) \in T
  <2>1. Append(t, f) \in Seq(F) /\ <<f>> \in Seq(F) /\ <<>> \in Seq(F) /\ Append(t, f) = t \o <<f>>
    OBVIOUS
  <2>2. Only(t, S) \in Seq(F)
    BY OnlyMembers
  <2>3. Append(Only(t, S), f) = Only(t, S) \o <<f>> /\ Only(t, S) = Only(t, S) \o <<>>
    BY <2>2
  <2>4. Embedded(<<f>>, <<f>>) /\ Embedded(<<>>, <<f>>) /\ Embedded(Only(t, S), t)
    BY <1>2, <2>1, EmbedSelf, EmbedEmpty
  <2>5. Embedded(Only(t, S) \o <<f>>, t \o <<f>>) /\ Embedded(Only(t, S) \o <<>>, t \o <<f>>)
    BY <2>1, <2>2, <2>4, EmbedConcat
  <2>6. Only(Append(t, f), S) = IF f \in S THEN Append(Only(t, S), f) ELSE Only(t, S)
    BY OnlyOfAppend
  <2>7. Embedded(Only(Append(t, f), S), Append(t, f))
    BY <2>1, <2>3, <2>5, <2>6
  <2> QED
    BY <2>1, <2>7
<1> HIDE DEF T
<1>3. s \in T
  BY <1>1, <1>2, SequenceInduction
<1> QED
  BY <1>3 DEF T

LEMMA EmbedPrefix ==
  ASSUME NEW F, NEW s \in Seq(F), NEW k \in 0 .. Len(s)
  PROVE  Embedded(SubSeq(s, 1, k), s)
<1> DEFINE p == SubSeq(s, 1, k)
           q == SubSeq(s, k + 1, Len(s))
<1>1. p \in Seq(F) /\ q \in Seq(F) /\ s = p \o q
  BY Split
<1> HIDE DEF p, q
<1>2. Embedded(p, p) /\ Embedded(<<>>, q) /\ <<>> \in Seq(F) /\ p \o <<>> = p
  BY <1>1, EmbedSelf, EmbedEmpty
<1>3. Embedded(p \o <<>>, p \o q)
  BY <1>1, <1>2, EmbedConcat
<1>4. Embedded(p, s)
  BY <1>1, <1>2, <1>3
<1> QED
  BY <1>4 DEF p

LEMMA EmbedTransitive ==
  ASSUME NEW s, NEW t, NEW u, Len(s) \in Nat, Len(t) \in Nat, Len(u) \in Nat,
         Embedded(s, t), Embedded(t, u)
  PROVE  Embedded(s, u)
<1>1. PICK d : Embeds(d, s, t)
  BY DEF Embedded
<1>2. PICK e : Embeds(e, t, u)
  BY DEF Embedded
<1> DEFINE x == [i \in 1 .. Len(s) |-> e[d[i]]]
<1>3. \A i \in 1 .. Len(s) : x[i] = e[d[i]] /\ d[i] \in 1 .. Len(t) /\ t[d[i]] = s[i]
  BY <1>1 DEF Embeds
<1>4. \A i \in 1 .. Len(t) : e[i] \in 1 .. Len(u) /\ u[e[i]] = t[i]
  BY <1>2 DEF Embeds
<1>5. x \in [1 .. Len(s) -> 1 .. Len(u)]
  BY <1>3, <1>4
<1> HIDE DEF x
<1>6. ASSUME NEW i \in 1 .. Len(s), NEW j \in 1 .. Len(s), i < j
      PROVE  x[i] < x[j]
  <2>1. d[i] < d[j]
    BY <1>1, <1>6 DEF Embeds
  <2> QED
    BY <1>2, <1>3, <2>1 DEF Embeds
<1>7. Embeds(x, s, u)
  BY <1>3, <1>4, <1>5, <1>6 DEF Embeds
<1> QED
  BY <1>7 DEF Embedded

-----------------------------------------------------------------------------
(***************************************************************************)
(* The invariant, and the properties that follow from it.                  *)
(***************************************************************************)

Sequences == \E F : native \in Seq(F) /\ chain \in Seq(F) /\ Root \in F

StitchInv ==
  /\ Sequences
  /\ at \notin {"trim", "done"} => frames = native
  /\ at = "trim" => frames = Spliced(native, chain)
  /\ at = "done" => frames = Spliced(native, chain) \/ frames = Trimmed(Spliced(native, chain))

LEMMA StitchKeeps ==
  ASSUME StitchInv, Splice \/ Trim \/ UNCHANGED vars
  PROVE  StitchInv'
<1> USE DEF StitchInv, Sequences
<1>1. CASE Splice
  BY <1>1 DEF Splice
<1>2. CASE Trim
  BY <1>2 DEF Trim
<1>3. CASE UNCHANGED vars
  BY <1>3 DEF vars
<1> QED
  BY <1>1, <1>2, <1>3

\* Whichever pass comes next, the frames are the stack, or what Spliced made of
\* it, or a prefix of that.
LEMMA FramesAre ==
  ASSUME StitchInv, NEW F, native \in Seq(F), chain \in Seq(F), Root \in F
  PROVE  /\ frames \in Seq(F)
         /\ \/ frames = native
            \/ frames = Spliced(native, chain)
            \/ \E k \in 0 .. Len(Spliced(native, chain)) : frames = SubSeq(Spliced(native, chain), 1, k)
<1>1. Spliced(native, chain) \in Seq(F)
  BY SplicedParts
<1>2. \/ frames = native
      \/ frames = Spliced(native, chain)
      \/ frames = Trimmed(Spliced(native, chain))
  BY DEF StitchInv
<1>3. \E k \in 0 .. Len(Spliced(native, chain)) :
        Trimmed(Spliced(native, chain)) = SubSeq(Spliced(native, chain), 1, k)
  BY <1>1, TrimmedKeeps
<1>4. \A k \in 0 .. Len(Spliced(native, chain)) : SubSeq(Spliced(native, chain), 1, k) \in Seq(F)
  BY <1>1, Split
<1> QED
  BY <1>1, <1>2, <1>3, <1>4

LEMMA SplicedInOrder ==
  ASSUME NEW F, NEW s \in Seq(F), NEW c \in Seq(F), Root \in F
  PROVE  Embedded(s, s \o c \o <<Root>>) /\ Embedded(Spliced(s, c), s \o c \o <<Root>>)
<1> DEFINE p == SubSeq(s, 1, Boundary(s))
           d == Deduped(s, c)
           r == <<Root>>
<1>1. /\ p \in Seq(F) /\ d \in Seq(F) /\ r \in Seq(F) /\ <<>> \in Seq(F)
      /\ s \o c \in Seq(F) /\ p \o d \in Seq(F)
      /\ Spliced(s, c) = s \/ Spliced(s, c) = (p \o d) \o r
  BY SplicedParts
<1>2. s \o c \o r = (s \o c) \o r /\ (s \o <<>>) \o <<>> = s /\ s \o <<>> \in Seq(F)
  BY <1>1
<1>3. Embedded(p, s)
  BY SplicedParts, EmbedPrefix
<1>4. Embedded(d, c)
  BY EmbedOnly DEF Deduped
<1>5. Embedded(s, s) /\ Embedded(r, r) /\ Embedded(<<>>, c) /\ Embedded(<<>>, r)
  BY <1>1, EmbedSelf, EmbedEmpty
<1> HIDE DEF p, d, r
<1>6. Embedded(s \o <<>>, s \o c) /\ Embedded(p \o d, s \o c)
  BY <1>1, <1>3, <1>4, <1>5, EmbedConcat
<1>7. Embedded((s \o <<>>) \o <<>>, (s \o c) \o r) /\ Embedded((p \o d) \o r, (s \o c) \o r)
  BY <1>1, <1>2, <1>5, <1>6, EmbedConcat
<1>8. Embedded(s, s \o c \o r) /\ Embedded(Spliced(s, c), s \o c \o r)
  BY <1>1, <1>2, <1>7
<1> QED
  BY <1>8 DEF r

\* The order of the calls.
LEMMA OrderFollows ==
  ASSUME StitchInv
  PROVE  InOrder
<1>1. PICK F : native \in Seq(F) /\ chain \in Seq(F) /\ Root \in F
  BY DEF StitchInv, Sequences
<1> DEFINE x == Spliced(native, chain)
           all == native \o chain \o <<Root>>
<1>2. x \in Seq(F) /\ frames \in Seq(F) /\ all \in Seq(F)
  BY <1>1, SplicedParts, FramesAre
<1>3. Len(x) \in Nat /\ Len(frames) \in Nat /\ Len(all) \in Nat
  BY <1>2
<1>4. Embedded(native, all) /\ Embedded(x, all)
  BY <1>1, SplicedInOrder
<1>5. \/ frames = native
      \/ frames = x
      \/ \E k \in 0 .. Len(x) : frames = SubSeq(x, 1, k)
  BY <1>1, FramesAre
<1> HIDE DEF x, all
<1>6. ASSUME NEW k \in 0 .. Len(x), frames = SubSeq(x, 1, k)
      PROVE  Embedded(frames, all)
  <2>1. Embedded(frames, x)
    BY <1>2, <1>6, EmbedPrefix
  <2> QED
    BY <1>3, <1>4, <2>1, EmbedTransitive
<1>7. Embedded(frames, all)
  BY <1>4, <1>5, <1>6
<1>8. PartOf(frames, all)
  BY <1>2, <1>7, PartIfEmbedded
<1> QED
  BY <1>8 DEF InOrder, all

LEMMA SplicedTimes ==
  ASSUME NEW F, NEW s \in Seq(F), NEW c \in Seq(F), Root \in F, NEW f \in Methods
  PROVE  Times(f, Spliced(s, c)) <= Times(f, s) \/ Times(f, Spliced(s, c)) <= Times(f, c)
<1> DEFINE p == SubSeq(s, 1, Boundary(s))
           d == Deduped(s, c)
<1>1. \A t \in Seq(F) : Only(t, {f}) \in Seq(F) /\ Times(f, t) \in Nat
  <2> TAKE t \in Seq(F)
  <2>1. Only(t, {f}) \in Seq(F)
    BY OnlyMembers
  <2> QED
    BY <2>1 DEF Times
<1>2. p \in Seq(F) /\ d \in Seq(F) /\ Spliced(s, c) \in Seq(F) /\ Boundary(s) \in 0 .. Len(s)
  BY SplicedParts
<1>3. CASE Boundary(s) = 0 \/ c = <<>>
  <2>1. Spliced(s, c) = s
    BY <1>3, SplicedParts
  <2> QED
    BY <1>1, <2>1
<1>4. CASE Boundary(s) # 0 /\ c # <<>>
  <2>1. Root \notin {f}
    BY StitchAssumption
  <2>2. Only(Spliced(s, c), {f}) = Only(p, {f}) \o Only(d, {f})
    BY <1>4, <2>1, OnlyOfSpliced
  <2>3. Only(d, {f}) = Only(c, (ToSet(c) \ ExistingNames(s)) \cap {f})
    BY OnlyOfOnly DEF Deduped
  <2>4. CASE f \in ToSet(s)
    <3>1. (ToSet(c) \ ExistingNames(s)) \cap {f} = {}
      BY <2>4 DEF ExistingNames
    <3>2. Only(d, {f}) = <<>>
      BY <2>3, <3>1, OnlyOfNone
    <3>3. Only(p, {f}) \o <<>> = Only(p, {f})
      BY <1>1, <1>2
    <3>4. Times(f, Spliced(s, c)) = Times(f, p)
      BY <2>2, <3>2, <3>3 DEF Times
    <3>5. Times(f, p) <= Times(f, s)
      BY <1>2, PrefixTimes
    <3> QED
      BY <3>4, <3>5
  <2>5. CASE f \notin ToSet(s)
    <3>1. ToSet(c) \cap ((ToSet(c) \ ExistingNames(s)) \cap {f}) = ToSet(c) \cap {f}
      BY <2>5 DEF ExistingNames
    <3>2. Only(d, {f}) = Only(c, {f})
      BY <2>3, <3>1, OnlyOfSame
    <3>3. Only(s, {f}) = <<>>
      <4>1. ToSet(s) \cap {f} = {}
        BY <2>5
      <4> QED
        BY <4>1, OnlyOfNone
    <3>4. Times(f, p) <= Times(f, s) /\ Times(f, s) = 0
      <4>1. Len(<<>>) = 0
        OBVIOUS
      <4> QED
        BY <1>2, <3>3, <4>1, PrefixTimes DEF Times
    <3>5. Len(Only(p, {f})) = 0
      BY <1>1, <1>2, <3>4 DEF Times
    <3>6. Only(p, {f}) = <<>>
      BY <1>1, <1>2, <3>5, EmptySeq
    <3>7. <<>> \o Only(c, {f}) = Only(c, {f})
      BY <1>1
    <3>8. Times(f, Spliced(s, c)) = Times(f, c)
      BY <2>2, <3>2, <3>6, <3>7 DEF Times
    <3> QED
      BY <1>1, <3>8
  <2> QED
    BY <2>4, <2>5
<1> QED
  BY <1>3, <1>4

\* The number of the calls.
LEMMA TimesFollow ==
  ASSUME StitchInv
  PROVE  NoMethodTwice
<1> SUFFICES ASSUME NEW f \in Methods
             PROVE  Times(f, frames) <= Times(f, native) \/ Times(f, frames) <= Times(f, chain)
  BY DEF NoMethodTwice
<1>1. PICK F : native \in Seq(F) /\ chain \in Seq(F) /\ Root \in F
  BY DEF StitchInv, Sequences
<1> DEFINE x == Spliced(native, chain)
<1>2. \A t \in Seq(F) : Times(f, t) \in Nat
  <2> TAKE t \in Seq(F)
  <2>1. Only(t, {f}) \in Seq(F)
    BY OnlyMembers
  <2> QED
    BY <2>1 DEF Times
<1>3. x \in Seq(F) /\ frames \in Seq(F)
  BY <1>1, SplicedParts, FramesAre
<1>4. Times(f, x) <= Times(f, native) \/ Times(f, x) <= Times(f, chain)
  BY <1>1, SplicedTimes
<1>5. \/ frames = native
      \/ frames = x
      \/ \E k \in 0 .. Len(x) : frames = SubSeq(x, 1, k)
  BY <1>1, FramesAre
<1> HIDE DEF x
<1>6. ASSUME NEW k \in 0 .. Len(x), frames = SubSeq(x, 1, k)
      PROVE  Times(f, frames) <= Times(f, x)
  BY <1>3, <1>6, PrefixTimes
<1>7. frames = native \/ Times(f, frames) <= Times(f, x)
  BY <1>2, <1>3, <1>5, <1>6
<1> QED
  BY <1>1, <1>2, <1>3, <1>4, <1>7

\* The deepest boundary is the one where the native stack is cut, if it is.
LEMMA BoundaryIs ==
  ASSUME NEW F, NEW s \in Seq(F)
  PROVE  /\ Boundary(s) # 0 => \A j \in Boundary(s) + 1 .. Len(s) : ~ IsBoundary(s[j])
         /\ ~ HasDeepSmalltalk(s) /\ Boundary(s) = 0 => \A j \in 1 .. Len(s) : ~ IsBoundary(s[j])
<1>1. PICK last : last = SelectLastInSeq(s, IsBoundary)
  OBVIOUS
<1>2. \A i \in last + 1 .. Len(s) : ~ IsBoundary(s[i])
  BY <1>1, LastBoundary
<1>3. Boundary(s) = IF HasDeepSmalltalk(s) THEN 0 ELSE last
  BY <1>1 DEF Boundary
<1>4. CASE HasDeepSmalltalk(s)
  BY <1>3, <1>4
<1>5. CASE ~ HasDeepSmalltalk(s)
  <2>1. Boundary(s) = last
    BY <1>3, <1>5
  <2>2. \A i \in Boundary(s) + 1 .. Len(s) : ~ IsBoundary(s[i])
    BY <1>2, <2>1
  <2> HIDE DEF Boundary
  <2>3. Boundary(s) = 0 => \A i \in 1 .. Len(s) : ~ IsBoundary(s[i])
    BY <2>2
  <2> QED
    BY <2>2, <2>3
<1> QED
  BY <1>4, <1>5

\* What the chain adds, and what is left out.
LEMMA NothingElseFollows ==
  ASSUME StitchInv
  PROVE  NothingElseLost
<1> SUFFICES ASSUME frames # native, at = "trim", NEW f \in ToSet(chain)
             PROVE  f \in ToSet(frames) \/ Beyond(f)
  BY DEF NothingElseLost, Cut
<1>1. PICK F : native \in Seq(F) /\ chain \in Seq(F) /\ Root \in F
  BY DEF StitchInv, Sequences
<1>2. PICK b : b = Boundary(native)
  OBVIOUS
<1> DEFINE p == SubSeq(native, 1, b)
           d == Deduped(native, chain)
<1>3. /\ p \in Seq(F) /\ d \in Seq(F) /\ <<Root>> \in Seq(F) /\ b \in 0 .. Len(native) /\ b # 0
      /\ frames = (p \o d) \o <<Root>>
  BY <1>1, <1>2, SplicedParts DEF StitchInv
<1>4. Len(p) = b /\ \A i \in 1 .. b : p[i] = native[i]
  BY <1>1, <1>3, Split
<1>5. \A j \in b + 1 .. Len(native) : ~ IsBoundary(native[j])
  BY <1>1, <1>2, <1>3, BoundaryIs
<1>6. ToSet(d) = ToSet(chain) \cap (ToSet(chain) \ ExistingNames(native))
  BY <1>1, OnlyMembers DEF Deduped
<1> HIDE DEF p, d
<1>7. ToSet(p) \subseteq ToSet(frames) /\ ToSet(d) \subseteq ToSet(frames)
  <2>1. p \o d \in Seq(F) /\ ToSet(p \o d) = ToSet(p) \cup ToSet(d)
    BY <1>3, SetOfConcat
  <2>2. ToSet((p \o d) \o <<Root>>) = ToSet(p \o d) \cup ToSet(<<Root>>)
    <3>1. p \o d \in Seq(F) /\ <<Root>> \in Seq(F)
      BY <1>3, <2>1
    <3> QED
      BY <3>1, SetOfConcat
  <2> QED
    BY <1>3, <2>1, <2>2
<1>8. CASE f \notin ToSet(native)
  BY <1>6, <1>7, <1>8 DEF ExistingNames
<1>9. CASE f \in ToSet(native) /\ \E i \in 1 .. b : native[i] = f
  <2>1. PICK i \in 1 .. b : native[i] = f
    BY <1>9
  <2>2. i \in DOMAIN p /\ p[i] = f
    BY <1>3, <1>4, <2>1
  <2>3. f \in ToSet(p)
    BY <2>2 DEF ToSet
  <2> QED
    BY <1>7, <2>3
<1>10. CASE f \in ToSet(native) /\ \A i \in 1 .. b : native[i] # f
  <2>1. ASSUME NEW i \in 1 .. Len(native), native[i] = f, NEW j \in i + 1 .. Len(native)
        PROVE  ~ IsBoundary(native[j])
    <3>1. Len(native) \in Nat /\ b \in Nat
      BY <1>1, <1>3
    <3>2. i \notin 1 .. b
      BY <1>10, <2>1
    <3>3. j \in b + 1 .. Len(native)
      BY <3>1, <3>2
    <3> QED
      BY <1>5, <3>3
  <2>2. Beyond(f)
    BY <1>10, <2>1 DEF Beyond
  <2> QED
    BY <2>2
<1> QED
  BY <1>8, <1>9, <1>10

\* A stack without methods, of which a boundary shows that Smalltalk was left,
\* gets the methods of the chain.
LEMMA ChainShown ==
  ASSUME StitchInv, at = "done", ToSet(native) \cap Methods = {},
         ToSet(native) \cap (CogEntries \cup VmEntries) # {}
  PROVE  Only(frames, Methods) = Only(chain, Methods)
<1>1. PICK F : native \in Seq(F) /\ chain \in Seq(F) /\ Root \in F
  BY DEF StitchInv, Sequences
<1>2. PICK b : b = Boundary(native)
  OBVIOUS
<1> DEFINE x == Spliced(native, chain)
           p == SubSeq(native, 1, b)
           q == SubSeq(native, b + 1, Len(native))
           d == Deduped(native, chain)
<1>3. /\ x \in Seq(F) /\ d \in Seq(F) /\ b \in 0 .. Len(native)
      /\ x = IF b = 0 \/ chain = <<>> THEN native ELSE (p \o d) \o <<Root>>
  BY <1>1, <1>2, SplicedParts
<1>4. Only(native, Methods) = <<>>
  BY <1>1, OnlyOfNone
<1>5. b # 0
  <2>1. ~ HasDeepSmalltalk(native)
    <3>1. Len(<<>>) = 0
      OBVIOUS
    <3> QED
      BY <1>4, <3>1, StitchAssumption DEF HasDeepSmalltalk
  <2>2. PICK i \in DOMAIN native : native[i] \in CogEntries \cup VmEntries
    BY DEF ToSet
  <2>3. i \in 1 .. Len(native) /\ IsBoundary(native[i])
    BY <1>1, <2>2 DEF IsBoundary
  <2> QED
    BY <1>1, <1>2, <2>1, <2>3, BoundaryIs
<1>6. Only(x, Methods) = Only(chain, Methods)
  <2>1. CASE chain = <<>>
    BY <1>3, <1>4, <2>1, OnlyOfEmpty
  <2>2. CASE chain # <<>>
    <3>1. Root \notin Methods
      BY StitchAssumption
    <3>2. Only(x, Methods) = Only(p, Methods) \o Only(d, Methods)
      BY <1>1, <1>2, <1>5, <2>2, <3>1, OnlyOfSpliced
    <3>3. Only(p, Methods) = <<>>
      <4>1. p \in Seq(F) /\ Len(p) = b /\ \A i \in 1 .. b : p[i] = native[i]
        BY <1>1, <1>3, Split
      <4> HIDE DEF p
      <4>2. ASSUME NEW i \in DOMAIN p
            PROVE  p[i] \notin Methods
        <5>1. i \in 1 .. b /\ i \in DOMAIN native
          BY <1>1, <1>3, <4>1
        <5>2. native[i] \in ToSet(native)
          BY <5>1 DEF ToSet
        <5> QED
          BY <4>1, <5>1, <5>2
      <4>3. ToSet(p) \cap Methods = {}
        BY <4>2 DEF ToSet
      <4> QED
        BY <4>1, <4>3, OnlyOfNone
    <3>4. d = chain
      <4>1. ToSet(chain) \subseteq ToSet(chain) \ ExistingNames(native)
        BY DEF ExistingNames
      <4> QED
        BY <1>1, <4>1, OnlyOfAll DEF Deduped
    <3>5. Only(d, Methods) \in Seq(F)
      BY <1>3, OnlyMembers
    <3>6. <<>> \o Only(d, Methods) = Only(d, Methods)
      BY <3>5
    <3> QED
      BY <3>2, <3>3, <3>4, <3>6
  <2> QED
    BY <2>1, <2>2
<1>7. frames = x \/ frames = Trimmed(x)
  BY DEF StitchInv
<1> HIDE DEF x
<1>8. Only(Trimmed(x), Methods) = Only(x, Methods)
  BY <1>3, TrimmedKeeps
<1> QED
  BY <1>6, <1>7, <1>8

\* The last pass.
LEMMA TrimRoots ==
  ASSUME StitchInv, Trim
  PROVE  /\ Only(frames', Methods) = Only(frames, Methods)
         /\ hide => IF Only(frames, Methods) = <<>> THEN frames' = frames
                    ELSE Last(frames') \in Methods
<1>1. PICK F : native \in Seq(F) /\ chain \in Seq(F) /\ Root \in F
  BY DEF StitchInv, Sequences
<1>2. frames \in Seq(F)
  BY <1>1, FramesAre
<1>3. frames' = IF hide THEN Trimmed(frames) ELSE frames
  BY DEF Trim
<1>4. /\ Only(Trimmed(frames), Methods) = Only(frames, Methods)
      /\ IF Only(frames, Methods) = <<>> THEN Trimmed(frames) = frames
         ELSE Last(Trimmed(frames)) \in Methods
  BY <1>2, TrimmedKeeps
<1> QED
  BY <1>3, <1>4

-----------------------------------------------------------------------------
\* Stitching, for native stacks and chains of any length: callers stay in
\* order, no method is called more often than one of the two shows it, none of
\* the chain is lost that the native stack does not show beyond the boundary,
\* and trimming takes away no method (get_stack_traces).
THEOREM StitchesRight ==
  Spec => [](InOrder /\ NoMethodTwice /\ NothingElseLost) /\ RootedInSmalltalk
<1>1. Init => StitchInv
  <2> SUFFICES ASSUME Init
               PROVE  StitchInv
    OBVIOUS
  <2>1. Root \in Frames
    BY StitchAssumption DEF Frames, Smalltalk
  <2>2. \A S, n : \A s \in BoundedSeq(S, n) : n \in Nat => s \in Seq(S)
    BY DEF BoundedSeq, SeqOf
  <2>3. native \in Seq(Frames) /\ chain \in Seq(Methods \cup Generics)
    BY <2>2, StitchAssumption DEF Init
  <2>4. chain \in Seq(Frames)
    BY <2>3 DEF Frames, Smalltalk
  <2>5. Sequences
    BY <2>1, <2>3, <2>4 DEF Sequences
  <2> QED
    BY <2>5 DEF StitchInv, Init
<1>2. StitchInv /\ [Next]_vars => StitchInv'
  BY StitchKeeps DEF Next
<1>3. StitchInv => InOrder /\ NoMethodTwice /\ NothingElseLost
  BY OrderFollows, TimesFollow, NothingElseFollows
<1>4. StitchInv /\ [Next]_vars =>
        [at = "trim" =>
           /\ Only(frames', Methods) = Only(frames, Methods)
           /\ hide => IF Only(frames, Methods) = <<>> THEN frames' = frames
                      ELSE Last(frames') \in Methods]_vars
  <2> SUFFICES ASSUME StitchInv, Next, at = "trim"
               PROVE  /\ Only(frames', Methods) = Only(frames, Methods)
                      /\ hide => IF Only(frames, Methods) = <<>> THEN frames' = frames
                                 ELSE Last(frames') \in Methods
    OBVIOUS
  <2>1. Trim
    BY DEF Next, Splice
  <2> QED
    BY <2>1, TrimRoots
<1> QED
  BY <1>1, <1>2, <1>3, <1>4, PTL DEF Spec, RootedInSmalltalk

-----------------------------------------------------------------------------
(***************************************************************************)
(* The walk over the VM's frames.                                          *)
(***************************************************************************)

USE FrameAssumption

\* The frame pointers the walk may come to, and the names it may give.
Links == {Mem.first} \cup {CallerAt(p) : p \in DOMAIN Mem.frames}
Names == {NameOfFrame(MethodAt(p)) : p \in Links}

WalkType ==
  /\ visited \in Seq(Links) /\ fp \in Links
  /\ walked \in Seq(Names) /\ origin \in Seq(Nat)
  /\ walking \in BOOLEAN

\* While the walk goes on, it is at the caller of the frame it visited last.
AtCaller ==
  walking => IF visited = <<>> THEN fp = Mem.first ELSE fp = CallerAt(visited[Len(visited)])

WalkInductive == WalkType /\ AtCaller /\ WalkOK

-----------------------------------------------------------------------------
\* One more element leaves the others where they were.
LEMMA Appended ==
  ASSUME NEW S, NEW s \in Seq(S), NEW e \in S
  PROVE  /\ Append(s, e) \in Seq(S) /\ Len(Append(s, e)) = Len(s) + 1
         /\ Append(s, e)[Len(s) + 1] = e
         /\ \A i \in 1 .. Len(s) : Append(s, e)[i] = s[i]
  OBVIOUS

\* A walk starts at the VM's frame pointer, with nothing walked over.
LEMMA WalkStarts ==
  ASSUME WalkInit
  PROVE  WalkInductive
<1>1. <<>> \in Seq(Links) /\ <<>> \in Seq(Names) /\ <<>> \in Seq(Nat) /\ Len(<<>>) = 0
  OBVIOUS
<1> QED
  BY <1>1 DEF WalkInit, WalkInductive, WalkType, AtCaller, WalkOK, OnChain, NamesInOrder, Links

\* What is known of the memory does not change with a step of the walk.
LEMMA MemoryStays ==
  ASSUME UNCHANGED memory
  PROVE  /\ Links' = Links /\ Names' = Names /\ Mem' = Mem
         /\ \A p : CallerAt(p)' = CallerAt(p) /\ NameOfFrame(MethodAt(p))' = NameOfFrame(MethodAt(p))
  BY DEF Links, Names, Mem, CallerAt, MethodAt, NameOfFrame

\* A turn of the loop that visits a frame.
LEMMA VisitKeeps ==
  ASSUME WalkInductive, WalkFrame, MethodAt(fp) # Lost
  PROVE  WalkInductive'
<1> DEFINE word == MethodAt(fp)
           n    == Len(visited)
           name == NameOfFrame(word)
<1> USE DEF WalkInductive, WalkType, AtCaller, WalkOK, OnChain, NamesInOrder
<1>1. /\ GoesOn /\ walking /\ n < FrameLimit /\ Push(word) /\ UNCHANGED memory
      /\ fp' = IF walking' THEN CallerAt(fp) ELSE fp
  BY DEF WalkFrame, GoesOn
<1>2. /\ Links' = Links /\ Names' = Names /\ Mem' = Mem
      /\ \A p : CallerAt(p)' = CallerAt(p) /\ NameOfFrame(MethodAt(p))' = NameOfFrame(MethodAt(p))
  BY <1>1, MemoryStays
<1>3. fp \in DOMAIN Mem.frames /\ CallerAt(fp) \in Links /\ name \in Names
  BY DEF MethodAt, Links, Names
<1>4. /\ visited' \in Seq(Links) /\ Len(visited') = n + 1 /\ visited'[n + 1] = fp
      /\ \A i \in 1 .. n : visited'[i] = visited[i]
      /\ n \in Nat
  BY <1>1, Appended DEF Push
<1>5. walking' \in BOOLEAN /\ fp' \in Links'
  BY <1>1, <1>2, <1>3 DEF Push
<1>6. OnChain'
  <2>1. Len(visited') <= FrameLimit
    BY <1>1, <1>4
  <2>2. visited'[1] = Mem.first
    <3>1. CASE visited = <<>>
      BY <1>1, <1>4, <3>1
    <3>2. CASE visited # <<>>
      BY <1>4, <3>2
    <3> QED
      BY <3>1, <3>2
  <2>3. ASSUME NEW i \in 1 .. n
        PROVE  CallerAt(visited'[i]) = visited'[i + 1]
    <3>1. CASE i = n
      BY <1>1, <1>4, <3>1
    <3>2. CASE i # n
      <4>1. i \in 1 .. n - 1 /\ i + 1 \in 1 .. n
        BY <1>4, <3>2
      <4> QED
        BY <1>4, <4>1
    <3> QED
      BY <3>1, <3>2
  <2>4. \A p : CallerAt(p)' = CallerAt(p)
    BY <1>2
  <2> QED
    BY <1>2, <1>4, <2>1, <2>2, <2>3, <2>4
<1>7. AtCaller'
  BY <1>1, <1>2, <1>4
<1>8. ASSUME NEW i \in 1 .. Len(walked)
      PROVE  origin[i] \in 1 .. n + 1 /\ walked[i] = NameOfFrame(MethodAt(visited'[origin[i]]))
  <2>1. origin[i] \in 1 .. n /\ walked[i] = NameOfFrame(MethodAt(visited[origin[i]]))
    OBVIOUS
  <2> QED
    BY <1>4, <2>1
<1>9. CASE name = None
  <2>1. walked' = walked /\ origin' = origin
    BY <1>1, <1>9 DEF Push
  <2>2. ASSUME NEW i \in 1 .. Len(walked)
        PROVE  /\ origin[i] \in 1 .. Len(visited')
               /\ walked[i] = NameOfFrame(MethodAt(visited'[origin[i]]))
    BY <1>8, <1>4
  <2>3. ASSUME NEW k \in 1 .. Len(visited'), NameOfFrame(MethodAt(visited'[k])) # None
        PROVE  \E i \in 1 .. Len(origin) : origin[i] = k
    <3>1. k \in 1 .. n
      BY <1>4, <1>9, <2>3
    <3> QED
      BY <1>4, <2>3, <3>1
  <2>4. \A p : NameOfFrame(MethodAt(p))' = NameOfFrame(MethodAt(p))
    BY <1>2
  <2>5. NamesInOrder'
    BY <2>1, <2>2, <2>3, <2>4
  <2> QED
    BY <1>2, <1>4, <1>5, <1>6, <1>7, <2>1, <2>5
<1>10. CASE name # None
  <2>1. walked' = Append(walked, name) /\ origin' = Append(origin, n + 1)
    BY <1>1, <1>4, <1>10 DEF Push
  <2>2. /\ walked' \in Seq(Names) /\ Len(walked') = Len(walked) + 1
        /\ walked'[Len(walked) + 1] = name
        /\ \A i \in 1 .. Len(walked) : walked'[i] = walked[i]
    BY <1>3, <2>1, Appended
  <2>3. /\ origin' \in Seq(Nat) /\ Len(origin') = Len(origin) + 1
        /\ origin'[Len(origin) + 1] = n + 1
        /\ \A i \in 1 .. Len(origin) : origin'[i] = origin[i]
    BY <1>4, <2>1, Appended
  <2>4. NamesInOrder'
    <3>1. Len(origin') = Len(walked') /\ Len(origin) \in Nat
      BY <2>2, <2>3
    <3>2. ASSUME NEW i \in 1 .. Len(walked')
          PROVE  /\ origin'[i] \in 1 .. Len(visited')
                 /\ walked'[i] = NameOfFrame(MethodAt(visited'[origin'[i]]))
      <4>1. CASE i = Len(walked) + 1
        BY <1>4, <2>2, <2>3, <4>1
      <4>2. CASE i \in 1 .. Len(walked)
        <5>1. i \in 1 .. Len(origin) /\ origin'[i] = origin[i] /\ walked'[i] = walked[i]
          BY <2>2, <2>3, <3>1, <4>2
        <5> QED
          BY <4>2, <5>1, <1>8, <1>4
      <4> QED
        BY <2>2, <3>1, <4>1, <4>2
    <3>3. ASSUME NEW i \in 1 .. Len(origin'), NEW j \in 1 .. Len(origin'), i < j
          PROVE  origin'[i] < origin'[j]
      <4>1. i \in 1 .. Len(origin)
        BY <2>3, <3>1, <3>3
      <4>4. origin[i] \in 1 .. n
        BY <3>1, <4>1
      <4>2. CASE j = Len(origin) + 1
        BY <1>4, <2>3, <4>1, <4>2, <4>4
      <4>3. CASE j \in 1 .. Len(origin)
        BY <2>3, <3>3, <4>1, <4>3
      <4> QED
        BY <2>3, <4>2, <4>3
    <3>4. ASSUME NEW k \in 1 .. Len(visited'), NameOfFrame(MethodAt(visited'[k])) # None
          PROVE  \E i \in 1 .. Len(origin') : origin'[i] = k
      <4>1. CASE k = n + 1
        <5>1. Len(origin) + 1 \in 1 .. Len(origin')
          BY <2>3, <3>1
        <5> QED
          BY <2>3, <4>1, <5>1
      <4>2. CASE k \in 1 .. n
        BY <1>4, <2>3, <3>1, <3>4, <4>2
      <4> QED
        BY <1>4, <4>1, <4>2
    <3>5. \A p : NameOfFrame(MethodAt(p))' = NameOfFrame(MethodAt(p))
      BY <1>2
    <3> QED
      BY <3>1, <3>2, <3>3, <3>4, <3>5
  <2> QED
    BY <1>2, <1>5, <1>6, <1>7, <1>4, <2>2, <2>3, <2>4
<1> QED
  BY <1>9, <1>10

\* The walk keeps the invariant.
LEMMA WalkKeeps ==
  ASSUME WalkInductive, WalkFrame \/ UNCHANGED walkVars
  PROVE  WalkInductive'
<1>1. CASE WalkFrame /\ MethodAt(fp) # Lost
  BY <1>1, VisitKeeps
<1>2. CASE (WalkFrame /\ MethodAt(fp) = Lost) \/ UNCHANGED walkVars
  <2>1. UNCHANGED <<memory, fp, visited, walked, origin>> /\ (~ walking' \/ walking' = walking)
    BY <1>2 DEF WalkFrame, walkVars
  <2>2. walking' \in BOOLEAN
    BY <1>2 DEF WalkFrame, walkVars, WalkInductive, WalkType
  <2>3. /\ Links' = Links /\ Names' = Names /\ Mem' = Mem
        /\ \A p : CallerAt(p)' = CallerAt(p) /\ NameOfFrame(MethodAt(p))' = NameOfFrame(MethodAt(p))
    BY <2>1, MemoryStays
  <2>4. WalkType'
    BY <2>1, <2>2, <2>3 DEF WalkInductive, WalkType
  <2>5. AtCaller'
    BY <2>1, <2>2, <2>3 DEF WalkInductive, AtCaller
  <2>6. OnChain'
    BY <2>1, <2>3 DEF WalkInductive, WalkOK, OnChain
  <2>7. NamesInOrder'
    BY <2>1, <2>3 DEF WalkInductive, WalkOK, NamesInOrder
  <2> QED
    BY <2>4, <2>5, <2>6, <2>7 DEF WalkInductive, WalkOK
<1> QED
  BY <1>1, <1>2

-----------------------------------------------------------------------------
\* The VM's frames are read from the innermost outwards, each in its place and
\* with its own name, and no more than FrameLimit of them, though the memory be
\* linked in any way.
THEOREM WalksAreTrue == TraceSpec => []WalkTrue
<1>1. TraceInit => WalkInductive
  BY WalkStarts DEF TraceInit
<1>2. WalkInductive /\ [TraceNext]_traceVars => WalkInductive'
  BY WalkKeeps DEF TraceNext, Walk, ResolveNative, Stitch, traceVars
<1>3. WalkInductive => WalkTrue
  BY DEF WalkInductive, WalkTrue
<1> QED
  BY <1>1, <1>2, <1>3, PTL DEF TraceSpec

-----------------------------------------------------------------------------
(***************************************************************************)
(* The trace: what StackStitch makes of the walk and a native stack.       *)
(***************************************************************************)
TraceInv ==
  /\ WalkInductive
  /\ StitchInv
  /\ at # "walk" => chain = walked

LEMMA TraceStarts ==
  ASSUME TraceInit
  PROVE  TraceInv
<1>1. WalkInductive
  BY WalkStarts DEF TraceInit
<1>2. Sequences
  <2>1. <<>> \in Seq({Root}) /\ Root \in {Root}
    OBVIOUS
  <2> QED
    BY <2>1 DEF TraceInit, Sequences
<1> QED
  BY <1>1, <1>2 DEF TraceInit, TraceInv, StitchInv

LEMMA TraceKeeps ==
  ASSUME TraceInv, [TraceNext]_traceVars
  PROVE  TraceInv'
<1>1. WalkInductive'
  BY WalkKeeps DEF TraceInv, TraceNext, Walk, ResolveNative, Stitch, traceVars
<1>2. CASE ResolveNative
  <2>1. PICK n \in 0 .. NativeDepth : native' \in [1 .. n -> NativeFrames]
    BY <1>2 DEF ResolveNative
  <2>2. native' \in Seq(NativeFrames)
    BY <2>1
  <2>3. chain' \in Seq(Names)
    BY <1>2 DEF ResolveNative, TraceInv, WalkInductive, WalkType
  <2> DEFINE F == NativeFrames \cup Names \cup {Root}
  <2>4. native' \in Seq(F) /\ chain' \in Seq(F) /\ Root \in F
    BY <2>2, <2>3
  <2> HIDE DEF F
  <2>5. Sequences'
    BY <2>4 DEF Sequences
  <2>6. at' = "splice" /\ frames' = native' /\ chain' = walked /\ walked' = walked
    BY <1>2 DEF ResolveNative, walkVars
  <2> QED
    BY <1>1, <2>5, <2>6 DEF TraceInv, StitchInv
<1>3. CASE Stitch
  <2>1. StitchInv'
    BY <1>3, StitchKeeps DEF Stitch, TraceInv
  <2>2. chain' = chain /\ walked' = walked /\ at # "walk"
    BY <1>3 DEF Stitch, Splice, Trim, walkVars
  <2> QED
    BY <1>1, <2>1, <2>2 DEF TraceInv
<1>4. CASE Walk
  <2>1. StitchInv' /\ at' = "walk"
    BY <1>4, StitchKeeps DEF Walk, TraceInv, vars
  <2> QED
    BY <1>1, <2>1 DEF TraceInv
<1>5. CASE UNCHANGED traceVars
  <2>1. StitchInv' /\ at' = at /\ chain' = chain /\ walked' = walked
    BY <1>5, StitchKeeps DEF traceVars, TraceInv, vars, walkVars
  <2> QED
    BY <1>1, <2>1 DEF TraceInv
<1> QED
  BY <1>2, <1>3, <1>4, <1>5 DEF TraceNext

\* A trace has its callers in the order of the native stack and of the VM's
\* chain, whatever the memory and the stack are.
THEOREM TracesAreInOrder == TraceSpec => []InOrder
<1>1. TraceInv => InOrder
  BY OrderFollows DEF TraceInv
<1> QED
  BY TraceStarts, TraceKeeps, <1>1, PTL DEF TraceSpec

\* No method is called more often in a trace than the native stack or the chain
\* shows it.
THEOREM TracesRepeatNothing == TraceSpec => []NoMethodTwice
<1>1. TraceInv => NoMethodTwice
  BY TimesFollow DEF TraceInv
<1> QED
  BY TraceStarts, TraceKeeps, <1>1, PTL DEF TraceSpec

\* A chain that is put in a trace loses no frame, but those the native stack
\* shows only beyond every boundary.
THEOREM TracesLoseNothingElse == TraceSpec => []NothingElseLost
<1>1. TraceInv => NothingElseLost
  BY NothingElseFollows DEF TraceInv
<1> QED
  BY TraceStarts, TraceKeeps, <1>1, PTL DEF TraceSpec

\* When the native stack shows that Smalltalk was left and none of its methods,
\* the trace has the methods of the VM's chain, all of them in their order.
THEOREM TracesShowCallers == TraceSpec => []CallersShown
<1>1. TraceInv => CallersShown
  BY ChainShown DEF TraceInv, CallersShown
<1> QED
  BY TraceStarts, TraceKeeps, <1>1, PTL DEF TraceSpec

\* Trimming takes no method from a trace, and leaves one at its root unless
\* there is none.
THEOREM TracesAreRooted == TraceSpec => RootedInSmalltalk
<1>1. TraceInv /\ [TraceNext]_traceVars =>
        [at = "trim" =>
           /\ Only(frames', Methods) = Only(frames, Methods)
           /\ hide => IF Only(frames, Methods) = <<>> THEN frames' = frames
                      ELSE Last(frames') \in Methods]_vars
  <2> SUFFICES ASSUME TraceInv, [TraceNext]_traceVars, ~ UNCHANGED vars, at = "trim"
               PROVE  /\ Only(frames', Methods) = Only(frames, Methods)
                      /\ hide => IF Only(frames, Methods) = <<>> THEN frames' = frames
                                 ELSE Last(frames') \in Methods
    OBVIOUS
  <2>1. Trim
    BY DEF TraceNext, Walk, ResolveNative, Stitch, Splice, traceVars
  <2> QED
    BY <2>1, TrimRoots DEF TraceInv
<1> QED
  BY TraceStarts, TraceKeeps, <1>1, PTL DEF TraceSpec, RootedInSmalltalk

-----------------------------------------------------------------------------
(***************************************************************************)
(* The names of frames: what the symbolizer reads out of the heap, for any *)
(* memory that is laid out as TrueAssumption says.                         *)
(***************************************************************************)
USE TextAssumption, DepthAssumption

\* g is the function by which Readings is defined, up to m.
IsReadings(g, h, m) == g = [left \in 0 .. m |-> IF left = 0 THEN TooDeep ELSE Level(h, g[left - 1])]

LEMMA ReadingsStep ==
  ASSUME NEW g, NEW h, NEW m \in Nat, IsReadings(g, h, m), NEW k \in 1 .. m
  PROVE  g[0] = TooDeep /\ g[k] = Level(h, g[k - 1])
<1> DEFINE r == [left \in 0 .. m |-> IF left = 0 THEN TooDeep ELSE Level(h, g[left - 1])]
<1>1. g = r
  BY DEF IsReadings
<1>2. r[0] = TooDeep /\ r[k] = Level(h, g[k - 1])
  OBVIOUS
<1> HIDE DEF r
<1> QED
  BY <1>1, <1>2

\* There is such a function.
LEMMA ReadingsExist ==
  ASSUME NEW h, NEW m \in Nat
  PROVE  \E g : IsReadings(g, h, m)
<1> DEFINE Upto == {k \in 0 .. m : \E g : IsReadings(g, h, k)}
<1>1. 0 \in Upto
  <2> DEFINE g == [left \in 0 .. 0 |-> TooDeep]
  <2>1. IsReadings(g, h, 0)
    BY DEF IsReadings
  <2> QED
    BY <2>1
<1>2. ASSUME NEW k \in 0 .. m - 1, k \in Upto
      PROVE  k + 1 \in Upto
  <2>1. PICK g : IsReadings(g, h, k)
    BY <1>2
  <2> DEFINE f == [left \in 0 .. k + 1 |-> IF left = k + 1 THEN Level(h, g[k]) ELSE g[left]]
  <2>2. ASSUME NEW left \in 0 .. k + 1
        PROVE  f[left] = IF left = 0 THEN TooDeep ELSE Level(h, f[left - 1])
    <3>1. left \in 0 .. k + 1 /\ k + 1 # 0 /\ k \in Nat
      OBVIOUS
    <3>2. CASE left = k + 1
      BY <3>1, <3>2
    <3>3. CASE left = 0
      <4>1. f[left] = g[left]
        BY <3>1, <3>3
      <4> QED
        BY <2>1, <3>3, <4>1 DEF IsReadings
    <3>4. CASE left \in 1 .. k
      <4>1. f[left] = g[left] /\ f[left - 1] = g[left - 1]
        BY <3>4
      <4> HIDE DEF f
      <4> QED
        BY <2>1, <3>1, <3>4, <4>1, ReadingsStep
    <3> QED
      BY <3>2, <3>3, <3>4
  <2>3. f = [left \in 0 .. k + 1 |-> f[left]]
    OBVIOUS
  <2> HIDE DEF f
  <2>4. IsReadings(f, h, k + 1)
    BY <2>2, <2>3 DEF IsReadings
  <2> QED
    BY <2>4
<1> HIDE DEF Upto
<1>3. \A k \in 0 .. m : k \in Upto
  BY <1>1, <1>2, NumberInduction
<1> QED
  BY <1>3 DEF Upto

\* What is read at a level follows from the level one deeper.
LEMMA ReadingsUnfold ==
  ASSUME NEW h
  PROVE  /\ Readings(h)[0] = TooDeep
         /\ \A k \in 1 .. MaxDepth + 1 : Readings(h)[k] = Level(h, Readings(h)[k - 1])
<1> DEFINE g == CHOOSE f : IsReadings(f, h, MaxDepth + 1)
<1>1. IsReadings(g, h, MaxDepth + 1)
  BY ReadingsExist
<1>2. Readings(h) = g
  BY DEF Readings, IsReadings
<1> HIDE DEF g
<1>3. 1 \in 1 .. MaxDepth + 1 /\ MaxDepth + 1 \in Nat
  OBVIOUS
<1> QED
  BY <1>1, <1>2, <1>3, ReadingsStep

\* The same for one word.
LEMMA Reads ==
  ASSUME NEW h, NEW k \in 1 .. MaxDepth + 1, NEW w \in Words
  PROVE  LET deeper == Readings(h)[k - 1]
         IN  /\ Readings(h)[k].selector[w] = MaybeSelectorOfMethod(h, deeper, w)
             /\ Readings(h)[k].class[w] = ClassNameFromClassObject(h, deeper, w)
             /\ Readings(h)[k].literal[w] = ClassNameFromMethodLiteral(h, deeper, w)
             /\ Readings(h)[k].name[w] = ClassNameOfMethod(h, deeper, w)
<1>1. Readings(h)[k] = Level(h, Readings(h)[k - 1])
  BY ReadingsUnfold
<1> QED
  BY <1>1 DEF Level

\* Nothing is read beyond MaxDepth.
LEMMA ReadsNothing ==
  ASSUME NEW h, NEW w \in Words
  PROVE  Readings(h)[0].class[w] = None
  BY ReadingsUnfold DEF TooDeep

-----------------------------------------------------------------------------
\* The first of some candidates, when it is there, is taken.
LEMMA FirstIs ==
  ASSUME NEW c, DOMAIN c \subseteq Nat \ {0}, 1 \in DOMAIN c, c[1] # None
  PROVE  FirstOf(c) = c[1]
<1> DEFINE there == {i \in DOMAIN c : c[i] # None}
<1>1. 1 \in there /\ there \subseteq Nat \ {0}
  OBVIOUS
<1>2. FirstOf(c) = c[Min(there)]
  BY <1>1 DEF FirstOf
<1> HIDE DEF there
<1>3. Min(there) \in there /\ \A i \in there : Min(there) <= i
  <2>1. \A i \in there : 1 <= i
    BY <1>1
  <2>2. \E m \in there : \A i \in there : m <= i
    BY <1>1, <2>1
  <2> QED
    BY <2>2 DEF Min
<1>4. PICK m : m = Min(there)
  OBVIOUS
<1>5. m \in Nat \ {0} /\ m <= 1
  BY <1>1, <1>3, <1>4
<1>6. m = 1
  BY <1>5
<1> QED
  BY <1>2, <1>4, <1>6

\* When none is there, none is.
LEMMA FirstNone ==
  ASSUME NEW c, \A i \in DOMAIN c : c[i] = None
  PROVE  FirstOf(c) = None
  BY DEF FirstOf

\* The literal that is looked at first is the last.
LEMMA TriedIs ==
  ASSUME NEW s \in Seq(Words), s # <<>>
  PROVE  /\ DOMAIN LiteralsTried(s) \subseteq Nat \ {0} /\ 1 \in DOMAIN LiteralsTried(s)
         /\ LiteralsTried(s)[1] = s[Len(s)]
<1> DEFINE low == IF Len(s) > 4 THEN Len(s) - 3 ELSE 1
           sub == SubSeq(s, low, Len(s))
<1>1. Len(s) \in Nat /\ low \in 1 .. Len(s)
  OBVIOUS
<1> HIDE DEF low
<1>2. sub \in Seq(Words) /\ Len(sub) = (Len(s) - low) + 1 /\ sub[Len(sub)] = s[Len(s)]
  BY <1>1
<1> HIDE DEF sub
<1>3. PICK n \in Nat : n = Len(sub) /\ n >= 1
  BY <1>1, <1>2
<1>4. Reverse(sub) = [i \in 1 .. n |-> sub[(n - i) + 1]]
  BY <1>3 DEF Reverse
<1>5. DOMAIN Reverse(sub) = 1 .. n /\ Reverse(sub)[1] = sub[n]
  BY <1>3, <1>4
<1>6. LiteralsTried(s) = Reverse(sub)
  BY DEF LiteralsTried, sub, low
<1> QED
  BY <1>2, <1>3, <1>5, <1>6

-----------------------------------------------------------------------------
\* What can be known of an object that has slots.
LEMMA SlotsAreWords ==
  ASSUME NEW h, NEW o, IsHeap(h), IsPointerObject(h, o) \/ IsCompiledMethod(h, o)
  PROVE  /\ o \in Words /\ h[o].slots \in Seq(Words)
         /\ \A i \in 0 .. Len(h[o].slots) - 1 : Field(h, o, i) \in Words
<1>1. o \in DOMAIN h /\ h[o].format \in {"method", "pointers"}
  BY DEF IsPointerObject, IsCompiledMethod, FormatOf, Formats
<1>2. o \in Words /\ h[o].slots \in Seq(Words)
  BY <1>1 DEF IsHeap
<1>3. PICK s \in Seq(Words) : s = h[o].slots
  BY <1>2
<1>4. \A i \in 0 .. Len(s) - 1 : s[i + 1] \in Words
  OBVIOUS
<1> QED
  BY <1>2, <1>3, <1>4 DEF Field

\* An object has one format.
LEMMA PointersOnly ==
  ASSUME NEW h, NEW o, IsPointerObject(h, o)
  PROVE  /\ ~ IsWordsOrBytes(h, o) /\ ~ IsCompiledMethod(h, o)
         /\ ReadByteObject(h, o) = None /\ ClassText(h, o) = None
<1>1. FormatOf(h, o) = "pointers"
  BY DEF IsPointerObject
<1>2. ReadByteObject(h, o) = None
  BY <1>1 DEF ReadByteObject
<1>3. None \notin ClassTexts
  OBVIOUS
<1> QED
  BY <1>1, <1>2, <1>3 DEF IsWordsOrBytes, IsCompiledMethod, ClassText

LEMMA MethodsOnly ==
  ASSUME NEW h, NEW o, IsCompiledMethod(h, o)
  PROVE  ~ IsWordsOrBytes(h, o) /\ ~ IsPointerObject(h, o)
  BY DEF IsWordsOrBytes, IsCompiledMethod, IsPointerObject

\* An object with a text is a byte object.
LEMMA TextsOnly ==
  ASSUME NEW h, NEW o, ReadByteObject(h, o) # None
  PROVE  IsWordsOrBytes(h, o) /\ ~ IsPointerObject(h, o) /\ ~ IsCompiledMethod(h, o)
<1>1. FormatOf(h, o) = "bytes"
  BY DEF ReadByteObject
<1> QED
  BY <1>1 DEF IsWordsOrBytes, IsCompiledMethod, IsPointerObject

\* The name of a class is found in its text.
LEMMA NameIs ==
  ASSUME NEW h, NEW o, NEW t \in ClassTexts, ReadByteObject(h, o) = t
  PROVE  ClassText(h, o) = [class |-> t, metas |-> 0] /\ ClassText(h, o) # None
<1>1. ClassText(h, o) = [class |-> t, metas |-> 0]
  BY DEF ClassText
<1>2. [class |-> t, metas |-> 0] \in ClassNames
  BY DEF ClassNames
<1> QED
  BY <1>1, <1>2

\* A class object has its name, at any depth that is looked at.
LEMMA ClassIsNamed ==
  ASSUME NEW h, NEW o, IsHeap(h), HasSlots(h, o, 7),
         NEW t \in ClassTexts, ReadByteObject(h, Field(h, o, 6)) = t,
         NEW k \in 1 .. MaxDepth + 1
  PROVE  Readings(h)[k].class[o] = [class |-> t, metas |-> 0]
<1>1. IsPointerObject(h, o) /\ Len(h[o].slots) >= 7 /\ o \in Words /\ h[o].slots \in Seq(Words)
  BY SlotsAreWords DEF HasSlots
<1>2. PICK n \in Nat : n = Len(h[o].slots) /\ 6 < n
  BY <1>1
<1>3. PICK deeper : deeper = Readings(h)[k - 1]
  OBVIOUS
<1>4. Readings(h)[k].class[o] = ClassNameFromClassObject(h, deeper, o)
  BY <1>1, <1>3, Reads
<1>5. PICK name : name = ClassText(h, Field(h, o, 6))
  OBVIOUS
<1>6. name = [class |-> t, metas |-> 0] /\ name # None
  BY <1>5, NameIs
<1>7. ClassNameFromClassObject(h, deeper, o) = name
  BY <1>1, <1>2, <1>5, <1>6 DEF ClassNameFromClassObject, OrElse
<1> QED
  BY <1>4, <1>6, <1>7

\* A metaclass has the name of its class, which is one level deeper.
LEMMA MetaclassIsNamed ==
  ASSUME NEW h, NEW o, NEW t, NEW k, k \in 2 .. MaxDepth + 1, t \in ClassTexts,
         IsHeap(h), IsMetaclass(h, o, t)
  PROVE  Readings(h)[k].class[o] = [class |-> t, metas |-> 1]
<1>1. IsPointerObject(h, o) /\ Len(h[o].slots) = 6 /\ o \in Words /\ Field(h, o, 5) \in Words
  <2>1. IsPointerObject(h, o) /\ Len(h[o].slots) = 6
    BY DEF IsMetaclass
  <2>2. 5 \in 0 .. Len(h[o].slots) - 1
    BY <2>1
  <2> QED
    BY <2>1, <2>2, SlotsAreWords
<1>2. PICK n, c : n = Len(h[o].slots) /\ c = Field(h, o, 5)
  OBVIOUS
<1>3. HasSlots(h, c, 7) /\ ReadByteObject(h, Field(h, c, 6)) = t /\ c # o /\ n = 6
  <2>1. HasSlots(h, c, 7) /\ ReadByteObject(h, Field(h, c, 6)) = t
    BY <1>2 DEF IsMetaclass
  <2>2. Len(h[c].slots) >= 7 /\ Len(h[o].slots) = 6
    BY <1>1, <2>1 DEF HasSlots
  <2>3. ASSUME c = o
        PROVE  FALSE
    <3>1. 6 >= 7
      BY <2>2, <2>3
    <3> QED
      BY <3>1
  <2> QED
    BY <1>1, <1>2, <2>1, <2>3
<1>4. PICK deeper : deeper = Readings(h)[k - 1]
  OBVIOUS
<1>5. deeper.class[c] = [class |-> t, metas |-> 0]
  BY <1>3, <1>4, ClassIsNamed
<1>6. k \in 1 .. MaxDepth + 1
  OBVIOUS
<1>7. Readings(h)[k].class[o] = ClassNameFromClassObject(h, deeper, o)
  BY <1>1, <1>4, <1>6, Reads
<1>8. deeper.class[c] # None
  <2>1. [class |-> t, metas |-> 0] \in ClassNames
    BY DEF ClassNames
  <2> QED
    BY <1>5, <2>1
<1>9. PICK name : name = [class |-> t, metas |-> 1]
  OBVIOUS
<1>10. name # None
  <2>1. name \in ClassNames
    BY <1>9 DEF ClassNames
  <2> QED
    BY <2>1
<1>11. PICK this : this = deeper.class[c]
  OBVIOUS
<1>12. [class |-> this.class, metas |-> this.metas + 1] = name
  BY <1>5, <1>9, <1>11
<1>13. ClassNameFromClassObject(h, deeper, o) = name
  BY <1>1, <1>2, <1>3, <1>8, <1>10, <1>11, <1>12 DEF ClassNameFromClassObject, OrElse
<1> QED
  BY <1>7, <1>9, <1>13

\* The classes a frame may be known to belong to.
TrueClasses == [class : ClassTexts, metas : 0 .. 1]

\* The last literal of a code.
LastOf(h, m) == Field(h, m, Len(h[m].slots) - 1)

\* The levels it takes from the binding of a class to its name.
Way(class) == IF class.metas = 0 THEN 1 ELSE 3

Suffice(k, class) == k \in 1 .. MaxDepth + 1 /\ k >= Way(class)

\* The binding of a class names it, at any depth that is looked at.
LEMMA ClassBindingIsNamed ==
  ASSUME NEW h, NEW o, NEW class, NEW k, k \in 1 .. MaxDepth + 1, class \in TrueClasses,
         class.metas = 0, IsHeap(h), IsBinding(h, o, class)
  PROVE  Readings(h)[k].literal[o] = class
<1>1. IsPointerObject(h, o) /\ Len(h[o].slots) = 2 /\ o \in Words
      /\ Field(h, o, 0) \in Words /\ Field(h, o, 1) \in Words
  <2>1. IsPointerObject(h, o) /\ Len(h[o].slots) = 2
    BY DEF IsBinding
  <2>2. 0 \in 0 .. Len(h[o].slots) - 1 /\ 1 \in 0 .. Len(h[o].slots) - 1
    BY <2>1
  <2> QED
    BY <2>1, <2>2, SlotsAreWords
<1>2. PICK key, value : key = Field(h, o, 0) /\ value = Field(h, o, 1)
  OBVIOUS
<1>3. class = [class |-> class.class, metas |-> 0] /\ class.class \in ClassTexts /\ class # None
  <2>1. class \in ClassNames
    BY DEF ClassNames, TrueClasses
  <2> QED
    BY <2>1 DEF TrueClasses
<1>4. ClassText(h, key) = class
  <2>1. ReadByteObject(h, key) = class.class
    BY <1>2 DEF IsBinding
  <2> QED
    BY <1>3, <2>1, NameIs
<1>5. PICK deeper : deeper = Readings(h)[k - 1]
  OBVIOUS
<1>6. Readings(h)[k].literal[o] = ClassNameFromMethodLiteral(h, deeper, o)
  BY <1>1, <1>5, Reads
<1>7. deeper.class[o] = class \/ (deeper.class[o] = None /\ deeper.class[value] = None)
  <2>1. CASE k = 1
    BY <1>1, <1>2, <1>5, <2>1, ReadsNothing
  <2>2. CASE k # 1
    <3>1. k - 1 \in 1 .. MaxDepth + 1
      BY <2>2
    <3>2. PICK deepest : deepest = Readings(h)[(k - 1) - 1]
      OBVIOUS
    <3>3. deeper.class[o] = ClassNameFromClassObject(h, deepest, o)
      BY <1>1, <1>5, <3>1, <3>2, Reads
    <3> DEFINE names == [i \in 1 .. 2 |-> IF i - 1 \in {5, 6} THEN None
                                           ELSE IF i - 1 < 2 THEN ClassText(h, Field(h, o, i - 1)) ELSE None]
    <3>4. ClassNameFromClassObject(h, deepest, o) = FirstOf(names)
      <4>1. Min({2, 8}) = 2
        BY DEF Min
      <4> QED
        BY <1>1, <4>1 DEF ClassNameFromClassObject, OrElse
    <3>5. DOMAIN names \subseteq Nat \ {0} /\ 1 \in DOMAIN names /\ names[1] = class
      BY <1>2, <1>4
    <3> HIDE DEF names
    <3>6. names[1] # None
      BY <1>3, <3>5
    <3>7. FirstOf(names) = names[1]
      BY <3>5, <3>6, FirstIs
    <3> QED
      BY <3>3, <3>4, <3>5, <3>7
  <2> QED
    BY <2>1, <2>2
<1>8. ~ IsWordsOrBytes(h, o)
  BY <1>1, PointersOnly
<1>9. ClassNameFromMethodLiteral(h, deeper, o) = class
  BY <1>1, <1>2, <1>3, <1>4, <1>7, <1>8 DEF ClassNameFromMethodLiteral, OrElse
<1> QED
  BY <1>6, <1>9

\* The binding of a metaclass names it, where there are two more levels.
LEMMA MetaclassBindingIsNamed ==
  ASSUME NEW h, NEW o, NEW class, NEW k, Suffice(k, class), class \in TrueClasses,
         class.metas # 0, IsHeap(h), IsBinding(h, o, class)
  PROVE  Readings(h)[k].literal[o] = class
<1>1. IsPointerObject(h, o) /\ Len(h[o].slots) = 2 /\ o \in Words
      /\ Field(h, o, 0) \in Words /\ Field(h, o, 1) \in Words
  <2>1. IsPointerObject(h, o) /\ Len(h[o].slots) = 2
    BY DEF IsBinding
  <2>2. 0 \in 0 .. Len(h[o].slots) - 1 /\ 1 \in 0 .. Len(h[o].slots) - 1
    BY <2>1
  <2> QED
    BY <2>1, <2>2, SlotsAreWords
<1>2. PICK key, value : key = Field(h, o, 0) /\ value = Field(h, o, 1)
  OBVIOUS
<1>3. class = [class |-> class.class, metas |-> 1] /\ class.class \in ClassTexts /\ class # None
  <2>1. class \in ClassNames
    BY DEF ClassNames, TrueClasses
  <2> QED
    BY <2>1 DEF TrueClasses
<1>4. ClassText(h, key) = None /\ IsMetaclass(h, value, class.class)
  BY <1>2 DEF IsBinding
<1>5. ClassText(h, value) = None
  BY <1>4, PointersOnly DEF IsMetaclass
<1>6. PICK deeper : deeper = Readings(h)[k - 1]
  OBVIOUS
<1>7. k \in 1 .. MaxDepth + 1 /\ k - 1 \in 1 .. MaxDepth + 1 /\ k - 1 \in 2 .. MaxDepth + 1
  BY DEF Suffice, Way
<1>8. Readings(h)[k].literal[o] = ClassNameFromMethodLiteral(h, deeper, o)
  BY <1>1, <1>6, <1>7, Reads
<1>9. deeper.class[o] = None
  <2>1. PICK deepest : deepest = Readings(h)[(k - 1) - 1]
    OBVIOUS
  <2>2. deeper.class[o] = ClassNameFromClassObject(h, deepest, o)
    BY <1>1, <1>6, <1>7, <2>1, Reads
  <2> DEFINE names == [i \in 1 .. 2 |-> IF i - 1 \in {5, 6} THEN None
                                         ELSE IF i - 1 < 2 THEN ClassText(h, Field(h, o, i - 1)) ELSE None]
  <2>3. ClassNameFromClassObject(h, deepest, o) = FirstOf(names)
    <3>1. Min({2, 8}) = 2
      BY DEF Min
    <3> QED
      BY <1>1, <3>1 DEF ClassNameFromClassObject, OrElse
  <2>4. \A i \in DOMAIN names : names[i] = None
    <3>1. names[1] = None /\ names[2] = None
      BY <1>2, <1>4, <1>5
    <3>2. DOMAIN names = {1, 2}
      OBVIOUS
    <3> HIDE DEF names
    <3> QED
      BY <3>1, <3>2
  <2> HIDE DEF names
  <2> QED
    BY <2>2, <2>3, <2>4, FirstNone
<1>10. deeper.class[value] = class
  <2>1. PICK t \in ClassTexts : t = class.class
    BY <1>3
  <2>2. PICK l \in 2 .. MaxDepth + 1 : l = k - 1
    BY <1>7
  <2>3. Readings(h)[l].class[value] = [class |-> t, metas |-> 1]
    BY <1>4, <2>1, MetaclassIsNamed
  <2> QED
    BY <1>3, <1>6, <2>1, <2>2, <2>3
<1>11. ~ IsWordsOrBytes(h, o)
  BY <1>1, PointersOnly
<1>12. ClassNameFromMethodLiteral(h, deeper, o) = class
  BY <1>1, <1>2, <1>3, <1>9, <1>10, <1>11 DEF ClassNameFromMethodLiteral, OrElse
<1> QED
  BY <1>8, <1>12

-----------------------------------------------------------------------------
\* A block has the selector of the code around it, one level deeper.
LEMMA BlockSelector ==
  ASSUME NEW h, NEW m \in Words, NEW o, IsCode(h, m), IsCode(h, o),
         LastOf(h, m) = o,
         NEW k \in 1 .. MaxDepth + 1, Readings(h)[k - 1].selector[o] # None
  PROVE  Readings(h)[k].selector[m] = Readings(h)[k - 1].selector[o]
<1>1. PICK deeper : deeper = Readings(h)[k - 1]
  OBVIOUS
<1>2. Readings(h)[k].selector[m] = MaybeSelectorOfMethod(h, deeper, m)
  BY <1>1, Reads
<1>3. IsCompiledMethod(h, o) /\ h[o].headed /\ IsCompiledMethod(h, m) /\ ~ (Len(h[m].slots) < 2)
  <2>1. h[m].slots \in Seq(Words) => Len(h[m].slots) \in Nat
    OBVIOUS
  <2> QED
    BY DEF IsCode
<1>4. MaybeSelectorOfMethod(h, deeper, m) = deeper.selector[o]
  BY <1>1, <1>3 DEF MaybeSelectorOfMethod, LastOf
<1> QED
  BY <1>1, <1>2, <1>4

\* A method that no other is the last literal of has its own.
LEMMA OwnSelector ==
  ASSUME NEW h, NEW m \in Words, IsHeap(h), IsCode(h, m),
         ~ IsCompiledMethod(h, LastOf(h, m)),
         NEW selector, selector # None, IsCalled(h, m, selector), NEW k \in 1 .. MaxDepth + 1
  PROVE  Readings(h)[k].selector[m] = selector
<1>1. PICK deeper : deeper = Readings(h)[k - 1]
  OBVIOUS
<1>2. Readings(h)[k].selector[m] = MaybeSelectorOfMethod(h, deeper, m)
  BY <1>1, Reads
<1>3. h[m].slots \in Seq(Words)
  BY SlotsAreWords DEF IsCode
<1>4. PICK n \in Nat : n = Len(h[m].slots) /\ ~ (n < 2)
  BY <1>3 DEF IsCode
<1>5. PICK last, last2 : last = Field(h, m, n - 1) /\ last2 = Field(h, m, n - 2)
  OBVIOUS
<1>6. IsCompiledMethod(h, m) /\ ~ IsCompiledMethod(h, last)
  BY <1>4, <1>5 DEF IsCode, LastOf
<1>7. MaybeSelectorOfMethod(h, deeper, m) =
        IF IsWordsOrBytes(h, last2) THEN ReadByteObject(h, last2)
        ELSE IF /\ IsPointerObject(h, last2) /\ Len(h[last2].slots) >= 2
                /\ Field(h, last2, 0) = m
                /\ IsWordsOrBytes(h, Field(h, last2, 1))
        THEN ReadByteObject(h, Field(h, last2, 1))
        ELSE None
  BY <1>4, <1>5, <1>6 DEF MaybeSelectorOfMethod
<1>8. CASE ReadByteObject(h, last2) = selector
  <2>1. IsWordsOrBytes(h, last2)
    BY <1>8, TextsOnly
  <2> QED
    BY <1>2, <1>7, <1>8, <2>1
<1>9. CASE HasSlots(h, last2, 2) /\ Field(h, last2, 0) = m /\ ReadByteObject(h, Field(h, last2, 1)) = selector
  <2>1. IsPointerObject(h, last2) /\ Len(h[last2].slots) >= 2 /\ ~ IsWordsOrBytes(h, last2)
    BY <1>9, PointersOnly DEF HasSlots
  <2>2. IsWordsOrBytes(h, Field(h, last2, 1))
    BY <1>9, TextsOnly
  <2> QED
    BY <1>2, <1>7, <1>9, <2>1, <2>2
<1> QED
  BY <1>4, <1>5, <1>8, <1>9 DEF IsCalled

\* A block has the class of the code around it, one level deeper.
LEMMA BlockName ==
  ASSUME NEW h, NEW m, NEW k, NEW class, k \in 1 .. MaxDepth + 1, m \in Words,
         IsHeap(h), IsCode(h, m), IsCode(h, LastOf(h, m)), class # None,
         Readings(h)[k - 1].name[LastOf(h, m)] = class
  PROVE  Readings(h)[k].name[m] = class
<1> DEFINE o == LastOf(h, m)
<1>1. PICK deeper : deeper = Readings(h)[k - 1]
  OBVIOUS
<1>2. Readings(h)[k].name[m] = ClassNameOfMethod(h, deeper, m)
  BY <1>1, Reads
<1>3. IsCompiledMethod(h, o) /\ h[o].headed /\ IsCompiledMethod(h, m)
  BY DEF IsCode
<1>4. PICK s \in Seq(Words) : s = h[m].slots /\ s # <<>> /\ s[Len(s)] = o
  <2>1. h[m].slots \in Seq(Words)
    BY <1>3, SlotsAreWords
  <2>2. PICK s \in Seq(Words) : s = h[m].slots
    BY <2>1
  <2>3. Len(s) >= 2 /\ Len(s) \in Nat
    BY <2>2 DEF IsCode
  <2>4. s # <<>> /\ (Len(s) - 1) + 1 = Len(s)
    BY <2>3
  <2> QED
    BY <2>2, <2>4 DEF Field, LastOf
<1> DEFINE tried == LiteralsTried(s)
           names == [i \in DOMAIN tried |->
                      IF ~ IsCompiledMethod(h, tried[i]) THEN deeper.literal[tried[i]]
                      ELSE IF h[tried[i]].headed THEN deeper.name[tried[i]] ELSE None]
<1>5. DOMAIN tried \subseteq Nat \ {0} /\ 1 \in DOMAIN tried /\ tried[1] = o
  BY <1>4, TriedIs
<1>6. ClassNameOfMethod(h, deeper, m) = FirstOf(names)
  BY <1>3, <1>4 DEF ClassNameOfMethod
<1> HIDE DEF tried
<1>7. DOMAIN names \subseteq Nat \ {0} /\ 1 \in DOMAIN names /\ names[1] = deeper.name[o]
  BY <1>3, <1>5
<1> HIDE DEF names
<1>8. names[1] # None
  BY <1>1, <1>7
<1>9. FirstOf(names) = names[1]
  BY <1>7, <1>8, FirstIs
<1> QED
  BY <1>1, <1>2, <1>6, <1>7, <1>9

\* A method has the class its last literal leads to, one level deeper.
LEMMA OwnName ==
  ASSUME NEW h, NEW m, NEW o, NEW k, k \in 1 .. MaxDepth + 1, m \in Words,
         IsHeap(h), IsCode(h, m), ~ IsCompiledMethod(h, o),
         LastOf(h, m) = o, Readings(h)[k - 1].literal[o] # None
  PROVE  Readings(h)[k].name[m] = Readings(h)[k - 1].literal[o]
<1>1. PICK deeper : deeper = Readings(h)[k - 1]
  OBVIOUS
<1>2. Readings(h)[k].name[m] = ClassNameOfMethod(h, deeper, m)
  BY <1>1, Reads
<1>3. IsCompiledMethod(h, m)
  BY DEF IsCode
<1>4. PICK s \in Seq(Words) : s = h[m].slots /\ s # <<>> /\ s[Len(s)] = o
  <2>1. h[m].slots \in Seq(Words)
    BY <1>3, SlotsAreWords
  <2>2. PICK s \in Seq(Words) : s = h[m].slots
    BY <2>1
  <2>3. Len(s) >= 2 /\ Len(s) \in Nat
    BY <2>2 DEF IsCode
  <2>4. s # <<>> /\ (Len(s) - 1) + 1 = Len(s)
    BY <2>3
  <2> QED
    BY <2>2, <2>4 DEF Field, LastOf
<1> DEFINE tried == LiteralsTried(s)
           names == [i \in DOMAIN tried |->
                      IF ~ IsCompiledMethod(h, tried[i]) THEN deeper.literal[tried[i]]
                      ELSE IF h[tried[i]].headed THEN deeper.name[tried[i]] ELSE None]
<1>5. DOMAIN tried \subseteq Nat \ {0} /\ 1 \in DOMAIN tried /\ tried[1] = o
  BY <1>4, TriedIs
<1>6. ClassNameOfMethod(h, deeper, m) = FirstOf(names)
  BY <1>3, <1>4 DEF ClassNameOfMethod
<1> HIDE DEF tried
<1>7. DOMAIN names \subseteq Nat \ {0} /\ 1 \in DOMAIN names /\ names[1] = deeper.literal[o]
  BY <1>5
<1> HIDE DEF names
<1>8. names[1] # None
  BY <1>1, <1>7
<1>9. FirstOf(names) = names[1]
  BY <1>7, <1>8, FirstIs
<1> QED
  BY <1>1, <1>2, <1>6, <1>7, <1>9

\* The codes a frame runs, one by one: a block is followed by the code around it,
\* and the method at the end has its selector and its class.
LEMMA CodesAre ==
  ASSUME NEW h, NEW run, IsHeap(h), AreCodes(h, run)
  PROVE  /\ Len(run.codes) \in Nat \ {0}
         /\ \A i \in 1 .. Len(run.codes) : run.codes[i] \in Words /\ IsCode(h, run.codes[i])
         /\ \A i \in 1 .. Len(run.codes) - 1 :
              LastOf(h, run.codes[i]) = run.codes[i + 1]
         /\ LET m == run.codes[Len(run.codes)]
            IN  /\ IsCalled(h, m, run.selector)
                /\ IsBinding(h, LastOf(h, m), run.class)
<1>1. PICK c \in Seq(Words) : c = run.codes /\ c # <<>>
  BY DEF AreCodes
<1>2. PICK n \in Nat \ {0} : n = Len(c)
  BY <1>1
<1>3. ASSUME NEW i \in 1 .. n
      PROVE  /\ c[i] \in Words /\ IsCode(h, c[i])
             /\ LET last == LastOf(h, c[i])
                IN  IF i < n THEN last = c[i + 1]
                    ELSE IsCalled(h, c[i], run.selector) /\ IsBinding(h, last, run.class)
  BY <1>1, <1>2 DEF AreCodes, LastOf
<1>4. n \in 1 .. n /\ ~ (n < n)
  OBVIOUS
<1>5. IsCalled(h, c[n], run.selector) /\ IsBinding(h, LastOf(h, c[n]), run.class)
  BY <1>3, <1>4
<1>6. \A i \in 1 .. n - 1 : LastOf(h, c[i]) = c[i + 1]
  <2>1. \A i \in 1 .. n - 1 : i \in 1 .. n /\ i < n
    OBVIOUS
  <2> QED
    BY <1>3, <2>1
<1> QED
  BY <1>1, <1>2, <1>3, <1>5, <1>6

\* The class of a method is no code, and named at the levels there are for it.
LEMMA BindingIsNamed ==
  ASSUME NEW h, NEW o, NEW class, NEW k, Suffice(k, class), class \in TrueClasses, IsHeap(h), IsBinding(h, o, class)
  PROVE  ~ IsCompiledMethod(h, o) /\ Readings(h)[k].literal[o] = class /\ class # None
<1>1. ~ IsCompiledMethod(h, o)
  BY PointersOnly DEF IsBinding
<1>2. class \in ClassNames
  BY DEF ClassNames, TrueClasses
<1>3. Readings(h)[k].literal[o] = class
  <2>1. CASE class.metas = 0
    BY <2>1, ClassBindingIsNamed DEF Suffice
  <2>2. CASE class.metas # 0
    BY <2>2, MetaclassBindingIsNamed
  <2> QED
    BY <2>1, <2>2
<1> QED
  BY <1>1, <1>2, <1>3

\* Each code has the selector and the class of the method, as far as the levels
\* that the code is inside the method, and those from the method to the name,
\* are there.
LEMMA CodesAreNamed ==
  ASSUME NEW h, NEW run, IsHeap(h), AreCodes(h, run)
  PROVE  LET n == Len(run.codes)
         IN  \A j \in 0 .. n - 1 :
               /\ \A k \in j + 1 .. MaxDepth + 1 : Readings(h)[k].selector[run.codes[n - j]] = run.selector
               /\ \A k \in j + Way(run.class) + 1 .. MaxDepth + 1 :
                    Readings(h)[k].name[run.codes[n - j]] = run.class
<1>1. PICK c, selector, class : c = run.codes /\ selector = run.selector /\ class = run.class
  OBVIOUS
<1>2. PICK n \in Nat \ {0} : n = Len(c)
  BY <1>1, CodesAre
<1>3. PICK way \in Nat \ {0} : way = Way(class)
  BY DEF Way
<1>4. class \in TrueClasses /\ selector # None /\ class # None
  <2>1. class \in TrueClasses /\ selector \in SelectorTexts
    BY <1>1 DEF AreCodes, TrueClasses
  <2>2. class \in ClassNames
    BY <2>1 DEF ClassNames, TrueClasses
  <2> QED
    BY <2>1, <2>2
<1>5. \A i \in 1 .. n : c[i] \in Words /\ IsCode(h, c[i])
  BY <1>1, <1>2, CodesAre
<1>6. \A i \in 1 .. n - 1 : LastOf(h, c[i]) = c[i + 1]
  BY <1>1, <1>2, CodesAre
<1>7. PICK o : o = LastOf(h, c[n])
  OBVIOUS
<1>8. IsCalled(h, c[n], selector) /\ IsBinding(h, o, class)
  BY <1>1, <1>2, <1>7, CodesAre
<1>9. ~ IsCompiledMethod(h, o)
  BY <1>8, PointersOnly DEF IsBinding
<1> DEFINE Done == {j \in 0 .. n - 1 :
              /\ \A k \in j + 1 .. MaxDepth + 1 : Readings(h)[k].selector[c[n - j]] = selector
              /\ \A k \in j + way + 1 .. MaxDepth + 1 : Readings(h)[k].name[c[n - j]] = class}
<1>10. 0 \in Done
  <2>1. c[n] \in Words /\ IsCode(h, c[n]) /\ n - 0 = n
    BY <1>5
  <2>2. ASSUME NEW k \in 0 + 1 .. MaxDepth + 1
        PROVE  Readings(h)[k].selector[c[n - 0]] = selector
    <3>1. k \in 1 .. MaxDepth + 1
      OBVIOUS
    <3> QED
      BY <1>4, <1>7, <1>8, <1>9, <2>1, <3>1, OwnSelector
  <2>3. ASSUME NEW k \in 0 + way + 1 .. MaxDepth + 1
        PROVE  Readings(h)[k].name[c[n - 0]] = class
    <3>1. k \in 1 .. MaxDepth + 1 /\ k - 1 \in 1 .. MaxDepth + 1 /\ k - 1 >= way
      OBVIOUS
    <3>2. PICK l : l = k - 1 /\ Suffice(l, class)
      BY <1>3, <3>1 DEF Suffice
    <3>3. Readings(h)[l].literal[o] = class
      BY <1>4, <1>8, <3>2, BindingIsNamed
    <3>4. Readings(h)[k - 1].literal[o] = class
      BY <3>2, <3>3
    <3>5. Readings(h)[k - 1].literal[o] # None
      BY <1>4, <3>4
    <3>6. c[n] \in Words /\ IsCode(h, c[n])
      BY <2>1
    <3>7. Readings(h)[k].name[c[n]] = Readings(h)[k - 1].literal[o]
      BY <1>7, <1>9, <3>1, <3>5, <3>6, OwnName
    <3> QED
      BY <2>1, <3>4, <3>7
  <2> QED
    BY <2>2, <2>3
<1>11. ASSUME NEW j \in 0 .. (n - 1) - 1, j \in Done
       PROVE  j + 1 \in Done
  <2>1. PICK i \in 1 .. n - 1 : i = n - (j + 1)
    BY <1>11
  <2>2. i \in 1 .. n /\ i + 1 \in 1 .. n /\ i + 1 = n - j
    BY <2>1
  <2>3. PICK m, outer : m = c[i] /\ outer = c[i + 1]
    OBVIOUS
  <2>4. /\ m \in Words /\ IsCode(h, m) /\ IsCode(h, outer)
        /\ LastOf(h, m) = outer
    BY <1>5, <1>6, <2>2, <2>3
  <2>5. ASSUME NEW k \in (j + 1) + 1 .. MaxDepth + 1
        PROVE  Readings(h)[k].selector[c[n - (j + 1)]] = selector
    <3>1. k \in 1 .. MaxDepth + 1 /\ k - 1 \in j + 1 .. MaxDepth + 1
      BY <1>11
    <3>2. Readings(h)[k - 1].selector[outer] = selector
      BY <1>11, <2>2, <2>3, <3>1
    <3>3. Readings(h)[k - 1].selector[outer] # None
      BY <1>4, <3>2
    <3>4. Readings(h)[k].selector[m] = Readings(h)[k - 1].selector[outer]
      BY <2>4, <3>1, <3>3, BlockSelector
    <3> QED
      BY <2>1, <2>3, <3>2, <3>4
  <2>6. ASSUME NEW k \in (j + 1) + way + 1 .. MaxDepth + 1
        PROVE  Readings(h)[k].name[c[n - (j + 1)]] = class
    <3>1. k \in 1 .. MaxDepth + 1 /\ k - 1 \in j + way + 1 .. MaxDepth + 1
      BY <1>11
    <3>2. Readings(h)[k - 1].name[outer] = class
      BY <1>11, <2>2, <2>3, <3>1
    <3>3. k \in 1 .. MaxDepth + 1
      BY <3>1
    <3>4. m \in Words /\ IsCode(h, m) /\ IsCode(h, LastOf(h, m))
      BY <2>4
    <3>5. Readings(h)[k - 1].name[LastOf(h, m)] = class
      BY <2>4, <3>2
    <3>6. Readings(h)[k].name[m] = class
      BY <1>4, <3>3, <3>4, <3>5, BlockName
    <3> QED
      BY <2>1, <2>3, <3>6
  <2> QED
    BY <2>5, <2>6
<1> HIDE DEF Done
<1>12. \A j \in 0 .. n - 1 : j \in Done
  <2>1. n - 1 \in Nat
    OBVIOUS
  <2> QED
    BY <1>10, <1>11, <2>1, NumberInduction
<1> QED
  BY <1>1, <1>2, <1>3, <1>12 DEF Done

\* A frame is named after the method it runs.
LEMMA FrameIsNamed ==
  ASSUME NEW mem, NEW word, NEW run, IsHeap(mem.heap), AreCodes(mem.heap, run), Runs(mem, word, run),
         word # Null, Len(run.codes) <= (IF run.class.metas = 0 THEN MaxDepth ELSE MaxDepth - 2)
  PROVE  FrameName(mem, word) = [kind |-> "method", class |-> run.class, selector |-> run.selector]
<1>1. PICK h, m, selector, class : h = mem.heap /\ m = run.codes[1] /\ selector = run.selector /\ class = run.class
  OBVIOUS
<1>2. PICK n \in Nat \ {0} : n = Len(run.codes)
  BY CodesAre
<1>3. /\ n - 1 \in 0 .. n - 1 /\ n - (n - 1) = 1 /\ 1 \in 1 .. n
      /\ MaxDepth + 1 \in (n - 1) + 1 .. MaxDepth + 1
      /\ MaxDepth + 1 \in (n - 1) + Way(run.class) + 1 .. MaxDepth + 1
  <2>1. PICK way \in Nat \ {0} : way = Way(run.class)
    BY DEF Way
  <2>2. n + way <= MaxDepth + 1
    <3>1. CASE run.class.metas = 0
      BY <1>2, <2>1, <3>1 DEF Way
    <3>2. CASE run.class.metas # 0
      BY <1>2, <2>1, <3>2 DEF Way
    <3> QED
      BY <3>1, <3>2
  <2>3. (n - 1) + way + 1 = n + way
    OBVIOUS
  <2> QED
    BY <2>1, <2>2, <2>3
<1>4. /\ \A k \in (n - 1) + 1 .. MaxDepth + 1 : Readings(h)[k].selector[run.codes[n - (n - 1)]] = selector
      /\ \A k \in (n - 1) + Way(run.class) + 1 .. MaxDepth + 1 :
           Readings(h)[k].name[run.codes[n - (n - 1)]] = class
  BY <1>1, <1>2, <1>3, CodesAreNamed
<1>5. SelectorOf(h, m) = selector
  BY <1>1, <1>3, <1>4 DEF SelectorOf
<1>6. ClassOf(h, m) = class
  BY <1>1, <1>3, <1>4 DEF ClassOf
<1>7. selector \in SelectorTexts /\ selector # None /\ Selected(selector) = selector /\ class # None
  <2>1. selector \in SelectorTexts /\ class \in ClassNames
    BY <1>1 DEF AreCodes, ClassNames
  <2> QED
    BY <2>1 DEF Selected
<1>8. IsCompiledMethod(h, m) /\ h[m].headed
  BY <1>1, <1>2, <1>3, CodesAre DEF IsCode
<1>9. PICK name : name = [kind |-> "method", class |-> class, selector |-> selector]
  OBVIOUS
<1>10. CASE word \in DOMAIN mem.zone
  <2>1. PICK cog : cog = mem.zone[word]
    OBVIOUS
  <2>2. cog.type = "method" /\ cog.method = m /\ ReadByteObject(h, cog.selector) \in {None, selector}
    BY <1>1, <1>10, <2>1 DEF Runs
  <2>3. CogMethodName(h, cog) = name
    BY <1>5, <1>6, <1>7, <1>9, <2>2 DEF CogMethodName
  <2> QED
    BY <1>1, <1>9, <1>10, <2>1, <2>3 DEF FrameName
<1>11. CASE word \notin DOMAIN mem.zone
  <2>1. HasSlots(h, word, 4) /\ Field(h, word, 3) = m
    BY <1>1, <1>11 DEF Runs
  <2>2. word \in DOMAIN h
    BY <2>1 DEF HasSlots, IsPointerObject, FormatOf, Formats
  <2>3. ContextName(h, word) = name
    BY <1>5, <1>6, <1>7, <1>8, <1>9, <2>1, <2>2 DEF ContextName
  <2> QED
    BY <1>1, <1>9, <1>11, <2>3 DEF FrameName
<1> QED
  BY <1>10, <1>11

-----------------------------------------------------------------------------
\* Only frames that can be read are walked over.
Mapped == memory \in MemoryIds /\ \A k \in 1 .. Len(visited) : visited[k] \in DOMAIN Mem.frames

NamedInv == WalkInductive /\ Mapped

LEMMA MappedStays ==
  ASSUME NamedInv, WalkFrame
  PROVE  Mapped'
<1>1. memory' = memory /\ Mem' = Mem
  BY DEF WalkFrame, Mem
<1>2. CASE MethodAt(fp) = Lost
  BY <1>1, <1>2 DEF WalkFrame, NamedInv, Mapped
<1>3. CASE MethodAt(fp) # Lost
  <2>1. visited' = Append(visited, fp)
    BY <1>3 DEF WalkFrame, Push
  <2>2. fp \in DOMAIN Mem.frames /\ visited \in Seq(Links) /\ fp \in Links
    BY <1>3 DEF MethodAt, NamedInv, WalkInductive, WalkType
  <2>3. /\ Len(visited') = Len(visited) + 1 /\ visited'[Len(visited) + 1] = fp
        /\ \A k \in 1 .. Len(visited) : visited'[k] = visited[k]
    BY <2>1, <2>2, Appended
  <2>4. ASSUME NEW k \in 1 .. Len(visited')
        PROVE  visited'[k] \in DOMAIN Mem.frames
    <3>1. Len(visited) \in Nat
      BY <2>2
    <3>2. k = Len(visited) + 1 \/ k \in 1 .. Len(visited)
      BY <2>3, <3>1
    <3> QED
      BY <2>2, <2>3, <3>2 DEF NamedInv, Mapped
  <2> QED
    BY <1>1, <2>4 DEF NamedInv, Mapped
<1> QED
  BY <1>2, <1>3

LEMMA NamesFollow ==
  ASSUME NamedInv
  PROVE  NamesTrue
<1> SUFFICES ASSUME NEW i \in 1 .. Len(walked),
                    TrueName(memory, MethodAt(visited[origin[i]])) # None,
                    LET run == TrueName(memory, MethodAt(visited[origin[i]]))
                    IN  Len(run.codes) <= (IF run.class.metas = 0 THEN MaxDepth ELSE MaxDepth - 2)
             PROVE  LET run == TrueName(memory, MethodAt(visited[origin[i]]))
                    IN  walked[i] = [kind |-> "method", class |-> run.class, selector |-> run.selector]
  BY DEF NamesTrue
<1>1. origin[i] \in 1 .. Len(visited) /\ walked[i] = NameOfFrame(MethodAt(visited[origin[i]]))
  BY DEF NamedInv, WalkInductive, WalkOK, NamesInOrder
<1>2. PICK p : p = visited[origin[i]] /\ p \in DOMAIN Mem.frames
  BY <1>1 DEF NamedInv, Mapped
<1>3. PICK mem, word : mem = Memory(memory) /\ word = mem.frames[p].method
  OBVIOUS
<1>4. p \in DOMAIN mem.frames /\ MethodAt(p) = word
  BY <1>2, <1>3 DEF MethodAt, Mem
<1>5. PICK run : run = TrueName(memory, word)
  OBVIOUS
<1>6. /\ run # None
      /\ Len(run.codes) <= (IF run.class.metas = 0 THEN MaxDepth ELSE MaxDepth - 2)
  BY <1>2, <1>4, <1>5
<1>7. memory \in MemoryIds
  BY DEF NamedInv, Mapped
<1>8. IsHeap(mem.heap) /\ word # Null /\ AreCodes(mem.heap, run) /\ Runs(mem, word, run)
  BY <1>3, <1>4, <1>5, <1>6, <1>7, TrueAssumption
<1>9. FrameName(mem, word) = [kind |-> "method", class |-> run.class, selector |-> run.selector]
  BY <1>6, <1>8, FrameIsNamed
<1>10. NameOfFrame(word) = FrameName(mem, word)
  BY <1>3, <1>4, <1>7 DEF NameOfFrame, FrameNames
<1> QED
  BY <1>1, <1>2, <1>4, <1>5, <1>9, <1>10

\* A frame that runs a method, or a block in it, is shown with the class and the
\* selector of that method, whatever else the method's literals refer to, in
\* every memory the VM lays out as TrueAssumption says: the way from the code to
\* its name is no longer than the recursion goes (class_name_of_method).
THEOREM FramesAreNamed == TraceSpec => []NamesTrue
<1>1. TraceInit => NamedInv
  <2> SUFFICES ASSUME TraceInit
               PROVE  NamedInv
    OBVIOUS
  <2>1. visited = <<>> /\ memory \in MemoryIds /\ WalkInit
    BY DEF TraceInit, WalkInit
  <2>2. 1 .. Len(visited) = {}
    BY <2>1
  <2> QED
    BY <2>1, <2>2, WalkStarts DEF NamedInv, Mapped
<1>2. NamedInv /\ [TraceNext]_traceVars => NamedInv'
  <2> SUFFICES ASSUME NamedInv, [TraceNext]_traceVars
               PROVE  NamedInv'
    OBVIOUS
  <2>1. WalkInductive'
    BY WalkKeeps DEF NamedInv, TraceNext, Walk, ResolveNative, Stitch, traceVars
  <2>2. CASE WalkFrame
    BY <2>1, <2>2, MappedStays DEF NamedInv
  <2>3. CASE UNCHANGED walkVars
    BY <2>1, <2>3 DEF NamedInv, Mapped, Mem, walkVars
  <2> QED
    BY <2>2, <2>3 DEF TraceNext, Walk, ResolveNative, Stitch, traceVars
<1>3. NamedInv => NamesTrue
  BY NamesFollow
<1> QED
  BY <1>1, <1>2, <1>3, PTL DEF TraceSpec
=============================================================================
