--------------------------- MODULE RecordersProofs ---------------------------
(***************************************************************************)
(* Proofs about Recorders, for any threads, frames and command lines, and  *)
(* recordings of any length.  Three definitions are recursive: Replay,     *)
(* EnterAll and Unfinished; each is used by what it is of the empty        *)
(* sequence and of one with an element more.                               *)
(***************************************************************************)
EXTENDS Recorders, FiniteSetTheorems, FunctionTheorems, SequenceTheorems, WellFoundedInduction, TLAPS

-----------------------------------------------------------------------------
(***************************************************************************)
(* Induction.                                                              *)
(***************************************************************************)

\* A set of numbers has a least one.
LEMMA LeastNumber ==
  ASSUME NEW S \in SUBSET Nat, S # {}
  PROVE  \E m \in S : \A k \in S : m <= k
<1> DEFINE less == OpToRel(<, Nat)
<1>1. PICK m \in S : \A k \in S : <<k, m>> \notin less
  BY NatLessThanWellFounded, WFMin
<1>2. ASSUME NEW k \in S
      PROVE  ~ (k < m)
  <2>1. <<k, m>> \in less <=> k < m
    BY DEF OpToRel
  <2> QED
    BY <1>1, <2>1
<1> HIDE DEF less
<1> QED
  BY <1>2

\* A set of numbers that has 0, and the next number of each in it up to n, has
\* all numbers up to n.
LEMMA NumberInduction ==
  ASSUME NEW n \in Nat, NEW T, 0 \in T, \A k \in 0 .. n - 1 : k \in T => k + 1 \in T
  PROVE  \A k \in 0 .. n : k \in T
<1> DEFINE Out == {k \in 0 .. n : k \notin T}
<1> SUFFICES ASSUME Out # {}
             PROVE  FALSE
  OBVIOUS
<1>0. Out \in SUBSET Nat
  OBVIOUS
<1>1. PICK m \in Out : \A k \in Out : m <= k
  <2> HIDE DEF Out
  <2> QED
    BY <1>0, LeastNumber
<1>2. m \in 1 .. n /\ m - 1 \in 0 .. n - 1 /\ m - 1 \notin Out
  BY <1>1
<1> QED
  BY <1>2

\* A set of sequences that has the empty one, and each that is one longer than
\* one in it, has all sequences.
LEMMA SequenceInduction ==
  ASSUME NEW F, NEW T, <<>> \in T,
         \A s \in Seq(F), f \in F : s \in T => Append(s, f) \in T
  PROVE  \A s \in Seq(F) : s \in T
<1> DEFINE In == {k \in Nat : \A s \in Seq(F) : Len(s) = k => s \in T}
<1>1. 0 \in In
  BY EmptySeq
<1>2. ASSUME NEW k \in Nat, k \in In
      PROVE  k + 1 \in In
  <2> SUFFICES ASSUME NEW s \in Seq(F), Len(s) = k + 1
               PROVE  s \in T
    OBVIOUS
  <2> DEFINE r == SubSeq(s, 1, k)
  <2>1. s # <<>>
    OBVIOUS
  <2>2. r \in Seq(F) /\ Len(r) = k /\ s[k + 1] \in F
    OBVIOUS
  <2>3. s = Append(r, s[k + 1])
    OBVIOUS
  <2> HIDE DEF r
  <2> QED
    BY <1>2, <2>2, <2>3
<1>3. ASSUME NEW s \in Seq(F)
      PROVE  s \in T
  <2>1. Len(s) \in Nat
    OBVIOUS
  <2> HIDE DEF In
  <2>2. \A k \in 0 .. Len(s) - 1 : k \in In => k + 1 \in In
    BY <1>2, <2>1
  <2>3. \A k \in 0 .. Len(s) : k \in In
    BY <1>1, <2>1, <2>2, NumberInduction
  <2> QED
    BY <2>1, <2>3 DEF In
<1> QED
  BY <1>3

-----------------------------------------------------------------------------
(***************************************************************************)
(* The recursive definitions.                                              *)
(***************************************************************************)

\* g is the function by which Replay is defined, up to m.
IsReplay(g, s, open, t, m) ==
  g = [n \in 0 .. m |-> IF n = 0 THEN open ELSE Seen(g[n - 1], s[n], t)]

LEMMA ReplayStep ==
  ASSUME NEW g, NEW s, NEW open, NEW t, NEW m \in Nat, IsReplay(g, s, open, t, m), NEW k \in 1 .. m
  PROVE  g[0] = open /\ g[k] = Seen(g[k - 1], s[k], t)
<1> DEFINE r == [n \in 0 .. m |-> IF n = 0 THEN open ELSE Seen(g[n - 1], s[n], t)]
<1>1. g = r
  BY DEF IsReplay
<1>2. r[0] = open /\ r[k] = Seen(g[k - 1], s[k], t)
  OBVIOUS
<1> HIDE DEF r
<1> QED
  BY <1>1, <1>2

LEMMA ReplayExists ==
  ASSUME NEW s, NEW open, NEW t, NEW m \in Nat
  PROVE  \E g : IsReplay(g, s, open, t, m)
<1> DEFINE Upto == {k \in 0 .. m : \E g : IsReplay(g, s, open, t, k)}
<1>1. 0 \in Upto
  <2> DEFINE g == [n \in 0 .. 0 |-> open]
  <2>1. IsReplay(g, s, open, t, 0)
    BY DEF IsReplay
  <2> QED
    BY <2>1
<1>2. ASSUME NEW k \in 0 .. m - 1, k \in Upto
      PROVE  k + 1 \in Upto
  <2>1. PICK g : IsReplay(g, s, open, t, k)
    BY <1>2
  <2> DEFINE h == [n \in 0 .. k + 1 |-> IF n = k + 1 THEN Seen(g[k], s[k + 1], t) ELSE g[n]]
  <2>2. ASSUME NEW n \in 0 .. k + 1
        PROVE  h[n] = IF n = 0 THEN open ELSE Seen(h[n - 1], s[n], t)
    <3>1. n \in 0 .. k + 1 /\ k + 1 # 0 /\ k \in Nat
      OBVIOUS
    <3>2. CASE n = k + 1
      BY <3>1, <3>2
    <3>3. CASE n = 0
      <4>1. h[n] = g[n]
        BY <3>1, <3>3
      <4> QED
        BY <2>1, <3>3, <4>1 DEF IsReplay
    <3>4. CASE n \in 1 .. k
      <4>1. h[n] = g[n] /\ h[n - 1] = g[n - 1]
        BY <3>4
      <4> HIDE DEF h
      <4> QED
        BY <2>1, <3>1, <3>4, <4>1, ReplayStep
    <3> QED
      BY <3>2, <3>3, <3>4
  <2>3. h = [n \in 0 .. k + 1 |-> h[n]]
    OBVIOUS
  <2> HIDE DEF h
  <2>4. IsReplay(h, s, open, t, k + 1)
    BY <2>2, <2>3 DEF IsReplay
  <2> QED
    BY <2>4
<1> HIDE DEF Upto
<1>3. \A k \in 0 .. m : k \in Upto
  BY <1>1, <1>2, NumberInduction
<1> QED
  BY <1>3 DEF Upto

LEMMA ReplayUnfolds ==
  ASSUME NEW s, NEW open, NEW t, Len(s) \in Nat
  PROVE  \E g : IsReplay(g, s, open, t, Len(s)) /\ Replay(open, s, t) = g[Len(s)]
<1> DEFINE g == CHOOSE f : IsReplay(f, s, open, t, Len(s))
<1>1. IsReplay(g, s, open, t, Len(s))
  BY ReplayExists
<1>2. Replay(open, s, t) = g[Len(s)]
  BY DEF Replay, IsReplay
<1> QED
  BY <1>1, <1>2

\* What a thread's events leave open, event by event.
LEMMA ReplayOfEmpty ==
  ASSUME NEW open, NEW t
  PROVE  Replay(open, <<>>, t) = open
<1>1. Len(<<>>) = 0
  OBVIOUS
<1>2. PICK g : IsReplay(g, <<>>, open, t, 0) /\ Replay(open, <<>>, t) = g[0]
  BY <1>1, ReplayUnfolds
<1> QED
  BY <1>2 DEF IsReplay

LEMMA ReplayOfAppend ==
  ASSUME NEW F, NEW s \in Seq(F), NEW f \in F, NEW open, NEW t
  PROVE  Replay(open, Append(s, f), t) = Seen(Replay(open, s, t), f, t)
<1> DEFINE u == Append(s, f)
           m == Len(s)
<1>1. m \in Nat /\ Len(u) = m + 1 /\ u[m + 1] = f /\ \A i \in 1 .. m : u[i] = s[i]
  OBVIOUS
<1>2. PICK g : IsReplay(g, s, open, t, m) /\ Replay(open, s, t) = g[m]
  BY <1>1, ReplayUnfolds
<1> HIDE DEF u, m
<1>3. PICK h : IsReplay(h, u, open, t, m + 1) /\ Replay(open, u, t) = h[m + 1]
  BY <1>1, ReplayUnfolds
<1> DEFINE Same == {k \in 0 .. m : g[k] = h[k]}
<1>4. 0 \in Same
  BY <1>1, <1>2, <1>3 DEF IsReplay
<1>5. ASSUME NEW k \in 0 .. m - 1, k \in Same
      PROVE  k + 1 \in Same
  <2>1. k + 1 \in 1 .. m /\ s[k + 1] = u[k + 1] /\ (k + 1) - 1 = k
    BY <1>1
  <2>2. g[k + 1] = Seen(g[k], s[k + 1], t)
    BY <1>1, <1>2, <2>1, ReplayStep
  <2>3. h[k + 1] = Seen(h[k], u[k + 1], t)
    <3>1. k + 1 \in 1 .. m + 1 /\ m + 1 \in Nat
      BY <1>1
    <3> QED
      BY <1>3, <2>1, <3>1, ReplayStep
  <2> QED
    BY <1>5, <2>1, <2>2, <2>3
<1>6. m \in Same
  <2> HIDE DEF Same
  <2>1. \A k \in 0 .. m : k \in Same
    BY <1>1, <1>4, <1>5, NumberInduction
  <2> QED
    BY <1>1, <2>1
<1>7. h[m + 1] = Seen(h[m], u[m + 1], t)
  <2>1. m + 1 \in 1 .. m + 1 /\ m + 1 \in Nat /\ (m + 1) - 1 = m
    BY <1>1
  <2> QED
    BY <1>3, <2>1, ReplayStep
<1> QED
  BY <1>1, <1>2, <1>3, <1>6, <1>7 DEF u

\* Before the first frame of a trace.
NoneEntered == [frames |-> table.frames, index |-> table.index, indices |-> <<>>]

\* g is the function by which EnterAll is defined, up to m.
IsEntered(g, s, m) ==
  g = [n \in 0 .. m |-> IF n = 0 THEN NoneEntered ELSE Enter(g[n - 1], s[n])]

LEMMA EnterAllStep ==
  ASSUME NEW g, NEW s, NEW m \in Nat, IsEntered(g, s, m), NEW k \in 1 .. m
  PROVE  g[0] = NoneEntered /\ g[k] = Enter(g[k - 1], s[k])
<1> DEFINE r == [n \in 0 .. m |-> IF n = 0 THEN NoneEntered ELSE Enter(g[n - 1], s[n])]
<1>1. g = r
  BY DEF IsEntered
<1>2. r[0] = NoneEntered /\ r[k] = Enter(g[k - 1], s[k])
  OBVIOUS
<1> HIDE DEF r
<1> QED
  BY <1>1, <1>2

LEMMA EnterAllExists ==
  ASSUME NEW s, NEW m \in Nat
  PROVE  \E g : IsEntered(g, s, m)
<1> DEFINE Upto == {k \in 0 .. m : \E g : IsEntered(g, s, k)}
<1>1. 0 \in Upto
  <2> DEFINE g == [n \in 0 .. 0 |-> NoneEntered]
  <2>1. IsEntered(g, s, 0)
    BY DEF IsEntered
  <2> QED
    BY <2>1
<1>2. ASSUME NEW k \in 0 .. m - 1, k \in Upto
      PROVE  k + 1 \in Upto
  <2>1. PICK g : IsEntered(g, s, k)
    BY <1>2
  <2> DEFINE h == [n \in 0 .. k + 1 |-> IF n = k + 1 THEN Enter(g[k], s[k + 1]) ELSE g[n]]
  <2>2. ASSUME NEW n \in 0 .. k + 1
        PROVE  h[n] = IF n = 0 THEN NoneEntered ELSE Enter(h[n - 1], s[n])
    <3>1. n \in 0 .. k + 1 /\ k + 1 # 0 /\ k \in Nat
      OBVIOUS
    <3>2. CASE n = k + 1
      BY <3>1, <3>2
    <3>3. CASE n = 0
      <4>1. h[n] = g[n]
        BY <3>1, <3>3
      <4> QED
        BY <2>1, <3>3, <4>1 DEF IsEntered
    <3>4. CASE n \in 1 .. k
      <4>1. h[n] = g[n] /\ h[n - 1] = g[n - 1]
        BY <3>4
      <4> HIDE DEF h
      <4> QED
        BY <2>1, <3>1, <3>4, <4>1, EnterAllStep
    <3> QED
      BY <3>2, <3>3, <3>4
  <2>3. h = [n \in 0 .. k + 1 |-> h[n]]
    OBVIOUS
  <2> HIDE DEF h
  <2>4. IsEntered(h, s, k + 1)
    BY <2>2, <2>3 DEF IsEntered
  <2> QED
    BY <2>4
<1> HIDE DEF Upto
<1>3. \A k \in 0 .. m : k \in Upto
  BY <1>1, <1>2, NumberInduction
<1> QED
  BY <1>3 DEF Upto

LEMMA EnterAllUnfolds ==
  ASSUME NEW s, Len(s) \in Nat
  PROVE  \E g : IsEntered(g, s, Len(s)) /\ EnterAll(s) = g[Len(s)]
<1> DEFINE g == CHOOSE f : IsEntered(f, s, Len(s))
<1>1. IsEntered(g, s, Len(s))
  BY EnterAllExists
<1>2. EnterAll(s) = g[Len(s)]
  BY DEF EnterAll, IsEntered, NoneEntered
<1> QED
  BY <1>1, <1>2

\* Frames are entered one after the other.
LEMMA EnterAllOfEmpty ==
  EnterAll(<<>>) = NoneEntered
<1>1. Len(<<>>) = 0
  OBVIOUS
<1>2. PICK g : IsEntered(g, <<>>, 0) /\ EnterAll(<<>>) = g[0]
  BY <1>1, EnterAllUnfolds
<1> QED
  BY <1>2 DEF IsEntered

LEMMA EnterAllOfAppend ==
  ASSUME NEW F, NEW s \in Seq(F), NEW f \in F
  PROVE  EnterAll(Append(s, f)) = Enter(EnterAll(s), f)
<1> DEFINE u == Append(s, f)
           m == Len(s)
<1>1. m \in Nat /\ Len(u) = m + 1 /\ u[m + 1] = f /\ \A i \in 1 .. m : u[i] = s[i]
  OBVIOUS
<1>2. PICK g : IsEntered(g, s, m) /\ EnterAll(s) = g[m]
  BY <1>1, EnterAllUnfolds
<1> HIDE DEF u, m
<1>3. PICK h : IsEntered(h, u, m + 1) /\ EnterAll(u) = h[m + 1]
  BY <1>1, EnterAllUnfolds
<1> DEFINE Same == {k \in 0 .. m : g[k] = h[k]}
<1>4. 0 \in Same
  BY <1>1, <1>2, <1>3 DEF IsEntered
<1>5. ASSUME NEW k \in 0 .. m - 1, k \in Same
      PROVE  k + 1 \in Same
  <2>1. k + 1 \in 1 .. m /\ s[k + 1] = u[k + 1] /\ (k + 1) - 1 = k
    BY <1>1
  <2>2. g[k + 1] = Enter(g[k], s[k + 1])
    BY <1>1, <1>2, <2>1, EnterAllStep
  <2>3. h[k + 1] = Enter(h[k], u[k + 1])
    <3>1. k + 1 \in 1 .. m + 1 /\ m + 1 \in Nat
      BY <1>1
    <3> QED
      BY <1>3, <2>1, <3>1, EnterAllStep
  <2> QED
    BY <1>5, <2>1, <2>2, <2>3
<1>6. m \in Same
  <2> HIDE DEF Same
  <2>1. \A k \in 0 .. m : k \in Same
    BY <1>1, <1>4, <1>5, NumberInduction
  <2> QED
    BY <1>1, <2>1
<1>7. h[m + 1] = Enter(h[m], u[m + 1])
  <2>1. m + 1 \in 1 .. m + 1 /\ m + 1 \in Nat /\ (m + 1) - 1 = m
    BY <1>1
  <2> QED
    BY <1>3, <2>1, EnterAllStep
<1> QED
  BY <1>1, <1>2, <1>3, <1>6, <1>7 DEF u

\* The events up to those of one more thread.
AndEnds(evs, t) == evs \o Ends(t)

\* g is the function by which Unfinished is defined, up to m.
IsUnfinished(g, s, m) ==
  g = [n \in 0 .. m |-> IF n = 0 THEN <<>> ELSE AndEnds(g[n - 1], s[n])]

LEMMA UnfinishedStep ==
  ASSUME NEW g, NEW s, NEW m \in Nat, IsUnfinished(g, s, m), NEW k \in 1 .. m
  PROVE  g[0] = <<>> /\ g[k] = AndEnds(g[k - 1], s[k])
<1> DEFINE r == [n \in 0 .. m |-> IF n = 0 THEN <<>> ELSE AndEnds(g[n - 1], s[n])]
<1>1. g = r
  BY DEF IsUnfinished
<1>2. r[0] = <<>> /\ r[k] = AndEnds(g[k - 1], s[k])
  OBVIOUS
<1> HIDE DEF r
<1> QED
  BY <1>1, <1>2

LEMMA UnfinishedExists ==
  ASSUME NEW s, NEW m \in Nat
  PROVE  \E g : IsUnfinished(g, s, m)
<1> DEFINE Upto == {k \in 0 .. m : \E g : IsUnfinished(g, s, k)}
<1>1. 0 \in Upto
  <2> DEFINE g == [n \in 0 .. 0 |-> <<>>]
  <2>1. IsUnfinished(g, s, 0)
    BY DEF IsUnfinished
  <2> QED
    BY <2>1
<1>2. ASSUME NEW k \in 0 .. m - 1, k \in Upto
      PROVE  k + 1 \in Upto
  <2>1. PICK g : IsUnfinished(g, s, k)
    BY <1>2
  <2> DEFINE h == [n \in 0 .. k + 1 |-> IF n = k + 1 THEN AndEnds(g[k], s[k + 1]) ELSE g[n]]
  <2>2. ASSUME NEW n \in 0 .. k + 1
        PROVE  h[n] = IF n = 0 THEN <<>> ELSE AndEnds(h[n - 1], s[n])
    <3>1. n \in 0 .. k + 1 /\ k + 1 # 0 /\ k \in Nat
      OBVIOUS
    <3>2. CASE n = k + 1
      BY <3>1, <3>2
    <3>3. CASE n = 0
      <4>1. h[n] = g[n]
        BY <3>1, <3>3
      <4> QED
        BY <2>1, <3>3, <4>1 DEF IsUnfinished
    <3>4. CASE n \in 1 .. k
      <4>1. h[n] = g[n] /\ h[n - 1] = g[n - 1]
        BY <3>4
      <4> HIDE DEF h
      <4> QED
        BY <2>1, <3>1, <3>4, <4>1, UnfinishedStep
    <3> QED
      BY <3>2, <3>3, <3>4
  <2>3. h = [n \in 0 .. k + 1 |-> h[n]]
    OBVIOUS
  <2> HIDE DEF h
  <2>4. IsUnfinished(h, s, k + 1)
    BY <2>2, <2>3 DEF IsUnfinished
  <2> QED
    BY <2>4
<1> HIDE DEF Upto
<1>3. \A k \in 0 .. m : k \in Upto
  BY <1>1, <1>2, NumberInduction
<1> QED
  BY <1>3 DEF Upto

LEMMA UnfinishedUnfolds ==
  ASSUME NEW s, Len(s) \in Nat
  PROVE  \E g : IsUnfinished(g, s, Len(s)) /\ Unfinished(s) = g[Len(s)]
<1> DEFINE g == CHOOSE f : IsUnfinished(f, s, Len(s))
<1>1. IsUnfinished(g, s, Len(s))
  BY UnfinishedExists
<1>2. Unfinished(s) = g[Len(s)]
  BY DEF Unfinished, IsUnfinished, AndEnds
<1> QED
  BY <1>1, <1>2

\* The end events come thread by thread.
LEMMA UnfinishedOfEmpty ==
  Unfinished(<<>>) = <<>>
<1>1. Len(<<>>) = 0
  OBVIOUS
<1>2. PICK g : IsUnfinished(g, <<>>, 0) /\ Unfinished(<<>>) = g[0]
  BY <1>1, UnfinishedUnfolds
<1> QED
  BY <1>2 DEF IsUnfinished

LEMMA UnfinishedOfAppend ==
  ASSUME NEW F, NEW s \in Seq(F), NEW f \in F
  PROVE  Unfinished(Append(s, f)) = AndEnds(Unfinished(s), f)
<1> DEFINE u == Append(s, f)
           m == Len(s)
<1>1. m \in Nat /\ Len(u) = m + 1 /\ u[m + 1] = f /\ \A i \in 1 .. m : u[i] = s[i]
  OBVIOUS
<1>2. PICK g : IsUnfinished(g, s, m) /\ Unfinished(s) = g[m]
  BY <1>1, UnfinishedUnfolds
<1> HIDE DEF u, m
<1>3. PICK h : IsUnfinished(h, u, m + 1) /\ Unfinished(u) = h[m + 1]
  BY <1>1, UnfinishedUnfolds
<1> DEFINE Same == {k \in 0 .. m : g[k] = h[k]}
<1>4. 0 \in Same
  BY <1>1, <1>2, <1>3 DEF IsUnfinished
<1>5. ASSUME NEW k \in 0 .. m - 1, k \in Same
      PROVE  k + 1 \in Same
  <2>1. k + 1 \in 1 .. m /\ s[k + 1] = u[k + 1] /\ (k + 1) - 1 = k
    BY <1>1
  <2>2. g[k + 1] = AndEnds(g[k], s[k + 1])
    BY <1>1, <1>2, <2>1, UnfinishedStep
  <2>3. h[k + 1] = AndEnds(h[k], u[k + 1])
    <3>1. k + 1 \in 1 .. m + 1 /\ m + 1 \in Nat
      BY <1>1
    <3> QED
      BY <1>3, <2>1, <3>1, UnfinishedStep
  <2> QED
    BY <1>5, <2>1, <2>2, <2>3
<1>6. m \in Same
  <2> HIDE DEF Same
  <2>1. \A k \in 0 .. m : k \in Same
    BY <1>1, <1>4, <1>5, NumberInduction
  <2> QED
    BY <1>1, <2>1
<1>7. h[m + 1] = AndEnds(h[m], u[m + 1])
  <2>1. m + 1 \in 1 .. m + 1 /\ m + 1 \in Nat /\ (m + 1) - 1 = m
    BY <1>1
  <2> QED
    BY <1>3, <2>1, UnfinishedStep
<1> QED
  BY <1>1, <1>2, <1>3, <1>6, <1>7 DEF u

-----------------------------------------------------------------------------
(***************************************************************************)
(* Frames, as they are and as they are shown.                              *)
(***************************************************************************)
Names     == {frame.name : frame \in Frames} \cup Threads \cup UNION {Range(Chain[t]) : t \in Threads}
FileNames == {frame.filename : frame \in Frames} \cup {NoFile}
Modules   == {frame.module : frame \in Frames} \cup {NoModule}

AllFrames == [name : Names, filename : FileNames, module : Modules, line : Nat]

\* The line that is shown of a frame.
LineShown(f) == IF settings.lines THEN f.line ELSE 0

LEMMA FrameIs ==
  ASSUME NEW f \in AllFrames, NEW g \in AllFrames,
         f.name = g.name, f.filename = g.filename, f.module = g.module, f.line = g.line
  PROVE  f = g
<1>1. ASSUME NEW h \in AllFrames
      PROVE  h = [name |-> h.name, filename |-> h.filename, module |-> h.module, line |-> h.line]
  BY DEF AllFrames
<1>2. f = [name |-> f.name, filename |-> f.filename, module |-> f.module, line |-> f.line]
  BY <1>1
<1>3. g = [name |-> g.name, filename |-> g.filename, module |-> g.module, line |-> g.line]
  BY <1>1
<1> QED
  BY <1>2, <1>3

LEMMA MarkerIs ==
  ASSUME NEW name \in Names
  PROVE  Marker(name) \in AllFrames
BY DEF Marker, Frame, AllFrames, FileNames, Modules

\* What is shown of a frame, and what speedscope looks it up with.
LEMMA ShownIs ==
  ASSUME settings.lines \in BOOLEAN, NEW f \in AllFrames
  PROVE  /\ Shown(f) \in AllFrames
         /\ Shown(f).name = f.name /\ Shown(f).filename = f.filename
         /\ Shown(f).module = NoModule /\ Shown(f).line = LineShown(f)
<1>1. /\ f.name \in Names /\ f.filename \in FileNames /\ f.module \in Modules /\ f.line \in Nat
      /\ f = [name |-> f.name, filename |-> f.filename, module |-> f.module, line |-> f.line]
  BY DEF AllFrames
<1>2. LineShown(f) \in Nat /\ NoModule \in Modules
  BY <1>1 DEF LineShown, Modules
<1>3. Shown(f) = [name |-> f.name, filename |-> f.filename, module |-> NoModule, line |-> LineShown(f)]
  BY DEF Shown, LineShown, Frame
<1> QED
  BY <1>1, <1>2, <1>3 DEF AllFrames

LEMMA KeyIs ==
  ASSUME settings.lines \in BOOLEAN, NEW f \in AllFrames
  PROVE  /\ Key(f) \in AllFrames
         /\ Key(f).name = f.name /\ Key(f).filename = f.filename
         /\ Key(f).module = f.module /\ Key(f).line = LineShown(f)
<1>1. /\ f.name \in Names /\ f.filename \in FileNames /\ f.module \in Modules /\ f.line \in Nat
      /\ f = [name |-> f.name, filename |-> f.filename, module |-> f.module, line |-> f.line]
  BY DEF AllFrames
<1>2. LineShown(f) \in Nat
  BY <1>1 DEF LineShown
<1>3. Key(f) = [name |-> f.name, filename |-> f.filename, module |-> f.module, line |-> LineShown(f)]
  BY <1>1 DEF Key, LineShown
<1> QED
  BY <1>1, <1>2, <1>3 DEF AllFrames

\* The key of a frame tells what is shown of it and its module, and no more.
LEMMA KeyTells ==
  ASSUME settings.lines \in BOOLEAN, NEW f \in AllFrames, NEW g \in AllFrames
  PROVE  Key(f) = Key(g) <=> Shown(f) = Shown(g) /\ f.module = g.module
<1>1. /\ Key(f).name = f.name /\ Key(f).filename = f.filename
      /\ Key(f).module = f.module /\ Key(f).line = LineShown(f) /\ Key(f) \in AllFrames
  BY KeyIs
<1>2. /\ Key(g).name = g.name /\ Key(g).filename = g.filename
      /\ Key(g).module = g.module /\ Key(g).line = LineShown(g) /\ Key(g) \in AllFrames
  BY KeyIs
<1>3. /\ Shown(f).name = f.name /\ Shown(f).filename = f.filename
      /\ Shown(f).module = NoModule /\ Shown(f).line = LineShown(f) /\ Shown(f) \in AllFrames
  BY ShownIs
<1>4. /\ Shown(g).name = g.name /\ Shown(g).filename = g.filename
      /\ Shown(g).module = NoModule /\ Shown(g).line = LineShown(g) /\ Shown(g) \in AllFrames
  BY ShownIs
<1>5. ASSUME Key(f) = Key(g)
      PROVE  Shown(f) = Shown(g) /\ f.module = g.module
  <2>1. f.name = g.name /\ f.filename = g.filename /\ f.module = g.module /\ LineShown(f) = LineShown(g)
    BY <1>1, <1>2, <1>5
  <2> QED
    BY <1>3, <1>4, <2>1, FrameIs
<1>6. ASSUME Shown(f) = Shown(g), f.module = g.module
      PROVE  Key(f) = Key(g)
  <2>1. f.name = g.name /\ f.filename = g.filename /\ LineShown(f) = LineShown(g)
    BY <1>3, <1>4, <1>6
  <2> QED
    BY <1>1, <1>2, <1>6, <2>1, FrameIs
<1> QED
  BY <1>5, <1>6

LEMMA KeyShown ==
  ASSUME settings.lines \in BOOLEAN, NEW f \in AllFrames
  PROVE  Shown(Key(f)) = Shown(f)
<1>1. PICK k : k = Key(f)
  OBVIOUS
<1>2. k \in AllFrames /\ k.name = f.name /\ k.filename = f.filename /\ k.line = LineShown(f)
  BY <1>1, KeyIs
<1>3. /\ Shown(f).name = f.name /\ Shown(f).filename = f.filename
      /\ Shown(f).module = NoModule /\ Shown(f).line = LineShown(f) /\ Shown(f) \in AllFrames
  BY ShownIs
<1>4. /\ Shown(k).name = k.name /\ Shown(k).filename = k.filename
      /\ Shown(k).module = NoModule /\ Shown(k).line = LineShown(k) /\ Shown(k) \in AllFrames
  BY <1>2, ShownIs
<1>5. LineShown(k) = LineShown(f)
  BY <1>2 DEF LineShown
<1>6. Shown(k) = Shown(f)
  BY <1>2, <1>3, <1>4, <1>5, FrameIs
<1> QED
  BY <1>1, <1>6

\* Frames go on as one slice if they are shown alike.
LEMMA MergedIfShownAlike ==
  ASSUME settings.lines \in BOOLEAN, NEW f \in AllFrames, NEW g \in AllFrames
  PROVE  ShouldMergeFrames(f, g) <=> Shown(f) = Shown(g)
<1>1. /\ Shown(f).name = f.name /\ Shown(f).filename = f.filename
      /\ Shown(f).module = NoModule /\ Shown(f).line = LineShown(f) /\ Shown(f) \in AllFrames
  BY ShownIs
<1>2. /\ Shown(g).name = g.name /\ Shown(g).filename = g.filename
      /\ Shown(g).module = NoModule /\ Shown(g).line = LineShown(g) /\ Shown(g) \in AllFrames
  BY ShownIs
<1>3. LineShown(f) = LineShown(g) <=> (settings.lines => f.line = g.line)
  BY DEF LineShown
<1>4. ASSUME ShouldMergeFrames(f, g)
      PROVE  Shown(f) = Shown(g)
  <2>1. f.name = g.name /\ f.filename = g.filename /\ LineShown(f) = LineShown(g)
    BY <1>3, <1>4 DEF ShouldMergeFrames
  <2> QED
    BY <1>1, <1>2, <2>1, FrameIs
<1>5. ASSUME Shown(f) = Shown(g)
      PROVE  ShouldMergeFrames(f, g)
  <2>1. f.name = g.name /\ f.filename = g.filename /\ LineShown(f) = LineShown(g)
    BY <1>1, <1>2, <1>5
  <2> QED
    BY <1>3, <2>1 DEF ShouldMergeFrames
<1> QED
  BY <1>4, <1>5

\* A trace as it is shown, outermost first.
LEMMA StackIs ==
  ASSUME settings.lines \in BOOLEAN, NEW s \in Seq(AllFrames)
  PROVE  /\ ShownStack(s) \in Seq(AllFrames) /\ Len(ShownStack(s)) = Len(s)
         /\ \A i \in 1 .. Len(s) : ShownStack(s)[i] = Shown(s[(Len(s) - i) + 1])
<1>1. Len(s) \in Nat /\ DOMAIN s = 1 .. Len(s)
  OBVIOUS
<1>2. ASSUME NEW i \in 1 .. Len(s)
      PROVE  Reverse(s)[i] = s[(Len(s) - i) + 1] /\ s[(Len(s) - i) + 1] \in AllFrames
  <2>1. (Len(s) - i) + 1 \in 1 .. Len(s)
    BY <1>1
  <2> QED
    BY <2>1 DEF Reverse
<1>3. \A i \in 1 .. Len(s) : ShownStack(s)[i] = Shown(s[(Len(s) - i) + 1])
  BY <1>1, <1>2 DEF ShownStack
<1>4. \A i \in 1 .. Len(s) : ShownStack(s)[i] \in AllFrames
  BY <1>2, <1>3, ShownIs
<1>5. ShownStack(s) = [i \in 1 .. Len(s) |-> ShownStack(s)[i]]
  BY <1>1 DEF ShownStack
<1> QED
  BY <1>1, <1>3, <1>4, <1>5

\* One more frame at the outside is one before all others.
LEMMA StackOfAppend ==
  ASSUME settings.lines \in BOOLEAN, NEW s \in Seq(AllFrames), NEW f \in AllFrames
  PROVE  ShownStack(Append(s, f)) = <<Shown(f)>> \o ShownStack(s)
<1>1. PICK u : u = Append(s, f)
  OBVIOUS
<1>2. PICK n : n = Len(s)
  OBVIOUS
<1>3. /\ u \in Seq(AllFrames) /\ n \in Nat /\ Len(u) = n + 1 /\ u[n + 1] = f
      /\ \A i \in 1 .. n : u[i] = s[i]
  BY <1>1, <1>2
<1>4. PICK g : g = Shown(f)
  OBVIOUS
<1>5. PICK l : l = ShownStack(s)
  OBVIOUS
<1>6. PICK k : k = ShownStack(u)
  OBVIOUS
<1>7. /\ l \in Seq(AllFrames) /\ Len(l) = n
      /\ \A i \in 1 .. n : l[i] = Shown(s[(n - i) + 1])
  BY <1>2, <1>5, StackIs
<1>8. /\ k \in Seq(AllFrames) /\ Len(k) = n + 1
      /\ \A i \in 1 .. n + 1 : k[i] = Shown(u[((n + 1) - i) + 1])
  BY <1>3, <1>6, StackIs
<1>9. g \in AllFrames
  BY <1>4, ShownIs
<1>10. PICK r : r = <<g>> \o l
  OBVIOUS
<1>11. /\ r \in Seq(AllFrames) /\ Len(r) = n + 1 /\ r[1] = g
       /\ \A i \in 2 .. n + 1 : r[i] = l[i - 1]
  BY <1>3, <1>7, <1>9, <1>10
<1>12. ASSUME NEW i \in 1 .. n + 1
       PROVE  k[i] = r[i]
  <2>1. CASE i = 1
    <3>1. ((n + 1) - 1) + 1 = n + 1 /\ 1 \in 1 .. n + 1
      BY <1>3
    <3> QED
      BY <1>3, <1>4, <1>8, <1>11, <2>1, <3>1
  <2>2. CASE i \in 2 .. n + 1
    <3>1. /\ i - 1 \in 1 .. n /\ ((n + 1) - i) + 1 = (n - (i - 1)) + 1
          /\ (n - (i - 1)) + 1 \in 1 .. n
      BY <1>3, <2>2
    <3> QED
      BY <1>3, <1>7, <1>8, <1>11, <2>2, <3>1
  <2>3. i = 1 \/ i \in 2 .. n + 1
    BY <1>3
  <2> QED
    BY <2>1, <2>2, <2>3
<1>13. k = r
  BY <1>8, <1>11, <1>12, SeqEqual
<1> QED
  BY <1>1, <1>4, <1>5, <1>6, <1>10, <1>13

-----------------------------------------------------------------------------
(***************************************************************************)
(* The viewer of the events.                                               *)
(***************************************************************************)

\* An element more at the end, and taken away again.
LEMMA OneMore ==
  ASSUME NEW F, NEW s \in Seq(F), NEW f \in F
  PROVE  /\ Append(s, f) \in Seq(F) /\ Append(s, f) # <<>>
         /\ Last(Append(s, f)) = f /\ Front(Append(s, f)) = s
<1>1. PICK u, n : u = Append(s, f) /\ n = Len(s)
  OBVIOUS
<1>2. /\ u \in Seq(F) /\ u # <<>> /\ n \in Nat /\ Len(u) = n + 1 /\ u[n + 1] = f
      /\ \A i \in 1 .. n : u[i] = s[i]
  BY <1>1
<1>3. Last(u) = f
  BY <1>2 DEF Last
<1>4. Front(u) = SubSeq(u, 1, n)
  BY <1>2 DEF Front
<1>5. PICK v : v = SubSeq(u, 1, n)
  OBVIOUS
<1>6. v \in Seq(F) /\ Len(v) = n /\ \A i \in 1 .. n : v[i] = u[i]
  BY <1>2, <1>5
<1>7. \A i \in 1 .. n : v[i] = s[i]
  BY <1>2, <1>6
<1>8. v = s
  BY <1>1, <1>6, <1>7, SeqEqual
<1> QED
  BY <1>1, <1>2, <1>3, <1>4, <1>5, <1>8

LEMMA OneBetween ==
  ASSUME NEW F, NEW s \in Seq(F), NEW f \in F, NEW u \in Seq(F)
  PROVE  s \o (<<f>> \o u) = Append(s, f) \o u
<1>1. PICK o : o = <<f>>
  OBVIOUS
<1>2. o \in Seq(F)
  BY <1>1
<1>3. (s \o o) \o u = s \o (o \o u)
  BY <1>2, ConcatAssociative
<1>4. Append(s, f) = s \o o
  BY <1>1, AppendIsConcat
<1> QED
  BY <1>1, <1>3, <1>4

\* What is replayed after other events begins with what these leave open.
LEMMA ReplayConcat ==
  ASSUME NEW F, NEW u \in Seq(F), NEW v \in Seq(F), NEW open, NEW t
  PROVE  Replay(open, u \o v, t) = Replay(Replay(open, u, t), v, t)
<1> DEFINE T == {w \in Seq(F) : Replay(open, u \o w, t) = Replay(Replay(open, u, t), w, t)}
<1>1. <<>> \in T
  <2>1. <<>> \in Seq(F) /\ u \o <<>> = u
    OBVIOUS
  <2> QED
    BY <2>1, ReplayOfEmpty
<1>2. ASSUME NEW w \in Seq(F), NEW f \in F, w \in T
      PROVE  Append(w, f) \in T
  <2>1. Append(w, f) \in Seq(F) /\ u \o w \in Seq(F) /\ u \o Append(w, f) = Append(u \o w, f)
    OBVIOUS
  <2>2. Replay(open, Append(u \o w, f), t) = Seen(Replay(open, u \o w, t), f, t)
    <3>1. PICK x : x = u \o w
      OBVIOUS
    <3>2. x \in Seq(F)
      BY <2>1, <3>1
    <3>3. Replay(open, Append(x, f), t) = Seen(Replay(open, x, t), f, t)
      BY <3>2, ReplayOfAppend
    <3> QED
      BY <3>1, <3>3
  <2>3. Replay(Replay(open, u, t), Append(w, f), t) = Seen(Replay(Replay(open, u, t), w, t), f, t)
    BY ReplayOfAppend
  <2>4. Replay(open, u \o w, t) = Replay(Replay(open, u, t), w, t)
    BY <1>2
  <2> QED
    BY <2>1, <2>2, <2>3, <2>4
<1> HIDE DEF T
<1>3. v \in T
  BY <1>1, <1>2, SequenceInduction
<1> QED
  BY <1>3 DEF T

AllEvents == [tid : Threads, ph : {"B", "E"}, frame : AllFrames]

Event(t, ph, f) == [tid |-> t, ph |-> ph, frame |-> Shown(f)]

LEMMA EventsOfEmpty ==
  ASSUME NEW t, NEW ph
  PROVE  Events(t, ph, <<>>) = <<>>
BY DEF Events

LEMMA EventsOfAppend ==
  ASSUME NEW t \in Threads, NEW ph \in {"B", "E"}, settings.lines \in BOOLEAN,
         NEW s \in Seq(AllFrames), NEW f \in AllFrames
  PROVE  /\ Events(t, ph, s) \in Seq(AllEvents) /\ Event(t, ph, f) \in AllEvents
         /\ Len(Events(t, ph, s)) = Len(s)
         /\ Events(t, ph, Append(s, f)) = Append(Events(t, ph, s), Event(t, ph, f))
<1>1. ASSUME NEW g \in AllFrames
      PROVE  Event(t, ph, g) \in AllEvents
  BY ShownIs DEF Event, AllEvents
<1>2. PICK u : u = Append(s, f)
  OBVIOUS
<1>3. PICK n : n = Len(s)
  OBVIOUS
<1>4. /\ u \in Seq(AllFrames) /\ n \in Nat /\ Len(u) = n + 1 /\ u[n + 1] = f
      /\ DOMAIN s = 1 .. n /\ DOMAIN u = 1 .. n + 1
      /\ \A i \in 1 .. n : u[i] = s[i] /\ s[i] \in AllFrames
  BY <1>2, <1>3
<1>5. Events(t, ph, s) = [i \in 1 .. n |-> Event(t, ph, s[i])]
  BY <1>4 DEF Events, Event
<1>6. Events(t, ph, u) = [i \in 1 .. n + 1 |-> Event(t, ph, u[i])]
  BY <1>4 DEF Events, Event
<1>7. PICK e : e = Event(t, ph, f)
  OBVIOUS
<1>8. e \in AllEvents
  BY <1>1, <1>7
<1>9. PICK p : p = [i \in 1 .. n |-> Event(t, ph, s[i])]
  OBVIOUS
<1>10. PICK q : q = [i \in 1 .. n + 1 |-> Event(t, ph, u[i])]
  OBVIOUS
<1>11. p \in Seq(AllEvents) /\ Len(p) = n /\ \A i \in 1 .. n : p[i] = Event(t, ph, s[i])
  <2>1. \A i \in 1 .. n : Event(t, ph, s[i]) \in AllEvents
    BY <1>1, <1>4
  <2> QED
    BY <1>4, <1>9, <2>1
<1>12. q \in Seq(AllEvents) /\ Len(q) = n + 1 /\ \A i \in 1 .. n + 1 : q[i] = Event(t, ph, u[i])
  <2>1. \A i \in 1 .. n + 1 : Event(t, ph, u[i]) \in AllEvents
    <3>1. \A i \in 1 .. n + 1 : u[i] \in AllFrames
      BY <1>4
    <3> QED
      BY <1>1, <3>1
  <2> QED
    BY <1>4, <1>10, <2>1
<1>13. q = Append(p, e)
  <2>1. PICK r : r = Append(p, e)
    OBVIOUS
  <2>2. /\ r \in Seq(AllEvents) /\ Len(r) = n + 1 /\ r[n + 1] = e
        /\ \A i \in 1 .. n : r[i] = p[i]
    BY <1>4, <1>8, <1>11, <2>1
  <2>3. ASSUME NEW i \in 1 .. n + 1
        PROVE  q[i] = r[i]
    <3>1. CASE i = n + 1
      BY <1>4, <1>7, <1>12, <2>2, <3>1
    <3>2. CASE i \in 1 .. n
      BY <1>4, <1>11, <1>12, <2>2, <3>2
    <3>3. i = n + 1 \/ i \in 1 .. n
      BY <1>4
    <3> QED
      BY <3>1, <3>2, <3>3
  <2>4. q = r
    BY <1>12, <2>2, <2>3, SeqEqual
  <2> QED
    BY <2>1, <2>4
<1> QED
  BY <1>2, <1>3, <1>5, <1>6, <1>7, <1>8, <1>9, <1>10, <1>11, <1>13

\* The events of a trace are as many as its frames.
LEMMA EventsAre ==
  ASSUME NEW t \in Threads, NEW ph \in {"B", "E"}, settings.lines \in BOOLEAN,
         NEW s \in Seq(AllFrames)
  PROVE  /\ Events(t, ph, s) \in Seq(AllEvents)
         /\ Len(Events(t, ph, s)) = Len(s)
<1>1. PICK n : n = Len(s)
  OBVIOUS
<1>2. n \in Nat /\ DOMAIN s = 1 .. n /\ \A i \in 1 .. n : s[i] \in AllFrames
  BY <1>1
<1>3. \A i \in 1 .. n : Event(t, ph, s[i]) \in AllEvents
  BY <1>2, ShownIs DEF Event, AllEvents
<1>4. Events(t, ph, s) = [i \in 1 .. n |-> Event(t, ph, s[i])]
  BY <1>2 DEF Events, Event
<1> QED
  BY <1>1, <1>2, <1>3, <1>4

\* What the events of another thread leave open is what was.
LEMMA OthersPass ==
  ASSUME NEW o, NEW t, NEW ph, NEW s, NEW open, settings.lines \in BOOLEAN,
         o \in Threads, o # t, ph \in {"B", "E"}, s \in Seq(AllFrames)
  PROVE  Replay(open, Events(o, ph, s), t) = open
<1> DEFINE T == {w \in Seq(AllFrames) : Replay(open, Events(o, ph, w), t) = open}
<1>1. <<>> \in T
  BY EventsOfEmpty, ReplayOfEmpty
<1>2. ASSUME NEW w \in Seq(AllFrames), NEW f \in AllFrames, w \in T
      PROVE  Append(w, f) \in T
  <2>1. PICK evs, e : evs = Events(o, ph, w) /\ e = Event(o, ph, f)
    OBVIOUS
  <2>2. evs \in Seq(AllEvents) /\ e \in AllEvents /\ Events(o, ph, Append(w, f)) = Append(evs, e)
    BY <2>1, EventsOfAppend
  <2>3. Replay(open, Append(evs, e), t) = Seen(Replay(open, evs, t), e, t)
    BY <2>2, ReplayOfAppend
  <2>4. Seen(Replay(open, evs, t), e, t) = Replay(open, evs, t)
    BY <2>1 DEF Seen, Event
  <2>5. Replay(open, evs, t) = open
    BY <1>2, <2>1
  <2>6. Replay(open, Events(o, ph, Append(w, f)), t) = open
    BY <2>2, <2>3, <2>4, <2>5
  <2>7. Append(w, f) \in Seq(AllFrames)
    OBVIOUS
  <2> QED
    BY <2>6, <2>7
<1> HIDE DEF T
<1>3. s \in T
  BY <1>1, <1>2, SequenceInduction
<1> QED
  BY <1>3 DEF T

\* Begin events open their frames.
LEMMA BeginsOpen ==
  ASSUME NEW t \in Threads, settings.lines \in BOOLEAN,
         NEW s \in Seq(AllFrames), NEW open \in Seq(AllFrames)
  PROVE  Replay(open, Events(t, "B", s), t) = open \o [i \in 1 .. Len(s) |-> Shown(s[i])]
<1> DEFINE Sh(w) == [i \in 1 .. Len(w) |-> Shown(w[i])]
           T == {w \in Seq(AllFrames) : Replay(open, Events(t, "B", w), t) = open \o Sh(w)}
<1>1. <<>> \in T
  <2>1. Sh(<<>>) = <<>> /\ open \o <<>> = open /\ <<>> \in Seq(AllFrames)
    OBVIOUS
  <2> HIDE DEF Sh
  <2> QED
    BY <2>1, EventsOfEmpty, ReplayOfEmpty
<1>2. ASSUME NEW w \in Seq(AllFrames), NEW f \in AllFrames, w \in T
      PROVE  Append(w, f) \in T
  <2>1. PICK evs, e : evs = Events(t, "B", w) /\ e = Event(t, "B", f)
    OBVIOUS
  <2>2. evs \in Seq(AllEvents) /\ e \in AllEvents /\ Events(t, "B", Append(w, f)) = Append(evs, e)
    BY <2>1, EventsOfAppend
  <2>3. Replay(open, Append(evs, e), t) = Seen(Replay(open, evs, t), e, t)
    BY <2>2, ReplayOfAppend
  <2>4. Seen(Replay(open, evs, t), e, t) = Append(Replay(open, evs, t), Shown(f))
    BY <2>1 DEF Seen, Event, Apply
  <2>5. PICK g : g = Shown(f)
    OBVIOUS
  <2>6. g \in AllFrames
    BY <2>5, ShownIs
  <2>7. Sh(w) \in Seq(AllFrames) /\ Sh(Append(w, f)) = Append(Sh(w), g)
    <3>1. PICK n, u : n = Len(w) /\ u = Append(w, f)
      OBVIOUS
    <3>2. /\ u \in Seq(AllFrames) /\ n \in Nat /\ Len(u) = n + 1 /\ u[n + 1] = f
          /\ \A i \in 1 .. n : u[i] = w[i] /\ w[i] \in AllFrames
      BY <3>1
    <3>3. \A i \in 1 .. n : Shown(w[i]) \in AllFrames
      BY <3>2, ShownIs
    <3>4. Sh(w) \in Seq(AllFrames) /\ Len(Sh(w)) = n /\ \A i \in 1 .. n : Sh(w)[i] = Shown(w[i])
      BY <3>1, <3>2, <3>3
    <3>5. \A i \in 1 .. n + 1 : Shown(u[i]) \in AllFrames
      <4>1. \A i \in 1 .. n + 1 : u[i] \in AllFrames
        BY <3>2
      <4> QED
        BY <4>1, ShownIs
    <3>6. /\ Sh(u) \in Seq(AllFrames) /\ Len(Sh(u)) = n + 1
          /\ \A i \in 1 .. n + 1 : Sh(u)[i] = Shown(u[i])
      BY <3>2, <3>5
    <3> HIDE DEF Sh
    <3>7. PICK r : r = Append(Sh(w), g)
      OBVIOUS
    <3>8. /\ r \in Seq(AllFrames) /\ Len(r) = n + 1 /\ r[n + 1] = g
          /\ \A i \in 1 .. n : r[i] = Sh(w)[i]
      BY <2>6, <3>2, <3>4, <3>7
    <3>9. ASSUME NEW i \in 1 .. n + 1
          PROVE  Sh(u)[i] = r[i]
      <4>1. CASE i = n + 1
        BY <2>5, <3>2, <3>6, <3>8, <4>1
      <4>2. CASE i \in 1 .. n
        BY <3>2, <3>4, <3>6, <3>8, <4>2
      <4>3. i = n + 1 \/ i \in 1 .. n
        BY <3>2
      <4> QED
        BY <4>1, <4>2, <4>3
    <3>10. Sh(u) = r
      BY <3>6, <3>8, <3>9, SeqEqual
    <3> QED
      BY <3>1, <3>4, <3>7, <3>10
  <2>8. Replay(open, evs, t) = open \o Sh(w)
    BY <1>2, <2>1
  <2> HIDE DEF Sh
  <2>9. open \o Append(Sh(w), g) = Append(open \o Sh(w), g)
    BY <2>6, <2>7
  <2>10. Append(w, f) \in Seq(AllFrames)
    OBVIOUS
  <2>11. Replay(open, Events(t, "B", Append(w, f)), t) = open \o Sh(Append(w, f))
    BY <2>2, <2>3, <2>4, <2>5, <2>7, <2>8, <2>9
  <2> QED
    BY <2>10, <2>11
<1>3. s \in T
  <2> HIDE DEF T
  <2> QED
    BY <1>1, <1>2, SequenceInduction
<1> QED
  BY <1>3

\* The end events of a trace close its frames, innermost first.
LEMMA EndsClose ==
  ASSUME NEW t \in Threads, settings.lines \in BOOLEAN,
         NEW s \in Seq(AllFrames), NEW base \in Seq(AllFrames)
  PROVE  Replay(base \o ShownStack(s), Events(t, "E", s), t) = base
<1> DEFINE T == {w \in Seq(AllFrames) :
                  \A b \in Seq(AllFrames) : Replay(b \o ShownStack(w), Events(t, "E", w), t) = b}
<1>1. <<>> \in T
  <2>1. <<>> \in Seq(AllFrames) /\ Len(<<>>) = 0
    OBVIOUS
  <2>2. ShownStack(<<>>) \in Seq(AllFrames) /\ Len(ShownStack(<<>>)) = 0
    BY <2>1, StackIs
  <2>3. ShownStack(<<>>) = <<>>
    BY <2>2
  <2>4. \A b \in Seq(AllFrames) : b \o <<>> = b
    OBVIOUS
  <2> QED
    BY <2>1, <2>3, <2>4, EventsOfEmpty, ReplayOfEmpty
<1>2. ASSUME NEW w \in Seq(AllFrames), NEW f \in AllFrames, w \in T
      PROVE  Append(w, f) \in T
  <2>1. PICK evs, e : evs = Events(t, "E", w) /\ e = Event(t, "E", f)
    OBVIOUS
  <2>2. evs \in Seq(AllEvents) /\ e \in AllEvents /\ Events(t, "E", Append(w, f)) = Append(evs, e)
    BY <2>1, EventsOfAppend
  <2>3. PICK g, l : g = Shown(f) /\ l = ShownStack(w)
    OBVIOUS
  <2>4. g \in AllFrames
    BY <2>3, ShownIs
  <2>5. l \in Seq(AllFrames)
    BY <2>3, StackIs
  <2>6. ShownStack(Append(w, f)) = <<g>> \o l
    BY <2>3, StackOfAppend
  <2>7. Append(w, f) \in Seq(AllFrames)
    OBVIOUS
  <2>8. ASSUME NEW b \in Seq(AllFrames)
        PROVE  Replay(b \o ShownStack(Append(w, f)), Append(evs, e), t) = b
    <3>1. PICK c : c = Append(b, g)
      OBVIOUS
    <3>2. c \in Seq(AllFrames) /\ c # <<>> /\ Last(c) = g /\ Front(c) = b
      BY <2>4, <3>1, OneMore
    <3>3. b \o (<<g>> \o l) = c \o l
      BY <2>4, <2>5, <3>1, OneBetween
    <3>4. Replay(c \o l, evs, t) = c
      BY <1>2, <2>1, <2>3, <3>2
    <3>5. Replay(c \o l, Append(evs, e), t) = Seen(Replay(c \o l, evs, t), e, t)
      BY <2>2, ReplayOfAppend
    <3>6. Seen(c, e, t) = b
      <4>1. e.tid = t /\ e.ph = "E" /\ e.frame = g
        BY <2>1, <2>3 DEF Event
      <4>2. Apply(c, e) = b
        BY <3>2, <4>1 DEF Apply
      <4> QED
        BY <4>1, <4>2 DEF Seen
    <3> QED
      BY <2>6, <3>3, <3>4, <3>5, <3>6
  <2> QED
    BY <2>2, <2>7, <2>8
<1>3. s \in T
  <2> HIDE DEF T
  <2> QED
    BY <1>1, <1>2, SequenceInduction
<1> QED
  BY <1>3

-----------------------------------------------------------------------------
(***************************************************************************)
(* chrometrace.rs: what one increment does to the open slices.             *)
(***************************************************************************)

\* The smaller of two numbers, and the least of a set.
LEMMA MinIs ==
  ASSUME NEW S \in SUBSET Nat, S # {}
  PROVE  Min(S) \in S /\ \A k \in S : Min(S) <= k
<1>1. \E m \in S : \A k \in S : m <= k
  BY LeastNumber
<1> QED
  BY <1>1 DEF Min

\* A trace and the one before go on as they are shown alike, from the outside.
LEMMA NewIndexIs ==
  ASSUME settings.lines \in BOOLEAN, NEW p \in Seq(AllFrames), NEW s \in Seq(AllFrames)
  PROVE  /\ NewIndex(p, s) \in Nat /\ NewIndex(p, s) <= Len(p) /\ NewIndex(p, s) <= Len(s)
         /\ \A i \in 1 .. NewIndex(p, s) : ShownStack(p)[i] = ShownStack(s)[i]
         /\ \/ NewIndex(p, s) = Len(p) \/ NewIndex(p, s) = Len(s)
            \/ ShownStack(p)[NewIndex(p, s) + 1] # ShownStack(s)[NewIndex(p, s) + 1]
<1> DEFINE shorter == Min({Len(p), Len(s)})
           differing == {i \in 1 .. shorter : ~ ShouldMergeFrames(Reverse(p)[i], Reverse(s)[i])}
<1>1. shorter \in Nat /\ shorter <= Len(p) /\ shorter <= Len(s) /\ (shorter = Len(p) \/ shorter = Len(s))
  <2>1. {Len(p), Len(s)} \in SUBSET Nat /\ {Len(p), Len(s)} # {}
    OBVIOUS
  <2>2. /\ shorter \in {Len(p), Len(s)}
        /\ \A k \in {Len(p), Len(s)} : shorter <= k
    BY <2>1, MinIs
  <2> QED
    BY <2>1, <2>2
<1> HIDE DEF shorter
<1>2. ASSUME NEW i \in 1 .. shorter
      PROVE  ShouldMergeFrames(Reverse(p)[i], Reverse(s)[i]) <=> ShownStack(p)[i] = ShownStack(s)[i]
  <2>1. i \in 1 .. Len(p) /\ i \in 1 .. Len(s)
    BY <1>1
  <2>2. (Len(p) - i) + 1 \in 1 .. Len(p) /\ (Len(s) - i) + 1 \in 1 .. Len(s)
    BY <2>1
  <2>3. PICK f, g : f = p[(Len(p) - i) + 1] /\ g = s[(Len(s) - i) + 1]
    OBVIOUS
  <2>4. f \in AllFrames /\ g \in AllFrames
    BY <2>2, <2>3
  <2>5. Reverse(p)[i] = f /\ Reverse(s)[i] = g
    BY <2>1, <2>3 DEF Reverse
  <2>6. ShownStack(p)[i] = Shown(f)
    BY <2>1, <2>3, StackIs
  <2>7. ShownStack(s)[i] = Shown(g)
    BY <2>1, <2>3, StackIs
  <2> QED
    BY <2>4, <2>5, <2>6, <2>7, MergedIfShownAlike
<1>3. NewIndex(p, s) = IF differing = {} THEN shorter ELSE Min(differing) - 1
  BY DEF NewIndex, shorter
<1>4. CASE differing = {}
  <2>1. \A i \in 1 .. shorter : ShownStack(p)[i] = ShownStack(s)[i]
    BY <1>2, <1>4
  <2> QED
    BY <1>1, <1>3, <1>4, <2>1
<1>5. CASE differing # {}
  <2>1. differing \in SUBSET Nat
    BY <1>1
  <2>2. Min(differing) \in differing /\ \A k \in differing : Min(differing) <= k
    <3> HIDE DEF differing
    <3> QED
      BY <1>5, <2>1, MinIs
  <2>3. PICK m : m = Min(differing)
    OBVIOUS
  <2>4. m \in 1 .. shorter /\ m \in differing /\ \A i \in 1 .. shorter : i < m => i \notin differing
    <3>1. m \in differing /\ \A k \in differing : m <= k
      BY <2>2, <2>3
    <3>2. \A i \in 1 .. shorter : i \in differing => ~ (i < m)
      BY <1>1, <3>1
    <3> QED
      BY <3>1, <3>2
  <2>5. NewIndex(p, s) = m - 1
    BY <1>3, <1>5, <2>3
  <2>6. ShownStack(p)[m] # ShownStack(s)[m]
    BY <1>2, <2>4
  <2>7. \A i \in 1 .. m - 1 : ShownStack(p)[i] = ShownStack(s)[i]
    <3>1. \A i \in 1 .. m - 1 : i \in 1 .. shorter /\ i < m
      BY <1>1, <2>4
    <3> QED
      BY <1>2, <2>4, <3>1
  <2>8. m - 1 \in Nat /\ m - 1 <= Len(p) /\ m - 1 <= Len(s) /\ (m - 1) + 1 = m
    BY <1>1, <2>4
  <2> QED
    BY <2>5, <2>6, <2>7, <2>8
<1> QED
  BY <1>4, <1>5

\* The frames that do not go on, shown, are what follows those that do.
LEMMA InnerIs ==
  ASSUME settings.lines \in BOOLEAN, NEW p \in Seq(AllFrames), NEW k \in 0 .. Len(p)
  PROVE  /\ Inner(p, k) \in Seq(AllFrames) /\ Len(Inner(p, k)) = Len(p) - k
         /\ ShownStack(p) = SubSeq(ShownStack(p), 1, k) \o ShownStack(Inner(p, k))
<1>1. PICK n : n = Len(p)
  OBVIOUS
<1>2. n \in Nat /\ k \in 0 .. n /\ n - k \in Nat /\ \A i \in 1 .. n : p[i] \in AllFrames
  BY <1>1
<1>3. PICK q : q = Inner(p, k)
  OBVIOUS
<1>4. q \in Seq(AllFrames) /\ Len(q) = n - k /\ \A i \in 1 .. n - k : q[i] = p[i]
  BY <1>1, <1>2, <1>3 DEF Inner
<1>5. PICK l : l = ShownStack(p)
  OBVIOUS
<1>6. l \in Seq(AllFrames) /\ Len(l) = n /\ \A i \in 1 .. n : l[i] = Shown(p[(n - i) + 1])
  BY <1>1, <1>5, StackIs
<1>7. PICK h : h = ShownStack(q)
  OBVIOUS
<1>8. /\ h \in Seq(AllFrames) /\ Len(h) = n - k
      /\ \A i \in 1 .. n - k : h[i] = Shown(q[((n - k) - i) + 1])
  <2>1. PICK d : d = Len(q)
    OBVIOUS
  <2>2. h \in Seq(AllFrames) /\ Len(h) = d /\ \A i \in 1 .. d : h[i] = Shown(q[(d - i) + 1])
    BY <1>4, <1>7, <2>1, StackIs
  <2>3. d = n - k
    BY <1>4, <2>1
  <2> QED
    BY <2>2, <2>3
<1>9. \A i \in 1 .. n - k : h[i] = l[k + i]
  <2> SUFFICES ASSUME NEW i \in 1 .. n - k
               PROVE  h[i] = l[k + i]
    OBVIOUS
  <2>1. /\ ((n - k) - i) + 1 \in 1 .. n - k /\ k + i \in 1 .. n
        /\ (n - (k + i)) + 1 = ((n - k) - i) + 1
    BY <1>2
  <2> QED
    BY <1>4, <1>6, <1>8, <2>1
<1>10. PICK b : b = SubSeq(l, 1, k)
  OBVIOUS
<1>11. b \in Seq(AllFrames) /\ Len(b) = k /\ \A i \in 1 .. k : b[i] = l[i]
  BY <1>2, <1>6, <1>10
<1>12. PICK r : r = b \o h
  OBVIOUS
<1>13. /\ r \in Seq(AllFrames) /\ Len(r) = n
       /\ \A i \in 1 .. n : r[i] = IF i <= k THEN b[i] ELSE h[i - k]
  <2>1. h \in Seq(AllFrames) /\ Len(h) = n - k
    BY <1>8
  <2>2. k + (n - k) = n /\ k \in Nat
    BY <1>2
  <2>3. /\ r \in Seq(AllFrames) /\ Len(r) = Len(b) + Len(h)
        /\ \A i \in 1 .. Len(b) + Len(h) : r[i] = IF i <= Len(b) THEN b[i] ELSE h[i - Len(b)]
    BY <1>11, <1>12, <2>1, ConcatProperties
  <2> QED
    BY <1>11, <2>1, <2>2, <2>3
<1>14. ASSUME NEW i \in 1 .. n
       PROVE  r[i] = l[i]
  <2>1. CASE i <= k
    BY <1>2, <1>11, <1>13, <2>1
  <2>2. CASE ~ (i <= k)
    <3>1. i - k \in 1 .. n - k /\ k + (i - k) = i
      BY <1>2, <2>2
    <3> QED
      BY <1>9, <1>13, <2>2, <3>1
  <2> QED
    BY <2>1, <2>2
<1>15. r = l
  BY <1>6, <1>13, <1>14, SeqEqual
<1> QED
  BY <1>1, <1>3, <1>4, <1>5, <1>7, <1>10, <1>12, <1>15

\* Begun from the outside to the inside, a trace is shown.
LEMMA BegunReversed ==
  ASSUME NEW t \in Threads, settings.lines \in BOOLEAN,
         NEW s \in Seq(AllFrames), NEW open \in Seq(AllFrames)
  PROVE  /\ Reverse(s) \in Seq(AllFrames) /\ Len(Reverse(s)) = Len(s)
         /\ Replay(open, Events(t, "B", Reverse(s)), t) = open \o ShownStack(s)
<1>1. PICK n, r : n = Len(s) /\ r = Reverse(s)
  OBVIOUS
<1>2. /\ n \in Nat /\ DOMAIN s = 1 .. n /\ r = [i \in 1 .. n |-> s[(n - i) + 1]]
      /\ \A i \in 1 .. n : (n - i) + 1 \in 1 .. n
  BY <1>1 DEF Reverse
<1>3. r \in Seq(AllFrames) /\ Len(r) = n
  BY <1>2
<1>4. Replay(open, Events(t, "B", r), t) = open \o [i \in 1 .. Len(r) |-> Shown(r[i])]
  BY <1>3, BeginsOpen
<1>5. ShownStack(s) = [i \in 1 .. Len(r) |-> Shown(r[i])]
  BY <1>1, <1>2, <1>3 DEF ShownStack
<1> QED
  BY <1>1, <1>3, <1>4, <1>5

\* The events of one increment close what does not go on, and open the rest.
EndEvents(t, p, s)   == Events(t, "E", Inner(p, NewIndex(p, s)))
BeginEvents(t, p, s) == Events(t, "B", Reverse(Inner(s, NewIndex(p, s))))

LEMMA IncrementShows ==
  ASSUME NEW t \in Threads, settings.lines \in BOOLEAN,
         NEW p \in Seq(AllFrames), NEW s \in Seq(AllFrames)
  PROVE  /\ EndEvents(t, p, s) \in Seq(AllEvents) /\ BeginEvents(t, p, s) \in Seq(AllEvents)
         /\ Len(EndEvents(t, p, s)) = Len(p) - NewIndex(p, s)
         /\ Len(BeginEvents(t, p, s)) = Len(s) - NewIndex(p, s)
         /\ Replay(Replay(ShownStack(p), EndEvents(t, p, s), t), BeginEvents(t, p, s), t) = ShownStack(s)
<1>1. PICK k : k = NewIndex(p, s)
  OBVIOUS
<1>2. k \in 0 .. Len(p) /\ k \in 0 .. Len(s) /\ \A i \in 1 .. k : ShownStack(p)[i] = ShownStack(s)[i]
  BY <1>1, NewIndexIs
<1>3. PICK q, r : q = Inner(p, k) /\ r = Inner(s, k)
  OBVIOUS
<1>4. /\ q \in Seq(AllFrames) /\ Len(q) = Len(p) - k
      /\ ShownStack(p) = SubSeq(ShownStack(p), 1, k) \o ShownStack(q)
  BY <1>2, <1>3, InnerIs
<1>5. /\ r \in Seq(AllFrames) /\ Len(r) = Len(s) - k
      /\ ShownStack(s) = SubSeq(ShownStack(s), 1, k) \o ShownStack(r)
  BY <1>2, <1>3, InnerIs
<1>6. PICK b : b = SubSeq(ShownStack(p), 1, k)
  OBVIOUS
<1>7. b \in Seq(AllFrames) /\ b = SubSeq(ShownStack(s), 1, k)
  <2>1. PICK l, m : l = ShownStack(p) /\ m = ShownStack(s)
    OBVIOUS
  <2>2. l \in Seq(AllFrames) /\ Len(l) = Len(p)
    BY <2>1, StackIs
  <2>3. m \in Seq(AllFrames) /\ Len(m) = Len(s)
    BY <2>1, StackIs
  <2>4. PICK c : c = SubSeq(m, 1, k)
    OBVIOUS
  <2>5. c \in Seq(AllFrames) /\ Len(c) = k /\ \A i \in 1 .. k : c[i] = m[i]
    BY <1>2, <2>3, <2>4
  <2>6. b \in Seq(AllFrames) /\ Len(b) = k /\ \A i \in 1 .. k : b[i] = l[i]
    BY <1>2, <1>6, <2>1, <2>2
  <2>7. \A i \in 1 .. k : b[i] = c[i]
    BY <1>2, <2>1, <2>5, <2>6
  <2>8. b = c
    BY <2>5, <2>6, <2>7, SeqEqual
  <2> QED
    BY <2>1, <2>4, <2>6, <2>8
<1>8. Replay(b \o ShownStack(q), Events(t, "E", q), t) = b
  BY <1>4, <1>7, EndsClose
<1>9. /\ Reverse(r) \in Seq(AllFrames) /\ Len(Reverse(r)) = Len(r)
      /\ Replay(b, Events(t, "B", Reverse(r)), t) = b \o ShownStack(r)
  BY <1>5, <1>7, BegunReversed
<1>10. Events(t, "E", q) \in Seq(AllEvents) /\ Len(Events(t, "E", q)) = Len(q)
  BY <1>4, EventsAre
<1>11. Events(t, "B", Reverse(r)) \in Seq(AllEvents) /\ Len(Events(t, "B", Reverse(r))) = Len(Reverse(r))
  BY <1>9, EventsAre
<1>12. /\ EndEvents(t, p, s) = Events(t, "E", q)
       /\ BeginEvents(t, p, s) = Events(t, "B", Reverse(r))
  BY <1>1, <1>3 DEF EndEvents, BeginEvents
<1>13. ShownStack(p) = b \o ShownStack(q) /\ ShownStack(s) = b \o ShownStack(r)
  BY <1>4, <1>5, <1>6, <1>7
<1> QED
  BY <1>1, <1>4, <1>5, <1>8, <1>9, <1>10, <1>11, <1>12, <1>13

\* Two sequences that are alike up to k and no further have that in common.
LEMMA CommonIs ==
  ASSUME NEW F, NEW a \in Seq(F), NEW b \in Seq(F), NEW k \in Nat, k <= Len(a), k <= Len(b),
         \A i \in 1 .. k : a[i] = b[i],
         k = Len(a) \/ k = Len(b) \/ a[k + 1] # b[k + 1]
  PROVE  Len(LongestCommonPrefix({a, b})) = k
<1> DEFINE C == CommonPrefixes({a, b})
<1>1. PICK p : p = SubSeq(a, 1, k)
  OBVIOUS
<1>2. p \in Seq(F) /\ Len(p) = k /\ \A i \in 1 .. k : p[i] = a[i]
  BY <1>1
<1>3. p \in C
  <2>1. p \in Prefixes(a)
    BY <1>1 DEF Prefixes
  <2>2. ASSUME NEW c \in Seq(F), k <= Len(c), \A i \in 1 .. k : c[i] = a[i]
        PROVE  IsPrefix(p, c)
    <3>1. PICK d : d = SubSeq(c, 1, k)
      OBVIOUS
    <3>2. d \in Seq(F) /\ Len(d) = k /\ \A i \in 1 .. k : d[i] = c[i]
      BY <2>2, <3>1
    <3>3. \A i \in 1 .. k : d[i] = p[i]
      BY <1>2, <2>2, <3>2
    <3>4. d = p
      BY <1>2, <3>2, <3>3, SeqEqual
    <3>5. SubSeq(p, 1, Len(p)) = p
      BY <1>2, SubSeqFull
    <3> QED
      BY <1>2, <2>2, <3>1, <3>4, <3>5 DEF IsPrefix
  <2>3. IsPrefix(p, a) /\ IsPrefix(p, b)
    BY <2>2
  <2> QED
    BY <2>1, <2>3 DEF CommonPrefixes
<1>4. ASSUME NEW c \in C
      PROVE  Len(c) \in Nat /\ Len(c) <= k
  <2>1. (c \in Prefixes(a) \/ c \in Prefixes(b)) /\ IsPrefix(c, a) /\ IsPrefix(c, b)
    BY <1>4 DEF CommonPrefixes
  <2>2. ASSUME NEW d \in Seq(F), c \in Prefixes(d)
        PROVE  c \in Seq(F)
    <3>1. PICK j \in 0 .. Len(d) : c = SubSeq(d, 1, j)
      BY <2>2 DEF Prefixes
    <3> QED
      BY <3>1
  <2>3. c \in Seq(F)
    BY <2>1, <2>2
  <2>4. PICK n : n = Len(c)
    OBVIOUS
  <2>5. n \in Nat /\ n <= Len(a) /\ n <= Len(b) /\ SubSeq(a, 1, n) = SubSeq(b, 1, n)
    BY <2>1, <2>3, <2>4 DEF IsPrefix
  <2>6. \A i \in 1 .. n : a[i] = b[i]
    <3>1. PICK u, v : u = SubSeq(a, 1, n) /\ v = SubSeq(b, 1, n)
      OBVIOUS
    <3>2. \A i \in 1 .. n : u[i] = a[i]
      BY <2>5, <3>1
    <3>3. \A i \in 1 .. n : v[i] = b[i]
      BY <2>5, <3>1
    <3> QED
      BY <2>5, <3>1, <3>2, <3>3
  <2>7. n <= k
    <3> SUFFICES ASSUME ~ (n <= k)
                 PROVE  FALSE
      BY <2>5
    <3>1. k + 1 \in 1 .. n /\ k # Len(a) /\ k # Len(b)
      BY <2>5
    <3> QED
      BY <2>6, <3>1
  <2> QED
    BY <2>4, <2>5, <2>7
<1> HIDE DEF C
<1>5. \E c \in C : \A d \in C : Len(d) <= Len(c)
  BY <1>2, <1>3, <1>4
<1>6. PICK c : c = LongestCommonPrefix({a, b})
  OBVIOUS
<1>7. c \in C /\ \A d \in C : Len(d) <= Len(c)
  <2>1. c = CHOOSE e \in C : \A d \in C : Len(d) <= Len(e)
    BY <1>6 DEF LongestCommonPrefix, C
  <2> QED
    BY <1>5, <2>1
<1>8. Len(c) \in Nat /\ Len(c) <= k /\ k <= Len(c)
  BY <1>2, <1>3, <1>4, <1>7
<1> QED
  BY <1>6, <1>8

-----------------------------------------------------------------------------
(***************************************************************************)
(* speedscope.rs: the table of frames, and what is looked up in it.        *)
(***************************************************************************)

\* The index gives each key the place of an entry of its own, which shows it, and
\* every entry has a key.
TableOK(fr, ix) ==
  /\ fr \in Seq(AllFrames)
  /\ \A k \in DOMAIN ix : ix[k] \in 0 .. Len(fr) - 1 /\ fr[ix[k] + 1] = Shown(k)
  /\ \A i \in 1 .. Len(fr) : \E k \in DOMAIN ix : ix[k] = i - 1
  /\ \A k, l \in DOMAIN ix : ix[k] = ix[l] => k = l

\* A table keeps what it has.
Grown(gr, fr) == Len(fr) <= Len(gr) /\ \A i \in 1 .. Len(fr) : gr[i] = fr[i]

\* The indices is stand for the frames of s.
Stand(fr, is, s) ==
  /\ is \in Seq(Nat) /\ Len(is) = Len(s)
  /\ \A i \in 1 .. Len(s) : is[i] < Len(fr) /\ fr[is[i] + 1] = Shown(s[i])

Found(fr, ix, is) == [frames |-> fr, index |-> ix, indices |-> is]

LEMMA FoundIs ==
  ASSUME NEW fr, NEW ix, NEW is
  PROVE  /\ Found(fr, ix, is).frames = fr /\ Found(fr, ix, is).index = ix
         /\ Found(fr, ix, is).indices = is
         /\ [Found(fr, ix, is) EXCEPT !.indices = Append(@, ix)] = Found(fr, ix, Append(is, ix))
BY DEF Found

\* What entering one frame does.
LEMMA EnterIs ==
  ASSUME settings.lines \in BOOLEAN, NEW f \in AllFrames, NEW fr, NEW ix, NEW is
  PROVE  Enter(Found(fr, ix, is), f) =
           IF Key(f) \in DOMAIN ix THEN Found(fr, ix, Append(is, ix[Key(f)]))
           ELSE Found(Append(fr, Shown(f)), Insert(ix, Key(f), Len(fr)), Append(is, Len(fr)))
<1>1. PICK key : key = Key(f)
  OBVIOUS
<1>2. PICK found : found = Found(fr, ix, is)
  OBVIOUS
<1>3. found.frames = fr /\ found.index = ix /\ found.indices = is
  BY <1>2, FoundIs
<1>4. PICK n : n = ix[key]
  OBVIOUS
<1>5. [found EXCEPT !.indices = Append(@, n)] = Found(fr, ix, Append(is, n))
  BY <1>2 DEF Found
<1> QED
  BY <1>1, <1>2, <1>3, <1>4, <1>5 DEF Enter, Found

\* A table with one more frame.
LEMMA TableGrows ==
  ASSUME settings.lines \in BOOLEAN, NEW fr, NEW ix, TableOK(fr, ix),
         NEW f \in AllFrames, Key(f) \notin DOMAIN ix
  PROVE  /\ TableOK(Append(fr, Shown(f)), Insert(ix, Key(f), Len(fr)))
         /\ Grown(Append(fr, Shown(f)), fr)
<1>1. PICK n, g, key : n = Len(fr) /\ g = Shown(f) /\ key = Key(f)
  OBVIOUS
<1>2. PICK gr : gr = Append(fr, g)
  OBVIOUS
<1>3. fr \in Seq(AllFrames) /\ g \in AllFrames /\ Shown(key) = g /\ key \notin DOMAIN ix
  BY <1>1, ShownIs, KeyShown DEF TableOK
<1>4. n \in Nat /\ \A i \in 1 .. n : \E k \in DOMAIN ix : ix[k] = i - 1
  BY <1>1, <1>3 DEF TableOK
<1>5. \A k \in DOMAIN ix : ix[k] \in 0 .. n - 1 /\ fr[ix[k] + 1] = Shown(k)
  BY <1>1 DEF TableOK
<1>6. gr \in Seq(AllFrames) /\ Len(gr) = n + 1 /\ gr[n + 1] = g /\ \A i \in 1 .. n : gr[i] = fr[i]
  BY <1>1, <1>2, <1>3
<1>7. PICK jx : jx = Insert(ix, key, n)
  OBVIOUS
<1>8. /\ DOMAIN jx = DOMAIN ix \cup {key} /\ jx[key] = n
      /\ \A k \in DOMAIN ix : jx[k] = ix[k]
  <2>1. DOMAIN jx = DOMAIN ix \cup {key}
    BY <1>7 DEF Insert
  <2>2. jx[key] = n
    BY <1>7 DEF Insert
  <2>3. ASSUME NEW k \in DOMAIN ix
        PROVE  jx[k] = ix[k]
    <3>1. k # key
      BY <1>3
    <3> QED
      BY <1>7, <3>1 DEF Insert
  <2> QED
    BY <2>1, <2>2, <2>3
<1>9. ASSUME NEW i \in 1 .. n + 1
      PROVE  \E k \in DOMAIN jx : jx[k] = i - 1
  <2>1. CASE i = n + 1
    <3>1. jx[key] = i - 1
      BY <1>4, <1>8, <2>1
    <3> QED
      BY <1>8, <3>1
  <2>2. CASE i \in 1 .. n
    <3>1. PICK k \in DOMAIN ix : ix[k] = i - 1
      BY <1>4, <2>2
    <3> QED
      BY <1>8, <3>1
  <2>3. i = n + 1 \/ i \in 1 .. n
    BY <1>4
  <2> QED
    BY <2>1, <2>2, <2>3
<1>10. ASSUME NEW k \in DOMAIN jx
       PROVE  jx[k] \in 0 .. (n + 1) - 1 /\ gr[jx[k] + 1] = Shown(k)
  <2>1. CASE k = key
    BY <1>3, <1>4, <1>6, <1>8, <2>1
  <2>2. CASE k \in DOMAIN ix
    <3>1. PICK i : i = ix[k]
      OBVIOUS
    <3>2. i \in 0 .. n - 1 /\ fr[i + 1] = Shown(k) /\ i + 1 \in 1 .. n
      BY <1>4, <1>5, <2>2, <3>1
    <3> QED
      BY <1>4, <1>6, <1>8, <2>2, <3>1, <3>2
  <2> QED
    BY <1>8, <2>1, <2>2
<1>11. ASSUME NEW k \in DOMAIN jx, NEW l \in DOMAIN jx, jx[k] = jx[l]
       PROVE  k = l
  <2>1. \A m \in DOMAIN ix : jx[m] # n
    <3> SUFFICES ASSUME NEW m \in DOMAIN ix
                 PROVE  jx[m] # n
      OBVIOUS
    <3>1. ix[m] \in 0 .. n - 1
      BY <1>5
    <3> QED
      BY <1>4, <1>8, <3>1
  <2>2. CASE k = key \/ l = key
    BY <1>8, <1>11, <2>1, <2>2
  <2>3. CASE k \in DOMAIN ix /\ l \in DOMAIN ix
    <3>1. ix[k] = ix[l]
      BY <1>8, <1>11, <2>3
    <3> QED
      BY <2>3, <3>1 DEF TableOK
  <2> QED
    BY <1>8, <2>2, <2>3
<1>12. TableOK(gr, jx)
  BY <1>6, <1>9, <1>10, <1>11 DEF TableOK
<1>13. Grown(gr, fr)
  BY <1>1, <1>4, <1>6 DEF Grown
<1> QED
  BY <1>1, <1>2, <1>7, <1>8, <1>12, <1>13

\* Indices go on to stand for the same frames, and a new one for one more.
LEMMA StandStill ==
  ASSUME NEW fr \in Seq(AllFrames), NEW gr \in Seq(AllFrames), Grown(gr, fr),
         NEW is, NEW s \in Seq(AllFrames), Stand(fr, is, s)
  PROVE  Stand(gr, is, s)
<1> SUFFICES ASSUME NEW i \in 1 .. Len(s)
             PROVE  is[i] < Len(gr) /\ gr[is[i] + 1] = Shown(s[i])
  BY DEF Stand
<1>1. is \in Seq(Nat) /\ Len(is) = Len(s) /\ is[i] < Len(fr) /\ fr[is[i] + 1] = Shown(s[i])
  BY DEF Stand
<1>2. PICK k : k = is[i]
  OBVIOUS
<1>3. k \in Nat /\ k < Len(fr)
  BY <1>1, <1>2
<1>4. k + 1 \in 1 .. Len(fr) /\ k < Len(gr)
  BY <1>3 DEF Grown
<1> QED
  BY <1>1, <1>2, <1>4 DEF Grown

LEMMA StandMore ==
  ASSUME NEW fr \in Seq(AllFrames), NEW is, NEW s \in Seq(AllFrames), Stand(fr, is, s),
         NEW f \in AllFrames, NEW k \in Nat, k < Len(fr), fr[k + 1] = Shown(f)
  PROVE  Stand(fr, Append(is, k), Append(s, f))
<1>1. PICK n, u, js : n = Len(s) /\ u = Append(s, f) /\ js = Append(is, k)
  OBVIOUS
<1>2. /\ is \in Seq(Nat) /\ Len(is) = n /\ n \in Nat
      /\ \A i \in 1 .. n : is[i] < Len(fr) /\ fr[is[i] + 1] = Shown(s[i])
  BY <1>1 DEF Stand
<1>3. /\ Len(u) = n + 1 /\ u[n + 1] = f /\ \A i \in 1 .. n : u[i] = s[i]
  BY <1>1, <1>2
<1>4. js \in Seq(Nat) /\ Len(js) = n + 1 /\ js[n + 1] = k /\ \A i \in 1 .. n : js[i] = is[i]
  BY <1>1, <1>2
<1>5. ASSUME NEW i \in 1 .. n + 1
      PROVE  js[i] < Len(fr) /\ fr[js[i] + 1] = Shown(u[i])
  <2>1. CASE i = n + 1
    BY <1>3, <1>4, <2>1
  <2>2. CASE i \in 1 .. n
    BY <1>2, <1>3, <1>4, <2>2
  <2>3. i = n + 1 \/ i \in 1 .. n
    BY <1>2
  <2> QED
    BY <2>1, <2>2, <2>3
<1> QED
  BY <1>1, <1>3, <1>4, <1>5 DEF Stand

\* The keys of the frames of a trace.
KeysOf(s) == {Key(s[i]) : i \in DOMAIN s}

LEMMA KeysOfAppend ==
  ASSUME NEW s \in Seq(AllFrames), NEW f \in AllFrames
  PROVE  KeysOf(Append(s, f)) = KeysOf(s) \cup {Key(f)}
<1>1. PICK n, u : n = Len(s) /\ u = Append(s, f)
  OBVIOUS
<1>2. /\ n \in Nat /\ DOMAIN s = 1 .. n /\ DOMAIN u = 1 .. n + 1 /\ u[n + 1] = f
      /\ \A i \in 1 .. n : u[i] = s[i]
  BY <1>1
<1>3. \A i \in 1 .. n + 1 : i = n + 1 \/ i \in 1 .. n
  BY <1>2
<1>4. \A i \in 1 .. n : i \in 1 .. n + 1
  BY <1>2
<1>5. n + 1 \in 1 .. n + 1
  BY <1>2
<1>6. KeysOf(u) \subseteq KeysOf(s) \cup {Key(f)}
  BY <1>2, <1>3 DEF KeysOf
<1>7. KeysOf(s) \cup {Key(f)} \subseteq KeysOf(u)
  BY <1>2, <1>4, <1>5 DEF KeysOf
<1> QED
  BY <1>1, <1>6, <1>7

\* Frames that are entered one by one.
Entered(fr, ix, is, s) ==
  /\ TableOK(fr, ix) /\ Grown(fr, table.frames) /\ Stand(fr, is, s)
  /\ DOMAIN ix = DOMAIN table.index \cup KeysOf(s)

LEMMA EnterKeeps ==
  ASSUME settings.lines \in BOOLEAN, TableOK(table.frames, table.index),
         NEW fr, NEW ix, NEW is, NEW s \in Seq(AllFrames), Entered(fr, ix, is, s),
         NEW f \in AllFrames
  PROVE  \E gr, jx, js : /\ Enter(Found(fr, ix, is), f) = Found(gr, jx, js)
                         /\ Entered(gr, jx, js, Append(s, f))
<1>1. /\ TableOK(fr, ix) /\ Grown(fr, table.frames) /\ Stand(fr, is, s)
      /\ DOMAIN ix = DOMAIN table.index \cup KeysOf(s)
  BY DEF Entered
<1>2. fr \in Seq(AllFrames)
  BY <1>1 DEF TableOK
<1>3. PICK g, key : g = Shown(f) /\ key = Key(f)
  OBVIOUS
<1>4. g \in AllFrames /\ Shown(key) = g
  BY <1>3, ShownIs, KeyShown
<1>5. PICK u : u = Append(s, f)
  OBVIOUS
<1>6. KeysOf(u) = KeysOf(s) \cup {key}
  BY <1>3, <1>5, KeysOfAppend
<1>7. CASE key \in DOMAIN ix
  <2>1. PICK k : k = ix[key]
    OBVIOUS
  <2>2. k \in 0 .. Len(fr) - 1 /\ fr[k + 1] = g
    BY <1>1, <1>4, <1>7, <2>1 DEF TableOK
  <2>3. k \in Nat /\ k < Len(fr)
    BY <1>2, <2>2
  <2>4. Stand(fr, Append(is, k), u)
    BY <1>1, <1>2, <1>3, <1>5, <2>2, <2>3, StandMore
  <2>5. Enter(Found(fr, ix, is), f) = Found(fr, ix, Append(is, k))
    BY <1>3, <1>7, <2>1, EnterIs
  <2>6. DOMAIN ix = DOMAIN table.index \cup KeysOf(u)
    BY <1>1, <1>6, <1>7
  <2>7. Entered(fr, ix, Append(is, k), u)
    BY <1>1, <2>4, <2>6 DEF Entered
  <2> QED
    BY <1>5, <2>5, <2>7
<1>8. CASE key \notin DOMAIN ix
  <2>1. PICK gr, k, jx : gr = Append(fr, g) /\ k = Len(fr) /\ jx = Insert(ix, key, k)
    OBVIOUS
  <2>2. TableOK(gr, jx) /\ Grown(gr, fr) /\ DOMAIN jx = DOMAIN ix \cup {key}
    <3>1. Key(f) \notin DOMAIN ix /\ TableOK(fr, ix)
      BY <1>1, <1>3, <1>8
    <3>2. /\ TableOK(Append(fr, Shown(f)), Insert(ix, Key(f), Len(fr)))
          /\ Grown(Append(fr, Shown(f)), fr)
      BY <3>1, TableGrows
    <3>3. DOMAIN jx = DOMAIN ix \cup {key}
      BY <2>1 DEF Insert
    <3> QED
      BY <1>3, <2>1, <3>2, <3>3
  <2>3. gr \in Seq(AllFrames)
    BY <2>2 DEF TableOK
  <2>4. k \in Nat /\ k < Len(gr) /\ gr[k + 1] = Shown(f)
    BY <1>2, <1>3, <1>4, <2>1
  <2>5. Stand(gr, is, s)
    BY <1>1, <1>2, <2>2, <2>3, StandStill
  <2>6. Stand(gr, Append(is, k), u)
    BY <1>5, <2>3, <2>4, <2>5, StandMore
  <2>7. Grown(gr, table.frames)
    <3>1. PICK tf : tf = table.frames
      OBVIOUS
    <3>2. tf \in Seq(AllFrames) /\ Grown(fr, tf)
      BY <1>1, <3>1 DEF TableOK
    <3>3. Len(tf) \in Nat /\ Len(fr) \in Nat /\ Len(gr) \in Nat
      BY <1>2, <2>3, <3>2
    <3>4. Len(tf) <= Len(gr)
      BY <2>2, <3>2, <3>3 DEF Grown
    <3>5. \A i \in 1 .. Len(tf) : i \in 1 .. Len(fr)
      BY <3>2, <3>3 DEF Grown
    <3>6. \A i \in 1 .. Len(tf) : gr[i] = tf[i]
      BY <2>2, <3>2, <3>5 DEF Grown
    <3> QED
      BY <3>1, <3>4, <3>6 DEF Grown
  <2>8. Enter(Found(fr, ix, is), f) = Found(gr, jx, Append(is, k))
    BY <1>3, <1>8, <2>1, EnterIs
  <2>9. DOMAIN jx = DOMAIN table.index \cup KeysOf(u)
    BY <1>1, <1>6, <2>2
  <2>10. Entered(gr, jx, Append(is, k), u)
    BY <2>2, <2>6, <2>7, <2>9 DEF Entered
  <2> QED
    BY <1>5, <2>8, <2>10
<1> QED
  BY <1>7, <1>8

LEMMA AllEntered ==
  ASSUME settings.lines \in BOOLEAN, TableOK(table.frames, table.index), NEW s \in Seq(AllFrames)
  PROVE  \E fr, ix, is : EnterAll(s) = Found(fr, ix, is) /\ Entered(fr, ix, is, s)
<1> DEFINE T == {w \in Seq(AllFrames) :
                  \E fr, ix, is : EnterAll(w) = Found(fr, ix, is) /\ Entered(fr, ix, is, w)}
<1>1. <<>> \in T
  <2>1. EnterAll(<<>>) = Found(table.frames, table.index, <<>>)
    BY EnterAllOfEmpty DEF NoneEntered, Found
  <2>2. Stand(table.frames, <<>>, <<>>)
    BY DEF Stand
  <2>3. Grown(table.frames, table.frames)
    BY DEF Grown, TableOK
  <2>4. KeysOf(<<>>) = {}
    BY DEF KeysOf
  <2>5. Entered(table.frames, table.index, <<>>, <<>>)
    BY <2>2, <2>3, <2>4 DEF Entered
  <2>6. <<>> \in Seq(AllFrames)
    OBVIOUS
  <2> QED
    BY <2>1, <2>5, <2>6
<1>2. ASSUME NEW w \in Seq(AllFrames), NEW f \in AllFrames, w \in T
      PROVE  Append(w, f) \in T
  <2>1. PICK fr, ix, is : EnterAll(w) = Found(fr, ix, is) /\ Entered(fr, ix, is, w)
    BY <1>2
  <2>2. EnterAll(Append(w, f)) = Enter(EnterAll(w), f)
    BY EnterAllOfAppend
  <2>3. PICK gr, jx, js : /\ Enter(Found(fr, ix, is), f) = Found(gr, jx, js)
                          /\ Entered(gr, jx, js, Append(w, f))
    BY <2>1, EnterKeeps
  <2>4. Append(w, f) \in Seq(AllFrames)
    OBVIOUS
  <2> QED
    BY <2>1, <2>2, <2>3, <2>4
<1>3. s \in T
  <2> HIDE DEF T
  <2> QED
    BY <1>1, <1>2, SequenceInduction
<1> QED
  BY <1>3

\* Looked up in the table, a sample of a profile is the trace as it is shown.
Decodes(fr, is, s) ==
  /\ is \in Seq(Nat) /\ Len(is) = Len(s)
  /\ \A i \in 1 .. Len(s) : is[i] < Len(fr) /\ fr[is[i] + 1] = ShownStack(s)[i]

LEMMA ReversedDecodes ==
  ASSUME settings.lines \in BOOLEAN, NEW fr, NEW is, NEW s \in Seq(AllFrames), Stand(fr, is, s)
  PROVE  Decodes(fr, Reverse(is), s)
<1>1. PICK n, js : n = Len(s) /\ js = Reverse(is)
  OBVIOUS
<1>2. /\ is \in Seq(Nat) /\ Len(is) = n /\ n \in Nat
      /\ \A i \in 1 .. n : is[i] < Len(fr) /\ fr[is[i] + 1] = Shown(s[i])
  BY <1>1 DEF Stand
<1>3. \A i \in 1 .. n : (n - i) + 1 \in 1 .. n
  BY <1>2
<1>4. js = [i \in 1 .. n |-> is[(n - i) + 1]]
  BY <1>1, <1>2 DEF Reverse
<1>5. js \in Seq(Nat) /\ Len(js) = n /\ \A i \in 1 .. n : js[i] = is[(n - i) + 1]
  BY <1>2, <1>3, <1>4
<1>6. \A i \in 1 .. n : ShownStack(s)[i] = Shown(s[(n - i) + 1])
  BY <1>1, StackIs
<1> QED
  BY <1>1, <1>2, <1>3, <1>5, <1>6 DEF Decodes

LEMMA DecodesStill ==
  ASSUME NEW fr \in Seq(AllFrames), NEW gr \in Seq(AllFrames), Grown(gr, fr),
         NEW is, NEW s \in Seq(AllFrames), Decodes(fr, is, s)
  PROVE  Decodes(gr, is, s)
<1> SUFFICES ASSUME NEW i \in 1 .. Len(s)
             PROVE  is[i] < Len(gr) /\ gr[is[i] + 1] = ShownStack(s)[i]
  BY DEF Decodes
<1>1. is \in Seq(Nat) /\ Len(is) = Len(s) /\ is[i] < Len(fr) /\ fr[is[i] + 1] = ShownStack(s)[i]
  BY DEF Decodes
<1>2. PICK k : k = is[i]
  OBVIOUS
<1>3. k \in Nat /\ k < Len(fr)
  BY <1>1, <1>2
<1>4. k + 1 \in 1 .. Len(fr) /\ k < Len(gr)
  BY <1>3 DEF Grown
<1> QED
  BY <1>1, <1>2, <1>4 DEF Grown

LEMMA DecodedIs ==
  ASSUME settings.lines \in BOOLEAN, NEW is, NEW s \in Seq(AllFrames), Decodes(table.frames, is, s)
  PROVE  Decoded(is) = ShownStack(s)
<1>1. PICK n, l : n = Len(s) /\ l = ShownStack(s)
  OBVIOUS
<1>2. /\ DOMAIN is = 1 .. n
      /\ \A i \in 1 .. n : table.frames[is[i] + 1] = l[i]
  BY <1>1 DEF Decodes
<1>3. l \in Seq(AllFrames) /\ Len(l) = n
  BY <1>1, StackIs
<1>4. l = [i \in 1 .. n |-> l[i]]
  BY <1>3
<1>5. Decoded(is) = [i \in 1 .. n |-> table.frames[is[i] + 1]]
  BY <1>2 DEF Decoded
<1> QED
  BY <1>1, <1>2, <1>4, <1>5

-----------------------------------------------------------------------------
(***************************************************************************)
(* flamegraph.rs: one more stack is counted.                               *)
(***************************************************************************)

\* How many of the places P have each line, of those they have.
Tally(P, line) == [v \in {line[p] : p \in P} |-> Cardinality({p \in P : line[p] = v})]

\* The counts with one more of v.
Counted(c, v) == IF v \in DOMAIN c THEN [c EXCEPT ![v] = @ + 1] ELSE Insert(c, v, 1)

\* Two functions that agree on P.
Alike(P, f, g) == \A p \in P : f[p] = g[p]

LEMMA OneMoreCounted ==
  ASSUME NEW P, NEW q, NEW line, NEW more, NEW v, NEW c,
         IsFiniteSet(P), q \notin P, Alike(P, more, line), more[q] = v,
         c = Tally(P, line)
  PROVE  IsFiniteSet(P \cup {q}) /\ Tally(P \cup {q}, more) = Counted(c, v)
<1> DEFINE Of(u)   == {p \in P : line[p] = u}
           More(u) == {p \in P \cup {q} : more[p] = u}
           d       == Tally(P \cup {q}, more)
<1>1. DOMAIN c = {line[p] : p \in P} /\ \A u \in DOMAIN c : c[u] = Cardinality(Of(u))
  BY DEF Tally
<1>2. DOMAIN d = DOMAIN c \cup {v} /\ \A u \in DOMAIN d : d[u] = Cardinality(More(u))
  <2>1. DOMAIN d = {more[p] : p \in P \cup {q}}
    BY DEF Tally
  <2>2. {more[p] : p \in P \cup {q}} = {line[p] : p \in P} \cup {v}
    BY DEF Alike
  <2>3. \A u \in DOMAIN d : d[u] = Cardinality(More(u))
    BY DEF Tally
  <2> QED
    BY <1>1, <2>1, <2>2, <2>3
<1>3. ASSUME NEW u, u # v
      PROVE  More(u) = Of(u)
  BY <1>3 DEF Alike
<1>4. More(v) = Of(v) \cup {q} /\ q \notin Of(v)
  BY DEF Alike
<1>5. IsFiniteSet(Of(v)) /\ IsFiniteSet(P \cup {q})
  <2>1. Of(v) \in SUBSET P
    OBVIOUS
  <2> HIDE DEF Of
  <2> QED
    BY <2>1, FS_Subset, FS_AddElement
<1>6. Cardinality(More(v)) = Cardinality(Of(v)) + 1
  <2> HIDE DEF Of, More
  <2> QED
    BY <1>4, <1>5, FS_AddElement
<1>7. v \notin DOMAIN c => Cardinality(Of(v)) = 0
  <2>1. v \notin DOMAIN c => Of(v) = {}
    BY <1>1
  <2> HIDE DEF Of
  <2> QED
    BY <2>1, FS_EmptySet
<1>8. /\ d = [u \in DOMAIN d |-> d[u]]
      /\ c = [u \in DOMAIN c |-> c[u]]
  BY DEF Tally
<1> HIDE DEF d, Of, More
<1>9. CASE v \in DOMAIN c
  <2>1. DOMAIN d = DOMAIN c
    BY <1>2, <1>9
  <2>2. ASSUME NEW u \in DOMAIN c
        PROVE  d[u] = [c EXCEPT ![v] = @ + 1][u]
    <3>1. CASE u = v
      BY <1>1, <1>2, <1>6, <1>9, <2>1, <3>1
    <3>2. CASE u # v
      BY <1>1, <1>2, <1>3, <2>1, <3>2
    <3> QED
      BY <3>1, <3>2
  <2>3. d = [c EXCEPT ![v] = @ + 1]
    BY <1>8, <2>1, <2>2
  <2> QED
    BY <1>5, <1>9, <2>3 DEF d, Counted
<1>10. CASE v \notin DOMAIN c
  <2>1. ASSUME NEW u \in DOMAIN d
        PROVE  d[u] = Insert(c, v, 1)[u]
    <3>1. CASE u = v
      <4>1. d[u] = 0 + 1
        BY <1>2, <1>6, <1>7, <1>10, <3>1
      <4> QED
        BY <1>2, <3>1, <4>1 DEF Insert
    <3>2. CASE u # v
      <4>1. u \in DOMAIN c
        BY <1>2, <3>2
      <4>2. d[u] = c[u]
        BY <1>1, <1>2, <1>3, <3>2, <4>1
      <4> QED
        BY <3>2, <4>1, <4>2 DEF Insert
    <3> QED
      BY <3>1, <3>2
  <2>2. Insert(c, v, 1) = [u \in DOMAIN d |-> Insert(c, v, 1)[u]]
    BY <1>2 DEF Insert
  <2>3. d = Insert(c, v, 1)
    BY <1>8, <2>1, <2>2
  <2> QED
    BY <1>5, <1>10, <2>3 DEF d, Counted
<1> QED
  BY <1>9, <1>10

\* The places of the traces a log holds, and what they show.
Places(l) == UNION {{<<t, i>> : i \in DOMAIN l[t]} : t \in Threads}
Lines(l)  == [p \in Places(l) |-> LineOf(l[p[1]][p[2]])]

\* A log with one more trace of a thread, and the place of it.
Logged(l, t, s) == [l EXCEPT ![t] = Append(@, s)]
NewPlace(l, t)  == <<t, Len(l[t]) + 1>>

LEMMA OneMorePlace ==
  ASSUME NEW F, NEW l, NEW t, NEW s, NEW k, NEW q,
         l \in [Threads -> Seq(F)], t \in Threads, s \in F,
         k = Logged(l, t, s), q = NewPlace(l, t)
  PROVE  /\ q \notin Places(l) /\ Places(k) = Places(l) \cup {q}
         /\ \A p \in Places(l) : Lines(k)[p] = Lines(l)[p]
         /\ Lines(k)[q] = LineOf(s)
<1>1. PICK n : n = Len(l[t])
  OBVIOUS
<1>2. l[t] \in Seq(F) /\ n \in Nat /\ DOMAIN l[t] = 1 .. n
  BY <1>1
<1>3. PICK u : u = Append(l[t], s)
  OBVIOUS
<1>4. DOMAIN u = 1 .. n + 1 /\ u[n + 1] = s /\ \A i \in 1 .. n : u[i] = l[t][i]
  BY <1>1, <1>2, <1>3
<1>5. k[t] = u /\ \A o \in Threads : o # t => k[o] = l[o]
  BY <1>3 DEF Logged
<1>6. \A p : p \in Places(l) <=> \E o \in Threads : \E i \in DOMAIN l[o] : p = <<o, i>>
  BY DEF Places
<1>0. PICK all : all = Places(k)
  OBVIOUS
<1>7. \A p : p \in all <=> \E o \in Threads : \E i \in DOMAIN k[o] : p = <<o, i>>
  BY <1>0 DEF Places
<1>8. q = <<t, n + 1>> /\ n + 1 \notin 1 .. n /\ n + 1 \in 1 .. n + 1
  BY <1>1, <1>2 DEF NewPlace
<1>9. q \notin Places(l)
  <2> SUFFICES ASSUME q \in Places(l)
               PROVE  FALSE
    OBVIOUS
  <2>1. PICK o, i : o \in Threads /\ i \in DOMAIN l[o] /\ q = <<o, i>>
    BY <1>6
  <2>2. o = t /\ i = n + 1
    BY <1>8, <2>1
  <2> QED
    BY <1>2, <1>8, <2>1, <2>2
<1>10. q \in all
  BY <1>4, <1>5, <1>7, <1>8
<1>11. ASSUME NEW p \in Places(l)
       PROVE  p \in all /\ k[p[1]][p[2]] = l[p[1]][p[2]]
  <2>1. PICK o, i : o \in Threads /\ i \in DOMAIN l[o] /\ p = <<o, i>>
    BY <1>6
  <2>2. i \in DOMAIN k[o] /\ k[o][i] = l[o][i]
    <3>1. CASE o = t
      <4>1. i \in 1 .. n /\ i \in 1 .. n + 1
        BY <1>2, <2>1, <3>1
      <4> QED
        BY <1>4, <1>5, <2>1, <3>1, <4>1
    <3>2. CASE o # t
      BY <1>5, <2>1, <3>2
    <3> QED
      BY <3>1, <3>2
  <2>3. p[1] = o /\ p[2] = i
    BY <2>1
  <2> QED
    BY <1>7, <2>1, <2>2, <2>3
<1>12. ASSUME NEW p \in all, p # q
       PROVE  p \in Places(l)
  <2>1. PICK o, i : o \in Threads /\ i \in DOMAIN k[o] /\ p = <<o, i>>
    BY <1>7, <1>12
  <2>2. i \in DOMAIN l[o]
    <3>1. CASE o = t
      <4>1. i \in 1 .. n + 1
        BY <1>4, <1>5, <2>1, <3>1
      <4>2. i # n + 1
        BY <1>8, <1>12, <2>1, <3>1
      <4>3. i \in 1 .. n
        BY <1>2, <4>1, <4>2
      <4> QED
        BY <1>2, <3>1, <4>3
    <3>2. CASE o # t
      BY <1>5, <2>1, <3>2
    <3> QED
      BY <3>1, <3>2
  <2> QED
    BY <1>6, <2>1, <2>2
<1>13. q[1] = t /\ q[2] = n + 1
  BY <1>8
<1>14. Lines(k)[q] = LineOf(s)
  <2>1. k[q[1]][q[2]] = s
    BY <1>4, <1>5, <1>13
  <2>2. Lines(k)[q] = LineOf(k[q[1]][q[2]])
    BY <1>0, <1>10 DEF Lines
  <2> QED
    BY <2>1, <2>2
<1>15. \A p \in Places(l) : Lines(k)[p] = Lines(l)[p]
  <2> SUFFICES ASSUME NEW p \in Places(l)
               PROVE  Lines(k)[p] = Lines(l)[p]
    OBVIOUS
  <2>1. p \in all /\ k[p[1]][p[2]] = l[p[1]][p[2]]
    BY <1>11
  <2>2. Lines(k)[p] = LineOf(k[p[1]][p[2]])
    BY <1>0, <2>1 DEF Lines
  <2>3. Lines(l)[p] = LineOf(l[p[1]][p[2]])
    BY DEF Lines
  <2> QED
    BY <2>1, <2>2, <2>3
<1>16. Places(k) = Places(l) \cup {q}
  BY <1>0, <1>10, <1>11, <1>12
<1> QED
  BY <1>9, <1>14, <1>15, <1>16

\* The frames of the traces a log holds.
FramesIn(l) == UNION {UNION {Range(l[t][i]) : i \in DOMAIN l[t]} : t \in Threads}

LEMMA FramesInIs ==
  ASSUME NEW l, NEW f
  PROVE  f \in FramesIn(l) <=> \E t \in Threads : \E i \in DOMAIN l[t] : f \in Range(l[t][i])
BY DEF FramesIn

LEMMA OneMoreLogged ==
  ASSUME NEW F, NEW l \in [Threads -> Seq(F)], NEW t \in Threads, NEW s \in F,
         NEW k, k = Logged(l, t, s)
  PROVE  FramesIn(k) = FramesIn(l) \cup Range(s)
<1>1. PICK n, u : n = Len(l[t]) /\ u = Append(l[t], s)
  OBVIOUS
<1>2. /\ n \in Nat /\ DOMAIN l[t] = 1 .. n /\ DOMAIN u = 1 .. n + 1 /\ u[n + 1] = s
      /\ \A i \in 1 .. n : u[i] = l[t][i]
  BY <1>1
<1>3. k[t] = u /\ \A o \in Threads : o # t => k[o] = l[o]
  BY <1>1 DEF Logged
<1>4. ASSUME NEW f \in FramesIn(k)
      PROVE  f \in FramesIn(l) \cup Range(s)
  <2>1. PICK o \in Threads : \E i \in DOMAIN k[o] : f \in Range(k[o][i])
    BY FramesInIs
  <2>2. PICK i \in DOMAIN k[o] : f \in Range(k[o][i])
    BY <2>1
  <2>3. CASE o # t
    BY <1>3, <2>2, <2>3, FramesInIs
  <2>4. CASE o = t /\ i = n + 1
    BY <1>2, <1>3, <2>2, <2>4
  <2>5. CASE o = t /\ i \in 1 .. n
    <3>1. i \in DOMAIN l[t] /\ k[o][i] = l[t][i]
      BY <1>2, <1>3, <2>5
    <3> QED
      BY <2>2, <3>1, FramesInIs
  <2>6. o = t => i = n + 1 \/ i \in 1 .. n
    <3>1. o = t => i \in 1 .. n + 1
      BY <1>2, <1>3
    <3> QED
      BY <1>2, <3>1
  <2> QED
    BY <2>3, <2>4, <2>5, <2>6
<1>5. ASSUME NEW f \in FramesIn(l)
      PROVE  f \in FramesIn(k)
  <2>1. PICK o \in Threads : \E i \in DOMAIN l[o] : f \in Range(l[o][i])
    BY FramesInIs
  <2>2. PICK i \in DOMAIN l[o] : f \in Range(l[o][i])
    BY <2>1
  <2>3. i \in DOMAIN k[o] /\ k[o][i] = l[o][i]
    <3>1. CASE o # t
      BY <1>3, <3>1
    <3>2. CASE o = t
      <4>1. i \in 1 .. n /\ i \in 1 .. n + 1
        BY <1>2, <3>2
      <4> QED
        BY <1>2, <1>3, <3>2, <4>1
    <3> QED
      BY <3>1, <3>2
  <2> QED
    BY <2>2, <2>3, FramesInIs
<1>6. ASSUME NEW f \in Range(s)
      PROVE  f \in FramesIn(k)
  <2>1. n + 1 \in DOMAIN k[t] /\ k[t][n + 1] = s
    BY <1>2, <1>3
  <2> QED
    BY <1>6, <2>1, FramesInIs
<1> QED
  BY <1>4, <1>5, <1>6

-----------------------------------------------------------------------------
(***************************************************************************)
(* What is recorded is of such frames, and what is still open is closed.   *)
(***************************************************************************)
LEMMA SettingsOK ==
  ASSUME settings \in Configs
  PROVE  settings.lines \in BOOLEAN
BY RecordersAssumption

LEMMA DecoratedIs ==
  ASSUME NEW t \in Threads, NEW stack \in Stacks
  PROVE  Decorated(t, stack) \in Seq(AllFrames)
<1>1. ASSUME NEW f \in Frames
      PROVE  f \in AllFrames
  <2>1. f = Frame(f.name, f.filename, f.module, f.line) /\ f.line \in Nat
    BY RecordersAssumption
  <2>2. f.name \in Names /\ f.filename \in FileNames /\ f.module \in Modules
    BY DEF Names, FileNames, Modules
  <2> QED
    BY <2>1, <2>2 DEF AllFrames, Frame
<1>2. stack \in Seq(AllFrames)
  <2>1. PICK n \in 0 .. MaxDepth : stack \in [1 .. n -> Frames]
    BY DEF Stacks, SeqOf
  <2>2. n \in Nat
    BY RecordersAssumption
  <2> QED
    BY <1>1, <2>1, <2>2
<1>3. PICK own : own = IF settings.threads THEN <<Marker(t)>> ELSE <<>>
  OBVIOUS
<1>4. own \in Seq(AllFrames)
  <2>1. Marker(t) \in AllFrames
    BY MarkerIs DEF Names
  <2> QED
    BY <1>3, <2>1
<1>5. PICK chain : chain = [i \in DOMAIN Chain[t] |-> Marker(Chain[t][i])]
  OBVIOUS
<1>6. chain \in Seq(AllFrames)
  <2>1. PICK n : n = Len(Chain[t])
    OBVIOUS
  <2>2. n \in Nat /\ DOMAIN Chain[t] = 1 .. n
    BY <2>1, RecordersAssumption
  <2>3. ASSUME NEW i \in 1 .. n
        PROVE  Marker(Chain[t][i]) \in AllFrames
    <3>1. Chain[t][i] \in Range(Chain[t])
      BY <2>2 DEF Range
    <3>2. Chain[t][i] \in Names
      BY <3>1 DEF Names
    <3> QED
      BY <3>2, MarkerIs
  <2>4. chain = [i \in 1 .. n |-> Marker(Chain[t][i])]
    BY <1>5, <2>2
  <2> QED
    BY <2>2, <2>3, <2>4
<1>7. PICK more : more = IF settings.processes THEN chain ELSE <<>>
  OBVIOUS
<1>8. more \in Seq(AllFrames)
  BY <1>6, <1>7
<1>9. Decorated(t, stack) = (stack \o own) \o more
  BY <1>3, <1>5, <1>7 DEF Decorated
<1>10. stack \o own \in Seq(AllFrames)
  BY <1>2, <1>4
<1> QED
  BY <1>8, <1>9, <1>10

\* No thread comes twice.
Distinct(w) == \A i, j \in 1 .. Len(w) : i # j => w[i] # w[j]
Within(w)   == {w[i] : i \in 1 .. Len(w)}

LEMMA OneMoreWithin ==
  ASSUME NEW F, NEW w \in Seq(F), NEW f \in F
  PROVE  /\ Within(Append(w, f)) = Within(w) \cup {f}
         /\ Distinct(Append(w, f)) => Distinct(w) /\ f \notin Within(w)
<1>1. PICK u, n : u = Append(w, f) /\ n = Len(w)
  OBVIOUS
<1>2. n \in Nat /\ Len(u) = n + 1 /\ u[n + 1] = f /\ \A i \in 1 .. n : u[i] = w[i]
  BY <1>1
<1>3. \A i : i \in 1 .. n + 1 <=> i \in 1 .. n \/ i = n + 1
  BY <1>2
<1>4. Within(u) = {u[i] : i \in 1 .. n + 1}
  BY <1>2 DEF Within
<1>5. Within(w) = {w[i] : i \in 1 .. n}
  BY <1>1 DEF Within
<1>6. Within(u) = Within(w) \cup {f}
  BY <1>2, <1>3, <1>4, <1>5
<1>7. ASSUME Distinct(u)
      PROVE  Distinct(w) /\ f \notin Within(w)
  <2>1. \A i, j \in 1 .. n + 1 : i # j => u[i] # u[j]
    BY <1>2, <1>7 DEF Distinct
  <2>2. \A i \in 1 .. n : i \in 1 .. n + 1 /\ i # n + 1 /\ n + 1 \in 1 .. n + 1
    BY <1>2
  <2>3. \A i, j \in 1 .. n : i # j => w[i] # w[j]
    BY <1>2, <2>1, <2>2
  <2>4. \A i \in 1 .. n : w[i] # f
    BY <1>2, <2>1, <2>2
  <2> QED
    BY <1>1, <1>5, <2>3, <2>4 DEF Distinct
<1> QED
  BY <1>1, <1>6, <1>7

\* The end events of threads close what is open of each, and of no other.
LEMMA UnfinishedCloses ==
  ASSUME settings.lines \in BOOLEAN, prev_traces \in [Threads -> Seq(AllFrames)],
         NEW order \in Seq(Threads), Distinct(order)
  PROVE  /\ Unfinished(order) \in Seq(AllEvents)
         /\ \A t \in Threads : Replay(ShownStack(prev_traces[t]), Unfinished(order), t)
                                 = IF t \in Within(order) THEN <<>> ELSE ShownStack(prev_traces[t])
<1> DEFINE Closes(w) ==
             /\ Unfinished(w) \in Seq(AllEvents)
             /\ \A t \in Threads : Replay(ShownStack(prev_traces[t]), Unfinished(w), t)
                                     = IF t \in Within(w) THEN <<>> ELSE ShownStack(prev_traces[t])
           T == {w \in Seq(Threads) : Distinct(w) => Closes(w)}
<1>1. <<>> \in T
  <2>1. Within(<<>>) = {} /\ <<>> \in Seq(Threads) /\ <<>> \in Seq(AllEvents)
    BY DEF Within
  <2> QED
    BY <2>1, UnfinishedOfEmpty, ReplayOfEmpty
<1>2. ASSUME NEW w \in Seq(Threads), NEW o \in Threads, w \in T
      PROVE  Append(w, o) \in T
  <2> SUFFICES ASSUME Distinct(Append(w, o))
               PROVE  Closes(Append(w, o))
    OBVIOUS
  <2>1. Distinct(w) /\ o \notin Within(w) /\ Within(Append(w, o)) = Within(w) \cup {o}
    BY OneMoreWithin
  <2>2. PICK u, e : u = Unfinished(w) /\ e = Ends(o)
    OBVIOUS
  <2>3. Unfinished(Append(w, o)) = u \o e
    BY <2>2, UnfinishedOfAppend DEF AndEnds
  <2>4. u \in Seq(AllEvents)
    BY <1>2, <2>1, <2>2
  <2>5. e \in Seq(AllEvents)
    BY <2>2, EventsAre DEF Ends
  <2>6. u \o e \in Seq(AllEvents)
    BY <2>4, <2>5
  <2>7. ASSUME NEW t \in Threads
        PROVE  Replay(ShownStack(prev_traces[t]), u \o e, t)
                 = IF t \in Within(w) \cup {o} THEN <<>> ELSE ShownStack(prev_traces[t])
    <3>1. PICK l, m : l = ShownStack(prev_traces[t]) /\ m = Replay(l, u, t)
      OBVIOUS
    <3>2. Replay(l, u \o e, t) = Replay(m, e, t)
      BY <2>4, <2>5, <3>1, ReplayConcat
    <3>3. m = IF t \in Within(w) THEN <<>> ELSE l
      BY <1>2, <2>1, <2>2, <3>1
    <3>4. CASE t = o
      <4>1. m = l /\ l \in Seq(AllFrames) /\ <<>> \in Seq(AllFrames)
        BY <2>1, <3>1, <3>3, <3>4, StackIs
      <4>2. Replay(<<>> \o l, e, t) = <<>>
        BY <2>2, <3>1, <3>4, <4>1, EndsClose DEF Ends
      <4>3. <<>> \o l = l
        BY <4>1
      <4> QED
        BY <3>1, <3>2, <3>4, <4>1, <4>2, <4>3
    <3>5. CASE t # o
      <4>1. Replay(m, e, t) = m
        <5>1. PICK p, ph : p = prev_traces[o] /\ ph = "E"
          OBVIOUS
        <5>2. p \in Seq(AllFrames) /\ ph \in {"B", "E"} /\ e = Events(o, ph, p)
          BY <2>2, <5>1 DEF Ends
        <5>3. o # t /\ settings.lines \in BOOLEAN
          BY <3>5
        <5>4. Replay(m, Events(o, ph, p), t) = m
          BY <5>2, <5>3, OthersPass
        <5> QED
          BY <5>2, <5>4
      <4> QED
        BY <3>1, <3>2, <3>3, <3>5, <4>1
    <3> QED
      BY <3>4, <3>5
  <2> QED
    BY <2>1, <2>3, <2>6, <2>7
<1>3. order \in T
  <2> HIDE DEF T
  <2> QED
    BY <1>1, <1>2, SequenceInduction
<1> QED
  BY <1>3

\* An order of the map's threads has each of them.
LEMMA OrderHasAll ==
  ASSUME NEW S, IsFiniteSet(S), NEW order \in SetToSeqs(S)
  PROVE  order \in Seq(S) /\ Distinct(order) /\ Within(order) = S
<1>1. PICK n : n = Cardinality(S)
  OBVIOUS
<1>2. n \in Nat
  BY <1>1, FS_CardinalityType
<1>3. order \in [1 .. n -> S] /\ \A i, j \in 1 .. n : i # j => order[i] # order[j]
  BY <1>1 DEF SetToSeqs
<1>4. IsFiniteSet(1 .. n) /\ Cardinality(1 .. n) = n
  BY <1>2, FS_Interval
<1>5. order \in Injection(1 .. n, S)
  BY <1>3 DEF Injection, IsInjective
<1>6. order \in Surjection(1 .. n, S)
  BY <1>1, <1>4, <1>5, FS_Injection
<1>7. \A e \in S : \E i \in 1 .. n : order[i] = e
  BY <1>6 DEF Surjection
<1>8. order \in Seq(S) /\ Len(order) = n
  BY <1>2, <1>3
<1> QED
  BY <1>3, <1>7, <1>8 DEF Distinct, Within

-----------------------------------------------------------------------------
(***************************************************************************)
(* The invariant.  prev_traces keeps what the log ends with; the slices    *)
(* that are open are those of it; every key of a frame in the log has an   *)
(* entry of its own, so that what was recorded goes on to be found; and    *)
(* the counts are those of the log.                                        *)
(***************************************************************************)
Recording ==
  /\ settings \in Configs
  /\ log \in [Threads -> Seq(Seq(AllFrames))]
  /\ prev_traces \in [Threads -> Seq(AllFrames)]
  /\ events \in Seq(AllEvents)

PrevIsLast ==
  \A t \in Threads : prev_traces[t] = IF log[t] = <<>> THEN <<>> ELSE Last(log[t])

Open == {t \in Threads : prev_traces[t] # <<>>}

PrevIsOpen ==
  /\ IsFiniteSet(Open)
  /\ \A t \in Threads : OpenSlices(events, t) = ShownStack(prev_traces[t])

FileCloses == written => \A t \in Threads : OpenSlices(file, t) = <<>>

ProfilesStand ==
  /\ TableOK(table.frames, table.index)
  /\ profiles \in [Threads -> Seq(Seq(Nat))]
  /\ \A t \in Threads : /\ Len(profiles[t]) = Len(log[t])
                        /\ \A i \in 1 .. Len(log[t]) :
                             Decodes(table.frames, profiles[t][i], log[t][i])
  /\ DOMAIN table.index = {Key(frame) : frame \in FramesIn(log)}

CountsAreOfLog == IsFiniteSet(Places(log)) /\ counts = Tally(Places(log), Lines(log))

RecInv == Recording /\ PrevIsLast /\ PrevIsOpen /\ FileCloses /\ ProfilesStand /\ CountsAreOfLog

LEMMA RecInvInit == Init => RecInv
<1> SUFFICES ASSUME Init
             PROVE  RecInv
  OBVIOUS
<1>1. /\ settings \in Configs /\ events = <<>> /\ prev_traces = [t \in Threads |-> <<>>]
      /\ profiles = [t \in Threads |-> <<>>] /\ table = [frames |-> <<>>, index |-> <<>>]
      /\ counts = <<>> /\ written = FALSE /\ log = [t \in Threads |-> <<>>]
  BY DEF Init
<1>2. Recording
  BY <1>1 DEF Recording
<1>3. PrevIsLast
  BY <1>1 DEF PrevIsLast
<1>4. PrevIsOpen
  <2>1. Open = {}
    BY <1>1 DEF Open
  <2>2. ShownStack(<<>>) = <<>>
    <3>1. settings.lines \in BOOLEAN /\ <<>> \in Seq(AllFrames) /\ Len(<<>>) = 0
      BY <1>1, SettingsOK
    <3>2. ShownStack(<<>>) \in Seq(AllFrames) /\ Len(ShownStack(<<>>)) = 0
      BY <3>1, StackIs
    <3> QED
      BY <3>2
  <2>3. \A t \in Threads : OpenSlices(events, t) = <<>>
    BY <1>1, ReplayOfEmpty DEF OpenSlices
  <2> QED
    BY <1>1, <2>1, <2>2, <2>3, FS_EmptySet DEF PrevIsOpen
<1>5. FileCloses
  BY <1>1 DEF FileCloses
<1>6. ProfilesStand
  <2>1. TableOK(<<>>, <<>>)
    BY DEF TableOK
  <2>2. FramesIn(log) = {}
    BY <1>1 DEF FramesIn
  <2>3. table.frames = <<>> /\ table.index = <<>> /\ DOMAIN table.index = {}
    BY <1>1
  <2>4. \A t \in Threads : Len(profiles[t]) = 0 /\ Len(log[t]) = 0
    BY <1>1
  <2>5. profiles \in [Threads -> Seq(Seq(Nat))]
    BY <1>1
  <2> QED
    BY <2>1, <2>2, <2>3, <2>4, <2>5 DEF ProfilesStand
<1>7. CountsAreOfLog
  <2>1. Places(log) = {}
    BY <1>1 DEF Places
  <2>2. Tally({}, Lines(log)) = <<>>
    BY DEF Tally
  <2> QED
    BY <1>1, <2>1, <2>2, FS_EmptySet DEF CountsAreOfLog
<1> QED
  BY <1>2, <1>3, <1>4, <1>5, <1>6, <1>7 DEF RecInv

\* One trace of a thread: what the recorders and the log have of it.
Traced(t, s) ==
  /\ s \in Seq(AllFrames)
  /\ events' = (events \o EndEvents(t, prev_traces[t], s)) \o BeginEvents(t, prev_traces[t], s)
  /\ prev_traces' = [prev_traces EXCEPT ![t] = s]
  /\ SpeedscopeRecord(t, s)
  /\ FlamegraphIncrement(s)
  /\ log' = [log EXCEPT ![t] = Append(@, s)]
  /\ ~ written /\ UNCHANGED <<settings, file, written>>

LEMMA RecordTraceIs ==
  ASSUME NEW t \in Threads, RecordTrace(t)
  PROVE  \E s : Traced(t, s)
<1>1. PICK stack \in Stacks :
        /\ ChromeIncrement(t, Decorated(t, stack))
        /\ SpeedscopeRecord(t, Decorated(t, stack))
        /\ FlamegraphIncrement(Decorated(t, stack))
        /\ log' = [log EXCEPT ![t] = Append(@, Decorated(t, stack))]
  BY DEF RecordTrace
<1>2. PICK s : s = Decorated(t, stack)
  OBVIOUS
<1>3. s \in Seq(AllFrames)
  BY <1>2, DecoratedIs
<1>4. ~ written /\ UNCHANGED <<settings, file, written>>
  BY DEF RecordTrace
<1>5. /\ events' = (events \o EndEvents(t, prev_traces[t], s)) \o BeginEvents(t, prev_traces[t], s)
      /\ prev_traces' = [prev_traces EXCEPT ![t] = s]
  BY <1>1, <1>2 DEF ChromeIncrement, EndEvents, BeginEvents
<1> QED
  BY <1>1, <1>2, <1>3, <1>4, <1>5 DEF Traced

\* What is shown does not depend on what is recorded.
LEMMA ShownSame ==
  ASSUME settings' = settings
  PROVE  /\ \A f : Shown(f)' = Shown(f) /\ Key(f)' = Key(f)
         /\ \A s : ShownStack(s)' = ShownStack(s)
         /\ \A l : Lines(l)' = Lines(l)
         /\ \A t, ph, s : Events(t, ph, s)' = Events(t, ph, s)
<1>1. \A s : ShownStack(s)' = ShownStack(s)
  BY DEF ShownStack, Shown
<1>2. \A l : Lines(l)' = Lines(l)
  BY <1>1 DEF Lines, LineOf, Shortened
<1>3. \A t, ph, s : Events(t, ph, s)' = Events(t, ph, s)
  BY DEF Events, Shown
<1>4. \A f : Shown(f)' = Shown(f) /\ Key(f)' = Key(f)
  BY DEF Shown, Key
<1> QED
  BY <1>1, <1>2, <1>3, <1>4

LEMMA RecordKeepsRecording ==
  ASSUME RecInv, NEW t \in Threads, NEW s, Traced(t, s)
  PROVE  Recording' /\ PrevIsLast'
<1>1. /\ settings \in Configs /\ log \in [Threads -> Seq(Seq(AllFrames))]
      /\ prev_traces \in [Threads -> Seq(AllFrames)] /\ events \in Seq(AllEvents)
  BY DEF RecInv, Recording
<1>2. /\ s \in Seq(AllFrames) /\ settings' = settings
      /\ prev_traces' = [prev_traces EXCEPT ![t] = s]
      /\ log' = [log EXCEPT ![t] = Append(@, s)]
  BY DEF Traced
<1>3. settings.lines \in BOOLEAN
  BY <1>1, SettingsOK
<1>4. PICK e, b : e = EndEvents(t, prev_traces[t], s) /\ b = BeginEvents(t, prev_traces[t], s)
  OBVIOUS
<1>5. e \in Seq(AllEvents) /\ b \in Seq(AllEvents)
  BY <1>1, <1>2, <1>3, <1>4, IncrementShows
<1>6. events' = (events \o e) \o b
  BY <1>4 DEF Traced
<1>7. events' \in Seq(AllEvents)
  <2>1. events \o e \in Seq(AllEvents)
    BY <1>1, <1>5
  <2> QED
    BY <1>5, <1>6, <2>1
<1>8. PICK l : l = Append(log[t], s)
  OBVIOUS
<1>9. l \in Seq(Seq(AllFrames)) /\ l # <<>> /\ Last(l) = s
  BY <1>1, <1>2, <1>8, OneMore
<1>10. /\ log'[t] = l /\ prev_traces'[t] = s
       /\ \A o \in Threads : o # t => log'[o] = log[o] /\ prev_traces'[o] = prev_traces[o]
  BY <1>1, <1>2, <1>8
<1>11. log' \in [Threads -> Seq(Seq(AllFrames))]
  BY <1>1, <1>2, <1>8, <1>9
<1>12. Recording'
  BY <1>1, <1>2, <1>7, <1>11 DEF Recording
<1>13. PrevIsLast'
  <2> SUFFICES ASSUME NEW o \in Threads
               PROVE  prev_traces'[o] = IF log'[o] = <<>> THEN <<>> ELSE Last(log'[o])
    BY DEF PrevIsLast
  <2>1. CASE o = t
    BY <1>9, <1>10, <2>1
  <2>2. CASE o # t
    BY <1>10, <2>2 DEF RecInv, PrevIsLast
  <2> QED
    BY <2>1, <2>2
<1> QED
  BY <1>12, <1>13

LEMMA RecordKeepsOpen ==
  ASSUME RecInv, NEW t \in Threads, NEW s, Traced(t, s)
  PROVE  PrevIsOpen' /\ FileCloses'
<1>1. /\ settings \in Configs
      /\ prev_traces \in [Threads -> Seq(AllFrames)] /\ events \in Seq(AllEvents)
  BY DEF RecInv, Recording
<1>2. /\ s \in Seq(AllFrames) /\ settings' = settings /\ ~ written'
      /\ prev_traces' = [prev_traces EXCEPT ![t] = s]
  BY DEF Traced
<1>3. settings.lines \in BOOLEAN
  BY <1>1, SettingsOK
<1>4. PICK p, e, b : /\ p = prev_traces[t] /\ e = EndEvents(t, prev_traces[t], s)
                     /\ b = BeginEvents(t, prev_traces[t], s)
  OBVIOUS
<1>5. p \in Seq(AllFrames)
  BY <1>1, <1>4
<1>6. /\ e \in Seq(AllEvents) /\ b \in Seq(AllEvents)
      /\ Replay(Replay(ShownStack(p), e, t), b, t) = ShownStack(s)
  BY <1>2, <1>3, <1>4, <1>5, IncrementShows
<1>7. events' = (events \o e) \o b
  BY <1>4 DEF Traced
<1>8. ASSUME NEW o
      PROVE  OpenSlices(events', o) = Replay(Replay(OpenSlices(events, o), e, o), b, o)
  <2>1. PICK both : both = events \o e
    OBVIOUS
  <2>2. both \in Seq(AllEvents)
    BY <1>1, <1>6, <2>1
  <2>3. Replay(<<>>, both, o) = Replay(Replay(<<>>, events, o), e, o)
    BY <1>1, <1>6, <2>1, ReplayConcat
  <2>4. Replay(<<>>, both \o b, o) = Replay(Replay(<<>>, both, o), b, o)
    BY <1>6, <2>2, ReplayConcat
  <2> QED
    BY <1>7, <2>1, <2>3, <2>4 DEF OpenSlices
<1>9. \A o \in Threads : OpenSlices(events, o) = ShownStack(prev_traces[o])
  BY DEF RecInv, PrevIsOpen
<1>10. OpenSlices(events', t) = ShownStack(s)
  BY <1>4, <1>6, <1>8, <1>9
<1>11. ASSUME NEW o \in Threads, o # t
       PROVE  OpenSlices(events', o) = ShownStack(prev_traces[o])
  <2>1. PICK q, r, k : q = Inner(p, k) /\ r = Reverse(Inner(s, k)) /\ k = NewIndex(p, s)
    OBVIOUS
  <2>2. k \in 0 .. Len(p) /\ k \in 0 .. Len(s)
    BY <1>2, <1>3, <1>5, <2>1, NewIndexIs
  <2>3. q \in Seq(AllFrames) /\ Inner(s, k) \in Seq(AllFrames)
    BY <1>2, <1>3, <1>5, <2>1, <2>2, InnerIs
  <2>4. r \in Seq(AllFrames)
    <3>1. PICK inner : inner = Inner(s, k)
      OBVIOUS
    <3>2. inner \in Seq(AllFrames) /\ <<>> \in Seq(AllFrames)
      BY <2>3, <3>1
    <3>3. Reverse(inner) \in Seq(AllFrames)
      BY <1>3, <3>2, BegunReversed
    <3> QED
      BY <2>1, <3>1, <3>3
  <2>5. e = Events(t, "E", q) /\ b = Events(t, "B", r)
    BY <1>4, <2>1 DEF EndEvents, BeginEvents
  <2>6. \A open : Replay(open, Events(t, "E", q), o) = open
    BY <1>3, <1>11, <2>3, OthersPass
  <2>7. \A open : Replay(open, Events(t, "B", r), o) = open
    BY <1>3, <1>11, <2>4, OthersPass
  <2> QED
    BY <1>8, <1>9, <2>5, <2>6, <2>7
<1>12. \A o \in Threads : OpenSlices(events', o) = ShownStack(prev_traces'[o])
  BY <1>1, <1>2, <1>10, <1>11
<1>13. \A o \in Threads : OpenSlices(events, o)' = ShownStack(prev_traces[o])'
  BY <1>2, <1>12, ShownSame
<1>14. IsFiniteSet(Open)'
  <2>1. IsFiniteSet(Open \cup {t})
    BY FS_AddElement DEF RecInv, PrevIsOpen
  <2>2. Open' \in SUBSET (Open \cup {t})
    BY <1>1, <1>2 DEF Open
  <2>3. \A S : S \in SUBSET (Open \cup {t}) => IsFiniteSet(S)
    BY <2>1, FS_Subset
  <2> QED
    BY <2>2, <2>3
<1>15. PrevIsOpen'
  BY <1>13, <1>14 DEF PrevIsOpen
<1>16. FileCloses'
  BY <1>2 DEF FileCloses
<1> QED
  BY <1>15, <1>16

LEMMA RecordKeepsProfiles ==
  ASSUME RecInv, NEW t \in Threads, NEW s, Traced(t, s)
  PROVE  ProfilesStand'
<1>1. /\ settings \in Configs /\ log \in [Threads -> Seq(Seq(AllFrames))]
      /\ profiles \in [Threads -> Seq(Seq(Nat))] /\ TableOK(table.frames, table.index)
  BY DEF RecInv, Recording, ProfilesStand
<1>2. s \in Seq(AllFrames) /\ settings' = settings
  BY DEF Traced
<1>3. settings.lines \in BOOLEAN
  BY <1>1, SettingsOK
<1>4. PICK fr, ix, is : EnterAll(s) = Found(fr, ix, is) /\ Entered(fr, ix, is, s)
  BY <1>1, <1>2, <1>3, AllEntered
<1>5. table' = [frames |-> fr, index |-> ix] /\ profiles' = [profiles EXCEPT ![t] = Append(@, Reverse(is))]
  <2>1. PICK found : found = EnterAll(s)
    OBVIOUS
  <2>2. found.frames = fr /\ found.index = ix /\ found.indices = is
    BY <1>4, <2>1, FoundIs
  <2>3. SpeedscopeRecord(t, s)
    BY DEF Traced
  <2> QED
    BY <2>1, <2>2, <2>3 DEF SpeedscopeRecord
<1>6. /\ TableOK(fr, ix) /\ Grown(fr, table.frames) /\ Stand(fr, is, s)
      /\ DOMAIN ix = DOMAIN table.index \cup KeysOf(s)
  BY <1>4 DEF Entered
<1>7. PICK tf : tf = table.frames
  OBVIOUS
<1>8. tf \in Seq(AllFrames) /\ fr \in Seq(AllFrames)
  BY <1>1, <1>6, <1>7 DEF TableOK
<1>9. PICK js : js = Reverse(is)
  OBVIOUS
<1>10. Decodes(fr, js, s)
  BY <1>2, <1>3, <1>6, <1>9, ReversedDecodes
<1>11. js \in Seq(Nat)
  BY <1>10 DEF Decodes
<1>12. PICK n : n = Len(log[t])
  OBVIOUS
<1>13. /\ profiles[t] \in Seq(Seq(Nat)) /\ Len(profiles[t]) = n /\ n \in Nat
       /\ log[t] \in Seq(Seq(AllFrames))
  BY <1>1, <1>12 DEF RecInv, ProfilesStand
<1>14. PICK l, p : l = Append(log[t], s) /\ p = Append(profiles[t], js)
  OBVIOUS
<1>15. Len(l) = n + 1 /\ l[n + 1] = s /\ \A i \in 1 .. n : l[i] = log[t][i]
  BY <1>2, <1>12, <1>13, <1>14
<1>16. /\ p \in Seq(Seq(Nat)) /\ Len(p) = n + 1 /\ p[n + 1] = js
       /\ \A i \in 1 .. n : p[i] = profiles[t][i]
  BY <1>11, <1>13, <1>14
<1>17. log' = [log EXCEPT ![t] = l] /\ profiles' = [profiles EXCEPT ![t] = p]
  BY <1>5, <1>9, <1>14 DEF Traced
<1>18. /\ log'[t] = l /\ profiles'[t] = p
       /\ \A o \in Threads : o # t => log'[o] = log[o] /\ profiles'[o] = profiles[o]
  BY <1>1, <1>17
<1>19. ASSUME NEW o \in Threads, NEW i \in 1 .. Len(log[o])
       PROVE  Decodes(fr, profiles[o][i], log[o][i])
  <2>1. PICK is2, s2 : is2 = profiles[o][i] /\ s2 = log[o][i]
    OBVIOUS
  <2>2. s2 \in Seq(AllFrames)
    BY <1>1, <2>1
  <2>3. Decodes(tf, is2, s2)
    BY <1>7, <2>1 DEF RecInv, ProfilesStand
  <2>4. Grown(fr, tf)
    BY <1>6, <1>7
  <2>5. Decodes(fr, is2, s2)
    BY <1>8, <2>2, <2>3, <2>4, DecodesStill
  <2> QED
    BY <2>1, <2>5
<1>20. ASSUME NEW o \in Threads
       PROVE  /\ Len(profiles'[o]) = Len(log'[o])
              /\ \A i \in 1 .. Len(log'[o]) : Decodes(fr, profiles'[o][i], log'[o][i])
  <2>1. CASE o # t
    <3>1. Len(profiles[o]) = Len(log[o])
      BY DEF RecInv, ProfilesStand
    <3> QED
      BY <1>18, <1>19, <2>1, <3>1
  <2>2. CASE o = t
    <3> SUFFICES ASSUME NEW i \in 1 .. n + 1
                 PROVE  Decodes(fr, p[i], l[i])
      BY <1>15, <1>16, <1>18, <2>2
    <3>1. CASE i = n + 1
      BY <1>10, <1>15, <1>16, <3>1
    <3>2. CASE i \in 1 .. n
      <4>1. Decodes(fr, profiles[t][i], log[t][i])
        BY <1>12, <1>19, <3>2
      <4> QED
        BY <1>15, <1>16, <3>2, <4>1
    <3> QED
      BY <1>13, <3>1, <3>2
  <2> QED
    BY <2>1, <2>2
<1>21. profiles' \in [Threads -> Seq(Seq(Nat))]
  BY <1>1, <1>16, <1>17
<1>22. /\ table'.frames = fr /\ table'.index = ix
  BY <1>5
<1>23. ASSUME NEW is2, NEW s2
       PROVE  Decodes(fr, is2, s2)' = Decodes(fr, is2, s2)
  BY <1>2, ShownSame DEF Decodes
<1>24. TableOK(table.frames, table.index)'
  <2>1. TableOK(fr, ix)'
    BY <1>2, <1>6, ShownSame DEF TableOK
  <2> QED
    BY <1>22, <2>1
<1>25. ASSUME NEW o \in Threads
       PROVE  (/\ Len(profiles[o]) = Len(log[o])
               /\ \A i \in 1 .. Len(log[o]) : Decodes(table.frames, profiles[o][i], log[o][i]))'
  BY <1>20, <1>22, <1>23
<1>26. FramesIn(log') = FramesIn(log) \cup Range(s)
  <2>1. PICK F, k, l0 : F = Seq(AllFrames) /\ l0 = log /\ k = Logged(l0, t, s)
    OBVIOUS
  <2>2. l0 \in [Threads -> Seq(F)] /\ s \in F
    BY <1>1, <1>2, <2>1
  <2>3. FramesIn(k) = FramesIn(l0) \cup Range(s)
    BY <2>1, <2>2, OneMoreLogged
  <2>4. log' = k
    BY <1>14, <1>17, <2>1 DEF Logged
  <2> QED
    BY <2>1, <2>3, <2>4
<1>27. DOMAIN ix = {Key(frame) : frame \in FramesIn(log')}
  <2>1. DOMAIN table.index = {Key(frame) : frame \in FramesIn(log)}
    BY DEF RecInv, ProfilesStand
  <2>2. KeysOf(s) = {Key(frame) : frame \in Range(s)}
    BY DEF KeysOf, Range
  <2> QED
    BY <1>6, <1>26, <2>1, <2>2
<1>28. (DOMAIN table.index = {Key(frame) : frame \in FramesIn(log)})'
  <2>1. FramesIn(log)' = FramesIn(log')
    BY DEF FramesIn
  <2>2. \A f : Key(f)' = Key(f)
    BY <1>2, ShownSame
  <2> QED
    BY <1>22, <1>27, <2>1, <2>2
<1> QED
  BY <1>21, <1>24, <1>25, <1>28 DEF ProfilesStand

LEMMA RecordKeepsCounts ==
  ASSUME RecInv, NEW t \in Threads, NEW s, Traced(t, s)
  PROVE  CountsAreOfLog'
<1>1. /\ log \in [Threads -> Seq(Seq(AllFrames))]
      /\ IsFiniteSet(Places(log)) /\ counts = Tally(Places(log), Lines(log))
  BY DEF RecInv, Recording, CountsAreOfLog
<1>2. /\ s \in Seq(AllFrames) /\ settings' = settings
      /\ log' = [log EXCEPT ![t] = Append(@, s)]
  BY DEF Traced
<1>3. PICK F, q, k : F = Seq(AllFrames) /\ q = NewPlace(log, t) /\ k = Logged(log, t, s)
  OBVIOUS
<1>4. log \in [Threads -> Seq(F)] /\ s \in F
  BY <1>1, <1>2, <1>3
<1>5. /\ q \notin Places(log) /\ Places(k) = Places(log) \cup {q}
      /\ \A p \in Places(log) : Lines(k)[p] = Lines(log)[p]
      /\ Lines(k)[q] = LineOf(s)
  BY <1>3, <1>4, OneMorePlace
<1>6. PICK P, v, line, more : /\ P = Places(log) /\ v = LineOf(s)
                              /\ line = Lines(log) /\ more = Lines(k)
  OBVIOUS
<1>7. IsFiniteSet(P) /\ q \notin P /\ \A p \in P : more[p] = line[p]
  BY <1>1, <1>5, <1>6
<1>8. more[q] = v /\ counts = Tally(P, line)
  BY <1>1, <1>5, <1>6
<1>9. /\ IsFiniteSet(P \cup {q})
      /\ Tally(P \cup {q}, more) = Counted(counts, v)
  <2>1. IsFiniteSet(P)
    BY <1>7
  <2>2. Alike(P, more, line)
    BY <1>7 DEF Alike
  <2> QED
    BY <1>7, <1>8, <2>1, <2>2, OneMoreCounted
<1>10. counts' = Counted(counts, v)
  BY <1>6 DEF Traced, FlamegraphIncrement, Counted
<1>11. Places(k) = P \cup {q} /\ log' = k
  BY <1>2, <1>3, <1>5, <1>6 DEF Logged
<1>12. IsFiniteSet(Places(k)) /\ counts' = Tally(Places(k), Lines(k))
  BY <1>6, <1>9, <1>10, <1>11
<1>13. \A l : Lines(l)' = Lines(l)
  BY <1>2, ShownSame
<1>14. IsFiniteSet(Places(log')) /\ counts' = Tally(Places(log'), Lines(log'))
  BY <1>11, <1>12
<1>15. Lines(log)' = Lines(log')
  BY <1>13
<1> QED
  BY <1>14, <1>15 DEF CountsAreOfLog

LEMMA WriteKeeps ==
  ASSUME RecInv, WriteFile
  PROVE  RecInv'
<1>1. UNCHANGED <<settings, events, prev_traces, profiles, table, counts, log>>
  BY DEF WriteFile
<1>2. /\ settings \in Configs /\ prev_traces \in [Threads -> Seq(AllFrames)]
      /\ events \in Seq(AllEvents)
  BY DEF RecInv, Recording
<1>3. settings.lines \in BOOLEAN
  BY <1>2, SettingsOK
<1>4. PICK order \in SetToSeqs(Open) : file' = events \o Unfinished(order)
  BY DEF WriteFile, Open
<1>5. order \in Seq(Open) /\ Distinct(order) /\ Within(order) = Open
  BY OrderHasAll DEF RecInv, PrevIsOpen
<1>6. order \in Seq(Threads)
  <2>1. \A e \in Open : e \in Threads
    BY DEF Open
  <2> QED
    BY <1>5, <2>1
<1>7. PICK u : u = Unfinished(order)
  OBVIOUS
<1>8. /\ u \in Seq(AllEvents)
      /\ \A t \in Threads : Replay(ShownStack(prev_traces[t]), u, t)
                              = IF t \in Open THEN <<>> ELSE ShownStack(prev_traces[t])
  BY <1>2, <1>3, <1>5, <1>6, <1>7, UnfinishedCloses
<1>9. ShownStack(<<>>) = <<>>
  <2>1. <<>> \in Seq(AllFrames) /\ Len(<<>>) = 0
    OBVIOUS
  <2>2. ShownStack(<<>>) \in Seq(AllFrames) /\ Len(ShownStack(<<>>)) = 0
    BY <1>3, <2>1, StackIs
  <2> QED
    BY <2>2
<1>10. ASSUME NEW t \in Threads
       PROVE  OpenSlices(file', t) = <<>>
  <2>1. Replay(<<>>, events \o u, t) = Replay(Replay(<<>>, events, t), u, t)
    BY <1>2, <1>8, ReplayConcat
  <2>2. Replay(<<>>, events, t) = ShownStack(prev_traces[t])
    BY DEF RecInv, PrevIsOpen, OpenSlices
  <2>3. t \notin Open => prev_traces[t] = <<>>
    BY DEF Open
  <2> QED
    BY <1>4, <1>7, <1>8, <1>9, <2>1, <2>2, <2>3 DEF OpenSlices
<1>11. FileCloses'
  BY <1>10 DEF FileCloses
<1>12. /\ \A s : ShownStack(s)' = ShownStack(s)
       /\ \A l : Lines(l)' = Lines(l)
  BY <1>1, ShownSame
<1>13. Recording' /\ PrevIsLast'
  BY <1>1 DEF RecInv, Recording, PrevIsLast
<1>14. PrevIsOpen'
  BY <1>1, <1>12 DEF RecInv, PrevIsOpen, Open
<1>15. ProfilesStand'
  <2>1. \A f : Shown(f)' = Shown(f) /\ Key(f)' = Key(f)
    BY <1>1, ShownSame
  <2>2. TableOK(table.frames, table.index)'
    BY <1>1, <2>1 DEF RecInv, ProfilesStand, TableOK
  <2>3. (DOMAIN table.index = {Key(frame) : frame \in FramesIn(log)})'
    BY <1>1, <2>1 DEF RecInv, ProfilesStand, FramesIn
  <2> QED
    BY <1>1, <1>12, <2>2, <2>3 DEF RecInv, ProfilesStand, Decodes
<1>16. CountsAreOfLog'
  BY <1>1, <1>12 DEF RecInv, CountsAreOfLog
<1> QED
  BY <1>11, <1>13, <1>14, <1>15, <1>16 DEF RecInv

LEMMA RecInvNext == RecInv /\ [Next]_recorderVars => RecInv'
<1> SUFFICES ASSUME RecInv, [Next]_recorderVars
             PROVE  RecInv'
  OBVIOUS
<1>1. ASSUME NEW t \in Threads, RecordTrace(t)
      PROVE  RecInv'
  <2>1. PICK s : Traced(t, s)
    BY <1>1, RecordTraceIs
  <2>2. Recording' /\ PrevIsLast'
    BY <2>1, RecordKeepsRecording
  <2>3. PrevIsOpen' /\ FileCloses'
    BY <2>1, RecordKeepsOpen
  <2>4. ProfilesStand'
    BY <2>1, RecordKeepsProfiles
  <2>5. CountsAreOfLog'
    BY <2>1, RecordKeepsCounts
  <2> QED
    BY <2>2, <2>3, <2>4, <2>5 DEF RecInv
<1>2. CASE WriteFile
  BY <1>2, WriteKeeps
<1>3. CASE UNCHANGED recorderVars
  <2>1. UNCHANGED <<settings, events, prev_traces, profiles, table, counts, file, written, log>>
    BY <1>3 DEF recorderVars
  <2>2. /\ \A s : ShownStack(s)' = ShownStack(s)
        /\ \A l : Lines(l)' = Lines(l)
    BY <2>1, ShownSame
  <2>3. Recording' /\ PrevIsLast' /\ FileCloses'
    BY <2>1 DEF RecInv, Recording, PrevIsLast, FileCloses
  <2>4. PrevIsOpen'
    BY <2>1, <2>2 DEF RecInv, PrevIsOpen, Open
  <2>5. ProfilesStand'
    <3>1. \A f : Shown(f)' = Shown(f) /\ Key(f)' = Key(f)
      BY <2>1, ShownSame
    <3>2. TableOK(table.frames, table.index)'
      BY <2>1, <3>1 DEF RecInv, ProfilesStand, TableOK
    <3>3. (DOMAIN table.index = {Key(frame) : frame \in FramesIn(log)})'
      BY <2>1, <3>1 DEF RecInv, ProfilesStand, FramesIn
    <3> QED
      BY <2>1, <2>2, <3>2, <3>3 DEF RecInv, ProfilesStand, Decodes
  <2>6. CountsAreOfLog'
    BY <2>1, <2>2 DEF RecInv, CountsAreOfLog
  <2> QED
    BY <2>3, <2>4, <2>5, <2>6 DEF RecInv
<1> QED
  BY <1>1, <1>2, <1>3 DEF Next

LEMMA RecInvAlways == Spec => []RecInv
BY RecInvInit, RecInvNext, PTL DEF Spec

\* What is open is what the last trace shows.
LEMMA LastIsPrev ==
  ASSUME RecInv
  PROVE  \A t \in Threads : LastTrace(t) = ShownStack(prev_traces[t])
<1>1. settings.lines \in BOOLEAN
  BY SettingsOK DEF RecInv, Recording
<1>2. ShownStack(<<>>) = <<>>
  <2>1. <<>> \in Seq(AllFrames) /\ Len(<<>>) = 0
    OBVIOUS
  <2>2. ShownStack(<<>>) \in Seq(AllFrames) /\ Len(ShownStack(<<>>)) = 0
    BY <1>1, <2>1, StackIs
  <2> QED
    BY <2>2
<1> QED
  BY <1>2 DEF RecInv, PrevIsLast, LastTrace

-----------------------------------------------------------------------------
(***************************************************************************)
(* The theorems.                                                           *)
(***************************************************************************)

\* However long the recording and however many the threads, the begin and end
\* events of each nest, and every slice is ended in the file (chrometrace.rs,
\* increment and write).
THEOREM EventsNest == Spec => []SlicesAreStacks
<1>1. RecInv => SlicesAreStacks
  <2> SUFFICES ASSUME RecInv
               PROVE  SlicesAreStacks
    OBVIOUS
  <2>1. \A t \in Threads : OpenSlices(events, t) = ShownStack(prev_traces[t])
    BY DEF RecInv, PrevIsOpen
  <2>2. written => \A t \in Threads : OpenSlices(file, t) = <<>>
    BY DEF RecInv, FileCloses
  <2> QED
    BY <2>1, <2>2, LastIsPrev DEF SlicesAreStacks
<1> QED
  BY <1>1, RecInvAlways, PTL

\* An entry for each frame that was recorded, as it is shown, and its module.
LEMMA TableHoldsEach ==
  ASSUME RecInv
  PROVE  Len(table.frames) = Cardinality({<<Shown(frame), frame.module>> : frame \in FramesIn(log)})
<1>1. PICK fr, ix, P : /\ fr = table.frames /\ ix = table.index
                       /\ P = {<<Shown(frame), frame.module>> : frame \in FramesIn(log)}
  OBVIOUS
<1>2. TableOK(fr, ix) /\ DOMAIN ix = {Key(frame) : frame \in FramesIn(log)}
  BY <1>1 DEF RecInv, ProfilesStand
<1>3. settings.lines \in BOOLEAN
  BY SettingsOK DEF RecInv, Recording
<1>4. \A f \in FramesIn(log) : f \in AllFrames
  <2> SUFFICES ASSUME NEW f \in FramesIn(log)
               PROVE  f \in AllFrames
    OBVIOUS
  <2>1. PICK t \in Threads : \E i \in DOMAIN log[t] : f \in Range(log[t][i])
    BY FramesInIs
  <2>2. PICK i \in DOMAIN log[t] : f \in Range(log[t][i])
    BY <2>1
  <2>3. log[t] \in Seq(Seq(AllFrames))
    BY DEF RecInv, Recording
  <2>4. log[t][i] \in Seq(AllFrames)
    BY <2>3
  <2> QED
    BY <2>2, <2>4 DEF Range
<1>5. ASSUME NEW k \in DOMAIN ix
      PROVE  \E f \in FramesIn(log) : k = Key(f) /\ <<Shown(k), k.module>> = <<Shown(f), f.module>>
  <2>1. PICK f \in FramesIn(log) : k = Key(f)
    BY <1>2
  <2>2. Shown(k) = Shown(f) /\ k.module = f.module
    BY <1>3, <1>4, <2>1, KeyShown, KeyIs
  <2> QED
    BY <2>1, <2>2
<1>6. PICK n : n = Len(fr)
  OBVIOUS
<1>7. /\ n \in Nat
      /\ \A k \in DOMAIN ix : ix[k] \in 0 .. n - 1
      /\ \A i \in 1 .. n : \E k \in DOMAIN ix : ix[k] = i - 1
      /\ \A k, l \in DOMAIN ix : ix[k] = ix[l] => k = l
  BY <1>2, <1>6 DEF TableOK
<1> DEFINE KeyAt(i) == CHOOSE k \in DOMAIN ix : ix[k] = i - 1
<1>8. ASSUME NEW i \in 1 .. n
      PROVE  KeyAt(i) \in DOMAIN ix /\ ix[KeyAt(i)] = i - 1
  BY <1>7
<1> HIDE DEF KeyAt
<1> DEFINE b == [i \in 1 .. n |-> <<Shown(KeyAt(i)), KeyAt(i).module>>]
<1>9. \A i \in 1 .. n : b[i] = <<Shown(KeyAt(i)), KeyAt(i).module>>
  OBVIOUS
<1>10. DOMAIN b = 1 .. n /\ b = [i \in 1 .. n |-> b[i]]
  OBVIOUS
<1> HIDE DEF b
<1>11. ASSUME NEW i \in 1 .. n
       PROVE  b[i] \in P
  <2>1. PICK k : k = KeyAt(i) /\ k \in DOMAIN ix
    BY <1>8
  <2>2. PICK f \in FramesIn(log) : <<Shown(k), k.module>> = <<Shown(f), f.module>>
    BY <1>5, <2>1
  <2>3. b[i] = <<Shown(f), f.module>>
    BY <1>9, <2>1, <2>2
  <2> QED
    BY <1>1, <2>3
<1>12. ASSUME NEW i \in 1 .. n, NEW j \in 1 .. n, b[i] = b[j]
       PROVE  i = j
  <2>1. PICK k, l : /\ k = KeyAt(i) /\ k \in DOMAIN ix /\ ix[k] = i - 1
                    /\ l = KeyAt(j) /\ l \in DOMAIN ix /\ ix[l] = j - 1
    BY <1>8
  <2>2. PICK f \in FramesIn(log) : k = Key(f) /\ <<Shown(k), k.module>> = <<Shown(f), f.module>>
    BY <1>5, <2>1
  <2>3. PICK g \in FramesIn(log) : l = Key(g) /\ <<Shown(l), l.module>> = <<Shown(g), g.module>>
    BY <1>5, <2>1
  <2>4. <<Shown(f), f.module>> = <<Shown(g), g.module>>
    BY <1>9, <1>12, <2>1, <2>2, <2>3
  <2>5. Key(f) = Key(g)
    BY <1>3, <1>4, <2>4, KeyTells
  <2>6. i - 1 = j - 1
    BY <2>1, <2>2, <2>3, <2>5
  <2> QED
    BY <1>7, <2>6
<1>13. ASSUME NEW p \in P
       PROVE  \E i \in 1 .. n : b[i] = p
  <2>1. PICK f \in FramesIn(log) : p = <<Shown(f), f.module>>
    BY <1>1
  <2>2. PICK k : k = Key(f) /\ k \in DOMAIN ix
    BY <1>2
  <2>3. PICK i : i = ix[k] + 1
    OBVIOUS
  <2>4. i \in 1 .. n /\ ix[k] = i - 1
    BY <1>7, <2>2, <2>3
  <2>5. KeyAt(i) = k
    BY <1>7, <1>8, <2>2, <2>4
  <2>6. Shown(k) = Shown(f) /\ k.module = f.module
    BY <1>3, <1>4, <2>2, KeyShown, KeyIs
  <2> QED
    BY <1>9, <2>1, <2>4, <2>5, <2>6
<1>14. b \in Bijection(1 .. n, P)
  <2>1. b \in [1 .. n -> P]
    BY <1>10, <1>11
  <2> QED
    BY <1>12, <1>13, <2>1, Fun_IsBij
<1>15. ExistsBijection(1 .. n, P)
  BY <1>14, Fun_ExistsBij
<1>16. Cardinality(P) = n
  BY <1>7, <1>15, FS_CountingElements
<1> QED
  BY <1>1, <1>6, <1>16

\* Every sample of every speedscope profile, looked up in the table of frames, is
\* the trace that was recorded, and the table has one entry for each frame, as it is
\* shown, and module (speedscope.rs, record).
THEOREM ProfilesAreTraces == Spec => []ProfilesDecode
<1>1. RecInv => ProfilesDecode
  <2> SUFFICES ASSUME RecInv
               PROVE  ProfilesDecode
    OBVIOUS
  <2>1. /\ TableOK(table.frames, table.index) /\ profiles \in [Threads -> Seq(Seq(Nat))]
        /\ log \in [Threads -> Seq(Seq(AllFrames))]
    BY DEF RecInv, Recording, ProfilesStand
  <2>2. settings.lines \in BOOLEAN
    BY SettingsOK DEF RecInv, Recording
  <2>3. PICK fr : fr = table.frames
    OBVIOUS
  <2>4. fr \in Seq(AllFrames) /\ DOMAIN fr = 1 .. Len(fr) /\ Len(fr) \in Nat
    BY <2>1, <2>3 DEF TableOK
  <2>5. Len(table.frames) = Cardinality({<<Shown(frame), frame.module>> : frame \in RecordedFrames})
    BY TableHoldsEach DEF RecordedFrames, FramesIn
  <2>6. ASSUME NEW t \in Threads
        PROVE  /\ DOMAIN profiles[t] = DOMAIN log[t]
               /\ \A i \in DOMAIN profiles[t] : /\ log[t][i] \in Seq(AllFrames)
                                                /\ Decodes(fr, profiles[t][i], log[t][i])
    <3>1. profiles[t] \in Seq(Seq(Nat)) /\ log[t] \in Seq(Seq(AllFrames))
      BY <2>1
    <3>2. Len(profiles[t]) = Len(log[t])
      BY DEF RecInv, ProfilesStand
    <3>3. DOMAIN profiles[t] = 1 .. Len(log[t]) /\ DOMAIN log[t] = 1 .. Len(log[t])
      BY <3>1, <3>2
    <3> QED
      BY <2>3, <3>1, <3>3 DEF RecInv, ProfilesStand
  <2>7. ASSUME NEW t \in Threads, NEW i \in DOMAIN profiles[t], NEW j \in DOMAIN profiles[t][i]
        PROVE  profiles[t][i][j] \in 0 .. Len(fr) - 1
    <3>1. PICK is, s : is = profiles[t][i] /\ s = log[t][i]
      OBVIOUS
    <3>2. s \in Seq(AllFrames) /\ Decodes(fr, is, s)
      BY <2>6, <3>1
    <3>3. is \in Seq(Nat) /\ Len(is) = Len(s) /\ j \in 1 .. Len(s)
      BY <2>7, <3>1, <3>2 DEF Decodes
    <3>4. is[j] \in Nat /\ is[j] < Len(fr)
      BY <3>2, <3>3 DEF Decodes
    <3> QED
      BY <2>4, <3>1, <3>4
  <2>8. ASSUME NEW t \in Threads, NEW i \in DOMAIN profiles[t]
        PROVE  Decoded(profiles[t][i]) = ShownStack(log[t][i])
    <3>1. PICK is, s : is = profiles[t][i] /\ s = log[t][i]
      OBVIOUS
    <3>2. s \in Seq(AllFrames) /\ Decodes(table.frames, is, s)
      BY <2>3, <2>6, <3>1
    <3>3. Decoded(is) = ShownStack(s)
      BY <2>2, <3>2, DecodedIs
    <3> QED
      BY <3>1, <3>3
  <2>9. ASSUME NEW t \in Threads
        PROVE  [i \in DOMAIN profiles[t] |-> Decoded(profiles[t][i])]
                 = [i \in DOMAIN log[t] |-> ShownStack(log[t][i])]
    BY <2>6, <2>8
  <2> QED
    BY <2>3, <2>5, <2>7, <2>9 DEF ProfilesDecode
<1> QED
  BY <1>1, RecInvAlways, PTL

\* A flame graph counts every line as often as the speedscope profiles of all threads
\* hold a stack that reads as that line (flamegraph.rs, increment; speedscope.rs,
\* record).
THEOREM FormatsCountAlike == Spec => []FormatsAgree
<1>1. RecInv => FormatsAgree
  <2> SUFFICES ASSUME RecInv
               PROVE  FormatsAgree
    OBVIOUS
  <2>1. /\ profiles \in [Threads -> Seq(Seq(Nat))] /\ log \in [Threads -> Seq(Seq(AllFrames))]
    BY DEF RecInv, Recording, ProfilesStand
  <2>2. settings.lines \in BOOLEAN
    BY SettingsOK DEF RecInv, Recording
  <2>3. ASSUME NEW t \in Threads
        PROVE  DOMAIN profiles[t] = DOMAIN log[t] /\ DOMAIN log[t] = 1 .. Len(log[t])
    <3>1. profiles[t] \in Seq(Seq(Nat)) /\ log[t] \in Seq(Seq(AllFrames))
      BY <2>1
    <3>2. Len(profiles[t]) = Len(log[t])
      BY DEF RecInv, ProfilesStand
    <3> QED
      BY <3>1, <3>2
  <2>4. Recorded = Places(log)
    BY <2>3 DEF Recorded, Places
  <2>5. ASSUME NEW p \in Places(log)
        PROVE  ReadsAs(p) = Lines(log)[p]
    <3>1. PICK t, i : t \in Threads /\ i \in DOMAIN log[t] /\ p = <<t, i>>
      BY DEF Places
    <3>2. PICK is, s : is = profiles[t][i] /\ s = log[t][i]
      OBVIOUS
    <3>3. i \in 1 .. Len(log[t]) /\ log[t] \in Seq(Seq(AllFrames))
      BY <2>1, <2>3, <3>1
    <3>4. s \in Seq(AllFrames)
      BY <3>2, <3>3
    <3>5. Decodes(table.frames, is, s)
      BY <3>1, <3>2, <3>3 DEF RecInv, ProfilesStand
    <3>6. Decoded(is) = ShownStack(s)
      BY <2>2, <3>4, <3>5, DecodedIs
    <3>7. p[1] = t /\ p[2] = i
      BY <3>1
    <3>8. ReadsAs(p) = Shortened(Decoded(is))
      BY <3>2, <3>7 DEF ReadsAs
    <3>9. Lines(log)[p] = Shortened(ShownStack(s))
      BY <3>2, <3>7 DEF Lines, LineOf
    <3> QED
      BY <3>6, <3>8, <3>9
  <2>6. counts = Tally(Places(log), Lines(log))
    BY DEF RecInv, CountsAreOfLog
  <2>7. {ReadsAs(p) : p \in Recorded} = {Lines(log)[p] : p \in Places(log)}
    BY <2>4, <2>5
  <2>8. ASSUME NEW v
        PROVE  {p \in Recorded : ReadsAs(p) = v} = {p \in Places(log) : Lines(log)[p] = v}
    BY <2>4, <2>5
  <2> QED
    BY <2>6, <2>7, <2>8 DEF FormatsAgree, Tally
<1> QED
  BY <1>1, RecInvAlways, PTL

\* A frame that stays on the stack stays one slice: a trace ends and begins no
\* more slices than those it does not share with the one before it
\* (chrometrace.rs, increment).
THEOREM FramesStayOneSlice == Spec => SlicesGoOn
<1> DEFINE Step == \A t \in Threads :
                     LET common == LongestCommonPrefix({LastTrace(t), LastTrace(t)'})
                     IN  log'[t] # log[t] =>
                           Len(events') - Len(events)
                             = Len(LastTrace(t)) + Len(LastTrace(t)') - 2 * Len(common)
<1>1. RecInv /\ RecInv' /\ [Next]_recorderVars => Step
  <2> SUFFICES ASSUME RecInv, RecInv', [Next]_recorderVars,
                      NEW t \in Threads, log'[t] # log[t]
               PROVE  Len(events') - Len(events)
                        = Len(LastTrace(t)) + Len(LastTrace(t)')
                            - 2 * Len(LongestCommonPrefix({LastTrace(t), LastTrace(t)'}))
    OBVIOUS
  <2>1. /\ settings \in Configs /\ log \in [Threads -> Seq(Seq(AllFrames))]
        /\ prev_traces \in [Threads -> Seq(AllFrames)] /\ events \in Seq(AllEvents)
    BY DEF RecInv, Recording
  <2>2. PICK o \in Threads : RecordTrace(o)
    BY DEF Next, WriteFile, recorderVars
  <2>3. PICK s : Traced(o, s)
    BY <2>2, RecordTraceIs
  <2>4. o = t
    BY <2>1, <2>3 DEF Traced
  <2>5. PICK p, e, b : /\ p = prev_traces[t] /\ e = EndEvents(t, prev_traces[t], s)
                       /\ b = BeginEvents(t, prev_traces[t], s)
    OBVIOUS
  <2>6. /\ s \in Seq(AllFrames) /\ p \in Seq(AllFrames) /\ settings' = settings
        /\ prev_traces'[t] = s /\ events' = (events \o e) \o b
    BY <2>1, <2>3, <2>4, <2>5 DEF Traced
  <2>7. settings.lines \in BOOLEAN
    BY <2>1, SettingsOK
  <2>8. PICK k : k = NewIndex(p, s)
    OBVIOUS
  <2>9. e \in Seq(AllEvents) /\ b \in Seq(AllEvents) /\ Len(e) = Len(p) - k /\ Len(b) = Len(s) - k
    BY <2>5, <2>6, <2>7, <2>8, IncrementShows
  <2>10. PICK l, m : l = ShownStack(p) /\ m = ShownStack(s)
    OBVIOUS
  <2>11. l \in Seq(AllFrames) /\ Len(l) = Len(p)
    BY <2>6, <2>7, <2>10, StackIs
  <2>12. m \in Seq(AllFrames) /\ Len(m) = Len(s)
    BY <2>6, <2>7, <2>10, StackIs
  <2>13. /\ k \in Nat /\ k <= Len(p) /\ k <= Len(s) /\ \A i \in 1 .. k : l[i] = m[i]
         /\ k = Len(p) \/ k = Len(s) \/ l[k + 1] # m[k + 1]
    BY <2>6, <2>7, <2>8, <2>10, NewIndexIs
  <2>14. Len(LongestCommonPrefix({l, m})) = k
    BY <2>11, <2>12, <2>13, CommonIs
  <2>15. Len(events') = (Len(events) + Len(e)) + Len(b) /\ Len(events) \in Nat
    <3>1. PICK both : both = events \o e
      OBVIOUS
    <3>2. both \in Seq(AllEvents) /\ Len(both) = Len(events) + Len(e)
      BY <2>1, <2>9, <3>1
    <3>3. Len(both \o b) = Len(both) + Len(b)
      BY <2>9, <3>2
    <3> QED
      BY <2>1, <2>6, <3>1, <3>2, <3>3
  <2>16. LastTrace(t) = l
    BY <2>5, <2>10, LastIsPrev
  <2>17. LastTrace(t)' = m
    <3>1. log'[t] = Append(log[t], s)
      BY <2>1, <2>3, <2>4 DEF Traced
    <3>2. log'[t] # <<>> /\ Last(log'[t]) = s
      <4>1. PICK F, h : F = Seq(AllFrames) /\ h = log[t]
        OBVIOUS
      <4>2. h \in Seq(F) /\ s \in F
        BY <2>1, <2>6, <4>1
      <4>3. Append(h, s) # <<>> /\ Last(Append(h, s)) = s
        BY <4>2, OneMore
      <4> QED
        BY <3>1, <4>1, <4>3
    <3>3. ShownStack(s)' = ShownStack(s)
      BY <2>6, ShownSame
    <3>4. LastTrace(t)' = ShownStack(s)'
      BY <3>2 DEF LastTrace
    <3> QED
      BY <2>10, <3>3, <3>4
  <2>18. Len(p) \in Nat /\ Len(s) \in Nat
    BY <2>6
  <2>19. PICK a, c, d : a = Len(p) /\ c = Len(s) /\ d = Len(events)
    OBVIOUS
  <2>20. Len(events') - Len(events) = (a + c) - 2 * k
    BY <2>9, <2>13, <2>15, <2>18, <2>19
  <2>21. Len(LastTrace(t)) = a /\ Len(LastTrace(t)') = c
    BY <2>11, <2>12, <2>16, <2>17, <2>19
  <2>22. Len(LongestCommonPrefix({LastTrace(t), LastTrace(t)'})) = k
    BY <2>14, <2>16, <2>17
  <2> QED
    BY <2>20, <2>21, <2>22
<1>2. Spec => [][Step]_recorderVars
  BY <1>1, RecInvAlways, PTL DEF Spec
<1> QED
  BY <1>2 DEF SlicesGoOn
=============================================================================
