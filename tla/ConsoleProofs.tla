---------------------------- MODULE ConsoleProofs ----------------------------
(***************************************************************************)
(* Proofs about Console, for every set of terminals and inputs.            *)
(***************************************************************************)
EXTENDS Console, FiniteSetTheorems, WellFoundedInduction, TLAPS

Options == [dirty : BOOLEAN, usage : BOOLEAN, lines : BOOLEAN, reset : BOOLEAN]

Gone == {"stuck", "ended"}

\* `dirty` is set exactly while a key is still to be shown, and the keys an
\* increment began with are waited for only until it returns.
KeysInv ==
  /\ options \in Options /\ pressed \in BOOLEAN /\ waiting \in BOOLEAN
  /\ viewer \notin Gone => (pressed <=> options.dirty)
  /\ waiting => pressed /\ viewer \notin {"next", "reset"}

LEMMA KeysInit == Init => KeysInv
BY DEF Init, KeysInv, Options, Gone

LEMMA KeysNext == KeysInv /\ [Next]_consoleVars => KeysInv'
<1> SUFFICES ASSUME KeysInv, [Next]_consoleVars PROVE KeysInv'
  OBVIOUS
<1> USE DEF KeysInv, Gone
<1>1. CASE Input
  <2>1. ASSUME NEW changed, changed \in Options, Press(changed)
        PROVE  KeysInv'
    <3>1. options' \in Options /\ options'.dirty
      BY <2>1 DEF Press, Options
    <3> QED BY <2>1, <3>1 DEF Press
  <2>2. CASE KeyReset
    <3>1. [options EXCEPT !.reset = TRUE] \in Options
      BY DEF Options
    <3> QED BY <2>1, <2>2, <3>1 DEF KeyReset
  <2>3. CASE KeyLines
    <3>1. [options EXCEPT !.lines = ~ @] \in Options
      BY DEF Options
    <3> QED BY <2>1, <2>3, <3>1 DEF KeyLines
  <2>4. CASE KeyHelp
    <3>1. PICK u \in BOOLEAN : Press([options EXCEPT !.usage = u])
      BY <2>4 DEF KeyHelp
    <3>2. [options EXCEPT !.usage = u] \in Options
      BY DEF Options
    <3> QED BY <2>1, <3>1, <3>2
  <2>5. CASE KeyOther
    BY <2>1, <2>5 DEF KeyOther
  <2> QED BY <1>1, <2>2, <2>3, <2>4, <2>5 DEF Input
<1>2. CASE Receive
  BY <1>2 DEF Receive, ghosts
<1>3. CASE End
  BY <1>3 DEF End, ghosts
<1>4. CASE MaybeReset
  BY <1>4 DEF MaybeReset, Options
<1>5. CASE Count
  BY <1>5 DEF Count
<1>6. CASE CheckRefresh
  <2>1. CASE ShouldRefresh
    BY <1>6, <2>1 DEF CheckRefresh, ghosts
  <2>2. CASE ~ ShouldRefresh
    <3>1. ~ options.dirty
      BY <2>2 DEF ShouldRefresh
    <3>2. ~ pressed /\ ~ waiting
      BY <1>6, <3>1 DEF CheckRefresh
    <3> QED BY <1>6, <2>2, <3>2 DEF CheckRefresh, Return, ghosts
  <2> QED BY <2>1, <2>2
<1>7. CASE Display
  BY <1>7 DEF Display, Return, Options
<1>8. CASE DisplayUnderflow
  BY <1>8 DEF DisplayUnderflow, ghosts, Options
<1>9. CASE DisplayFails
  BY <1>9 DEF DisplayFails, ghosts, Options
<1>10. CASE UNCHANGED consoleVars
  BY <1>10 DEF consoleVars, ghosts
<1> QED BY <1>1, <1>2, <1>3, <1>4, <1>5, <1>6, <1>7, <1>8, <1>9, <1>10 DEF Next

\* A key pressed before an increment begins is shown by the time it returns: the
\* mark `dirty` is not lost between the three times the increment takes the mutex
\* (should_refresh, display, the input thread).
THEOREM KeysAreShown == Spec => []KeysShown
<1>1. KeysInv => KeysShown
  BY DEF KeysInv, KeysShown
<1> QED BY KeysInit, KeysNext, <1>1, PTL DEF Spec

-----------------------------------------------------------------------------
TerminalOK == terminal \in Terminals

\* The header with the help and a warning takes 19 lines, and half the height of
\* a narrow terminal.
LEMMA HeaderBound ==
  ASSUME TerminalOK, HeaderLines > terminal.height
  PROVE  terminal.height < 19 \/ (terminal.narrow /\ terminal.height < 37)
<1>1. terminal.height \in Nat /\ terminal.narrow \in BOOLEAN
  BY ConsoleAssumption DEF TerminalOK
<1> DEFINE h == terminal.height
           own == IF terminal.narrow THEN h \div 2 ELSE 0
           warn == IF stats.delayed /\ stats.late_samples * 10 > stats.overall_samples THEN 1 ELSE 0
           help == IF options.usage THEN 18 ELSE 8
<1>2. warn \in {0, 1} /\ help \in {8, 18}
  OBVIOUS
<1>3. help + warn + own > h
  BY DEF HeaderLines
<1> HIDE DEF warn, help
<1>4. CASE terminal.narrow
  <2>1. 19 + h \div 2 > h
    BY <1>1, <1>2, <1>3, <1>4
  <2> QED BY <1>1, <1>4, <2>1
<1>5. CASE ~ terminal.narrow
  BY <1>1, <1>2, <1>3, <1>5
<1> QED BY <1>4, <1>5

\* Drawing comes to an end on every terminal of at least 19 lines, or of 37 if it
\* is at most 50 columns wide (display).
THEOREM LargeTerminalsAreDrawn == Spec => []DrawnIfLargeEnough
<1> DEFINE Inv == TerminalOK /\ DrawnIfLargeEnough
<1>1. Init => Inv
  BY DEF Init, TerminalOK, DrawnIfLargeEnough
<1>2. Inv /\ [Next]_consoleVars => Inv'
  <2> SUFFICES ASSUME Inv, [Next]_consoleVars PROVE Inv'
    OBVIOUS
  <2>1. terminal' = terminal
    BY DEF Next, consoleVars, Input, KeyReset, KeyLines, KeyHelp, KeyOther, Press, Receive, End,
           MaybeReset, Count, CheckRefresh, Display, DisplayUnderflow, DisplayFails
  <2>2. CASE DisplayUnderflow
    <3>1. terminal.height < 19 \/ (terminal.narrow /\ terminal.height < 37)
      BY <2>2, HeaderBound DEF DisplayUnderflow
    <3> QED BY <2>1, <3>1 DEF TerminalOK, DrawnIfLargeEnough
  <2>3. CASE ~ DisplayUnderflow
    <3>1. viewer' = "stuck" => viewer = "stuck"
      BY <2>3 DEF Next, consoleVars, Input, KeyReset, KeyLines, KeyHelp, KeyOther, Press, Receive,
                  End, MaybeReset, Count, CheckRefresh, Display, DisplayFails, Return
    <3> QED BY <2>1, <3>1 DEF TerminalOK, DrawnIfLargeEnough
  <2> QED BY <2>2, <2>3
<1>3. Inv => DrawnIfLargeEnough
  OBVIOUS
<1> QED BY <1>1, <1>2, <1>3, PTL DEF Spec

-----------------------------------------------------------------------------
(***************************************************************************)
(* Induction on the numbers, from the theorem that a set of them has a     *)
(* least one.                                                              *)
(***************************************************************************)

\* A set of numbers has a least one.
LEMMA LeastNumber ==
  ASSUME NEW S \in SUBSET Nat, S # {}
  PROVE  \E m \in S : \A k \in S : m <= k
<1> DEFINE less == OpToRel(<, Nat)
<1>1. PICK m \in S : \A k \in S : <<k, m>> \notin less
  BY NatLessThanWellFounded, WFMin
<1>2. ASSUME NEW k \in S
      PROVE  ~ (k < m)
  <2>1. <<k, m>> \in less <=> k < m
    BY DEF OpToRel
  <2> QED
    BY <1>1, <2>1
<1> HIDE DEF less
<1> QED
  BY <1>2

\* A set of numbers that has 0, and the next number of each in it up to n, has
\* all numbers up to n.
LEMMA NumberInduction ==
  ASSUME NEW n \in Nat, NEW T, 0 \in T, \A k \in 0 .. n - 1 : k \in T => k + 1 \in T
  PROVE  \A k \in 0 .. n : k \in T
<1> DEFINE Out == {k \in 0 .. n : k \notin T}
<1> SUFFICES ASSUME Out # {}
             PROVE  FALSE
  OBVIOUS
<1>0. Out \in SUBSET Nat
  OBVIOUS
<1>1. PICK m \in Out : \A k \in Out : m <= k
  <2> HIDE DEF Out
  <2> QED
    BY <1>0, LeastNumber
<1>2. m \in 1 .. n /\ m - 1 \in 0 .. n - 1 /\ m - 1 \notin Out
  BY <1>1
<1> QED
  BY <1>2

-----------------------------------------------------------------------------
(***************************************************************************)
(* How many traces of a sequence have a key.                               *)
(***************************************************************************)

\* Where s has a trace of H.
Places(s, H) == {i \in DOMAIN s : s[i] \in H}

\* Of a sequence with one trace more, as many places hold one of H as before, or
\* one more.
LEMMA PlacesOfAppend ==
  ASSUME NEW s \in Seq(Traces), NEW tr \in Traces, NEW H
  PROVE  /\ Cardinality(Places(s, H)) \in Nat
         /\ Cardinality(Places(Append(s, tr), H))
              = IF tr \in H THEN Cardinality(Places(s, H)) + 1 ELSE Cardinality(Places(s, H))
<1> DEFINE t == Append(s, tr)
           m == Len(s)
           Old == Places(s, H)
           New == Places(t, H)
<1>1. /\ m \in Nat /\ DOMAIN s = 1 .. m /\ DOMAIN t = 1 .. m + 1
      /\ t[m + 1] = tr /\ \A i \in 1 .. m : t[i] = s[i]
  OBVIOUS
<1>2. Old = {i \in 1 .. m : s[i] \in H} /\ New = {i \in 1 .. m + 1 : t[i] \in H}
  BY <1>1 DEF Places
<1> HIDE DEF t, m, Old, New
<1>3. IsFiniteSet(Old)
  <2>1. IsFiniteSet(1 .. m)
    BY <1>1, FS_Interval
  <2> QED
    BY <1>2, <2>1, FS_Subset
<1>4. Cardinality(Old) \in Nat
  BY <1>3, FS_CardinalityType
<1>5. CASE tr \in H
  <2>1. New = Old \cup {m + 1} /\ m + 1 \notin Old
    BY <1>1, <1>2, <1>5
  <2> QED
    BY <1>3, <1>4, <1>5, <2>1, FS_AddElement DEF Old, New, t
<1>6. CASE tr \notin H
  <2>1. New = Old
    BY <1>1, <1>2, <1>6
  <2> QED
    BY <1>4, <1>6, <2>1 DEF Old, New, t
<1> QED
  BY <1>5, <1>6

LEMMA TimesOfAppend ==
  ASSUME NEW s \in Seq(Traces), NEW tr \in Traces, NEW key, NEW byLine
  PROVE  /\ Times(s, key, byLine) \in Nat
         /\ Times(Append(s, tr), key, byLine)
              = IF key \in KeysOf(tr, byLine) THEN Times(s, key, byLine) + 1 ELSE Times(s, key, byLine)
<1> DEFINE t == Append(s, tr)
           H == {x \in Traces : key \in KeysOf(x, byLine)}
<1>1. t \in Seq(Traces)
  OBVIOUS
<1>2. \A r \in Seq(Traces) :
        {i \in DOMAIN r : key \in KeysOf(r[i], byLine)} = Places(r, H)
  BY DEF Places
<1>3. tr \in H <=> key \in KeysOf(tr, byLine)
  OBVIOUS
<1> HIDE DEF H
<1>4. /\ Times(s, key, byLine) = Cardinality(Places(s, H))
      /\ Times(t, key, byLine) = Cardinality(Places(t, H))
  BY <1>1, <1>2 DEF Times
<1> QED
  BY <1>3, <1>4, PlacesOfAppend

LEMMA OwnTimesOfAppend ==
  ASSUME NEW s \in Seq(Traces), NEW tr \in Traces, NEW key, NEW byLine
  PROVE  /\ OwnTimes(s, key, byLine) \in Nat
         /\ OwnTimes(Append(s, tr), key, byLine)
              = IF key \in OwnKeys(tr, byLine) THEN OwnTimes(s, key, byLine) + 1
                ELSE OwnTimes(s, key, byLine)
<1> DEFINE t == Append(s, tr)
           H == {x \in Traces : key \in OwnKeys(x, byLine)}
<1>1. t \in Seq(Traces)
  OBVIOUS
<1>2. \A r \in Seq(Traces) :
        {i \in DOMAIN r : key \in OwnKeys(r[i], byLine)} = Places(r, H)
  BY DEF Places
<1>3. tr \in H <=> key \in OwnKeys(tr, byLine)
  OBVIOUS
<1> HIDE DEF H
<1>4. /\ OwnTimes(s, key, byLine) = Cardinality(Places(s, H))
      /\ OwnTimes(t, key, byLine) = Cardinality(Places(t, H))
  BY <1>1, <1>2 DEF OwnTimes
<1> QED
  BY <1>3, <1>4, PlacesOfAppend

\* A key no trace has is had no times.
LEMMA NoTimes ==
  ASSUME NEW s, NEW key, NEW byLine
  PROVE  /\ (\A i \in DOMAIN s : key \notin KeysOf(s[i], byLine)) => Times(s, key, byLine) = 0
         /\ (\A i \in DOMAIN s : key \notin OwnKeys(s[i], byLine)) => OwnTimes(s, key, byLine) = 0
<1>1. ASSUME \A i \in DOMAIN s : key \notin KeysOf(s[i], byLine)
      PROVE  Times(s, key, byLine) = 0
  <2>1. {i \in DOMAIN s : key \in KeysOf(s[i], byLine)} = {}
    BY <1>1
  <2> QED
    BY <2>1, FS_EmptySet DEF Times
<1>2. ASSUME \A i \in DOMAIN s : key \notin OwnKeys(s[i], byLine)
      PROVE  OwnTimes(s, key, byLine) = 0
  <2>1. {i \in DOMAIN s : key \in OwnKeys(s[i], byLine)} = {}
    BY <1>2
  <2> QED
    BY <2>1, FS_EmptySet DEF OwnTimes
<1> QED
  BY <1>1, <1>2

-----------------------------------------------------------------------------
(***************************************************************************)
(* What counting a trace makes of a table.                                 *)
(***************************************************************************)

\* The current traces are among all.
Among(current, all) == \A j \in DOMAIN current : \E i \in DOMAIN all : all[i] = current[j]

AllKeys(all, byLine) == UNION {KeysOf(all[i], byLine) : i \in DOMAIN all}

\* One trace more, one trace's keys more.
LEMMA KeysOfAppend ==
  ASSUME NEW s \in Seq(Traces), NEW tr \in Traces, NEW byLine
  PROVE  AllKeys(Append(s, tr), byLine) = AllKeys(s, byLine) \cup KeysOf(tr, byLine)
<1> DEFINE t == Append(s, tr)
           m == Len(s)
<1>1. /\ m \in Nat /\ DOMAIN s = 1 .. m /\ DOMAIN t = 1 .. m + 1
      /\ t[m + 1] = tr /\ \A i \in 1 .. m : t[i] = s[i]
  OBVIOUS
<1> HIDE DEF t, m
<1>2. ASSUME NEW key
      PROVE  key \in AllKeys(t, byLine) <=> key \in AllKeys(s, byLine) \cup KeysOf(tr, byLine)
  <2>1. key \in AllKeys(t, byLine) <=> \E i \in 1 .. m + 1 : key \in KeysOf(t[i], byLine)
    BY <1>1 DEF AllKeys
  <2>2. key \in AllKeys(s, byLine) <=> \E i \in 1 .. m : key \in KeysOf(s[i], byLine)
    BY <1>1 DEF AllKeys
  <2>3. \A i \in 1 .. m + 1 : i \in 1 .. m \/ i = m + 1
    BY <1>1
  <2>4. m + 1 \in 1 .. m + 1 /\ \A i \in 1 .. m : i \in 1 .. m + 1
    BY <1>1
  <2> QED
    BY <1>1, <2>1, <2>2, <2>3, <2>4
<1> QED
  BY <1>2 DEF t

\* The keys of a trace are those update_function_statistics is given, and the
\* first is its own.
LEMMA KeysGiven ==
  ASSUME NEW tr \in Traces, NEW byLine, Counted(tr),
         NEW keys, keys = Keys(tr.frames, byLine)
  PROVE  /\ KeysOf(tr, byLine) = ToSet(keys)
         /\ \A key : key \in OwnKeys(tr, byLine) <=> keys # <<>> /\ keys[1] = key
<1> DEFINE f == tr.frames
<1>1. f \in Seq(Frames) /\ Len(f) \in Nat /\ DOMAIN f = 1 .. Len(f)
  BY DEF Traces
<1>2. DOMAIN keys = DOMAIN f /\ \A i \in DOMAIN f : keys[i] = Key(f[i], byLine)
  BY DEF Keys
<1>3. ToSet(keys) = {keys[i] : i \in DOMAIN keys}
  BY DEF ToSet
<1>4. KeysOf(tr, byLine) = {Key(f[i], byLine) : i \in DOMAIN f}
  BY DEF KeysOf, Counted
<1>5. KeysOf(tr, byLine) = ToSet(keys)
  BY <1>2, <1>3, <1>4
<1>6. keys # <<>> <=> f # <<>>
  <2>1. f # <<>> <=> 1 \in DOMAIN f
    BY <1>1
  <2>2. f = <<>> => DOMAIN f = {}
    BY <1>1
  <2>3. f = <<>> => keys = <<>>
    BY DEF Keys
  <2>4. 1 \in DOMAIN keys => keys # <<>>
    OBVIOUS
  <2> QED
    BY <1>2, <2>1, <2>3, <2>4
<1>7. f # <<>> => 1 \in DOMAIN f
  BY <1>1
<1>8. OwnKeys(tr, byLine) = IF f # <<>> THEN {Key(f[1], byLine)} ELSE {}
  BY DEF OwnKeys, Counted
<1> HIDE DEF f
<1>9. \A key : key \in OwnKeys(tr, byLine) <=> keys # <<>> /\ keys[1] = key
  BY <1>2, <1>6, <1>7, <1>8
<1> QED
  BY <1>5, <1>9

\* What a table has for a key.
Row(all, current, key, byLine) ==
  [current_own   |-> OwnTimes(current, key, byLine),
   current_total |-> Times(current, key, byLine),
   overall_own   |-> OwnTimes(all, key, byLine),
   overall_total |-> Times(all, key, byLine)]

LEMMA TableIs ==
  ASSUME NEW all, NEW current, NEW byLine
  PROVE  /\ DOMAIN Table(all, current, byLine) = AllKeys(all, byLine)
         /\ \A key \in AllKeys(all, byLine) :
              Table(all, current, byLine)[key] = Row(all, current, key, byLine)
         /\ Table(all, current, byLine)
              = [key \in AllKeys(all, byLine) |-> Row(all, current, key, byLine)]
BY DEF Table, AllKeys, Row

\* A key that is new to a table has been counted for no trace.
LEMMA NewRow ==
  ASSUME NEW all \in Seq(Traces), NEW current \in Seq(Traces), NEW byLine, NEW key,
         Among(current, all), key \notin AllKeys(all, byLine)
  PROVE  Row(all, current, key, byLine) = NoCounts
<1>1. \A i \in DOMAIN all : key \notin KeysOf(all[i], byLine)
  BY DEF AllKeys
<1>2. \A j \in DOMAIN current : key \notin KeysOf(current[j], byLine)
  BY <1>1 DEF Among
<1>3. ASSUME NEW tr \in Traces, key \in OwnKeys(tr, byLine)
      PROVE  key \in KeysOf(tr, byLine)
  <2>1. tr.frames # <<>> => 1 \in DOMAIN tr.frames
    BY DEF Traces
  <2> QED
    BY <1>3, <2>1 DEF OwnKeys, KeysOf
<1>4. /\ \A i \in DOMAIN all : key \notin OwnKeys(all[i], byLine)
      /\ \A j \in DOMAIN current : key \notin OwnKeys(current[j], byLine)
  BY <1>1, <1>2, <1>3
<1>5. /\ Times(all, key, byLine) = 0 /\ OwnTimes(all, key, byLine) = 0
      /\ Times(current, key, byLine) = 0 /\ OwnTimes(current, key, byLine) = 0
  BY <1>1, <1>2, <1>4, NoTimes
<1> QED
  BY <1>5 DEF Row, NoCounts

\* update_function_statistics makes of the table of some traces that of one more.
LEMMA UpdateAddsTrace ==
  ASSUME NEW all \in Seq(Traces), NEW current \in Seq(Traces), Among(current, all),
         NEW tr \in Traces, NEW byLine, Counted(tr)
  PROVE  UpdateFunctionStatistics(Table(all, current, byLine), Keys(tr.frames, byLine))
           = Table(Append(all, tr), Append(current, tr), byLine)
<1> DEFINE counts == Table(all, current, byLine)
           keys == Keys(tr.frames, byLine)
           after == Table(Append(all, tr), Append(current, tr), byLine)
           One(b) == IF b THEN 1 ELSE 0
           Own(key) == One(keys # <<>> /\ keys[1] = key)
           Total(key) == One(key \in ToSet(keys))
           Old(key) == IF key \in DOMAIN counts THEN counts[key] ELSE NoCounts
           New(key) == [current_own   |-> Old(key).current_own + Own(key),
                        current_total |-> Old(key).current_total + Total(key),
                        overall_own   |-> Old(key).overall_own + Own(key),
                        overall_total |-> Old(key).overall_total + Total(key)]
<1>1. UpdateFunctionStatistics(counts, keys) = [key \in DOMAIN counts \cup ToSet(keys) |-> New(key)]
  BY DEF UpdateFunctionStatistics
<1>2. /\ KeysOf(tr, byLine) = ToSet(keys)
      /\ \A key : key \in OwnKeys(tr, byLine) <=> keys # <<>> /\ keys[1] = key
  BY KeysGiven
<1>3. DOMAIN counts = AllKeys(all, byLine)
  BY TableIs
<1>4. AllKeys(Append(all, tr), byLine) = DOMAIN counts \cup ToSet(keys)
  BY <1>2, <1>3, KeysOfAppend
<1>5. ASSUME NEW key
      PROVE  Row(Append(all, tr), Append(current, tr), key, byLine) = New(key)
  <2>1. Old(key) = Row(all, current, key, byLine)
    <3>1. CASE key \in AllKeys(all, byLine)
      BY <1>3, <3>1, TableIs
    <3>2. CASE key \notin AllKeys(all, byLine)
      <4>1. Row(all, current, key, byLine) = NoCounts
        BY <3>2, NewRow
      <4> QED
        BY <1>3, <3>2, <4>1
    <3> QED
      BY <3>1, <3>2
  <2>2. \A s \in Seq(Traces) :
          /\ Times(s, key, byLine) \in Nat /\ OwnTimes(s, key, byLine) \in Nat
          /\ Times(Append(s, tr), key, byLine) = Times(s, key, byLine) + Total(key)
          /\ OwnTimes(Append(s, tr), key, byLine) = OwnTimes(s, key, byLine) + Own(key)
    <3> SUFFICES ASSUME NEW s \in Seq(Traces)
                 PROVE  /\ Times(s, key, byLine) \in Nat /\ OwnTimes(s, key, byLine) \in Nat
                        /\ Times(Append(s, tr), key, byLine) = Times(s, key, byLine) + Total(key)
                        /\ OwnTimes(Append(s, tr), key, byLine) = OwnTimes(s, key, byLine) + Own(key)
      OBVIOUS
    <3>1. Total(key) = IF key \in KeysOf(tr, byLine) THEN 1 ELSE 0
      BY <1>2
    <3>2. Own(key) = IF key \in OwnKeys(tr, byLine) THEN 1 ELSE 0
      BY <1>2
    <3> HIDE DEF Total, Own
    <3> QED
      BY <3>1, <3>2, TimesOfAppend, OwnTimesOfAppend
  <2> HIDE DEF Total, Own, Old
  <2> QED
    BY <2>1, <2>2 DEF Row
<1>6. after = [key \in AllKeys(Append(all, tr), byLine)
                 |-> Row(Append(all, tr), Append(current, tr), key, byLine)]
  BY TableIs
<1> HIDE DEF counts, keys, after, New
<1>7. after = [key \in DOMAIN counts \cup ToSet(keys) |-> New(key)]
  BY <1>4, <1>5, <1>6
<1> QED
  BY <1>1, <1>7 DEF counts, keys, after

\* A trace that is passed over leaves the table as it is.
LEMMA PassedOver ==
  ASSUME NEW all \in Seq(Traces), NEW current \in Seq(Traces),
         NEW tr \in Traces, NEW byLine, ~ Counted(tr)
  PROVE  Table(Append(all, tr), Append(current, tr), byLine) = Table(all, current, byLine)
<1>1. KeysOf(tr, byLine) = {} /\ OwnKeys(tr, byLine) = {}
  BY DEF KeysOf, OwnKeys, Counted
<1>2. AllKeys(Append(all, tr), byLine) = AllKeys(all, byLine)
  <2>1. AllKeys(Append(all, tr), byLine) = AllKeys(all, byLine) \cup KeysOf(tr, byLine)
    BY KeysOfAppend
  <2> QED
    BY <1>1, <2>1
<1>3. ASSUME NEW key
      PROVE  Row(Append(all, tr), Append(current, tr), key, byLine) = Row(all, current, key, byLine)
  <2>1. \A s \in Seq(Traces) : /\ Times(Append(s, tr), key, byLine) = Times(s, key, byLine)
                               /\ OwnTimes(Append(s, tr), key, byLine) = OwnTimes(s, key, byLine)
    BY <1>1, TimesOfAppend, OwnTimesOfAppend
  <2> QED
    BY <2>1 DEF Row
<1>4. \A s, c : Table(s, c, byLine) = [key \in AllKeys(s, byLine) |-> Row(s, c, key, byLine)]
  BY TableIs
<1>5. /\ Table(all, current, byLine)
           = [key \in AllKeys(all, byLine) |-> Row(all, current, key, byLine)]
      /\ Table(Append(all, tr), Append(current, tr), byLine)
           = [key \in AllKeys(Append(all, tr), byLine)
                |-> Row(Append(all, tr), Append(current, tr), key, byLine)]
  BY <1>4
<1> QED
  BY <1>2, <1>3, <1>5

\* The statistics whose tables these two are.
StatsWith(functions, lines) ==
  [current_samples : Nat, overall_samples : Nat, errors : Nat, late_samples : Nat,
   delayed : BOOLEAN, active : Nat, function_counts : {functions}, line_counts : {lines}]

\* The statistics with the tables of some traces.
StatsOf(all, current) == StatsWith(Table(all, current, FALSE), Table(all, current, TRUE))

SameSamples(st, prev) ==
  /\ st.current_samples = prev.current_samples /\ st.overall_samples = prev.overall_samples
  /\ st.errors = prev.errors

\* One round of increment's loop.
LEMMA TraceCounts ==
  ASSUME NEW all \in Seq(Traces), NEW current \in Seq(Traces), Among(current, all),
         NEW tr \in Traces, NEW st \in StatsOf(all, current),
         NEW after, after = IF Counted(tr) THEN CountTrace(st, tr) ELSE st
  PROVE  /\ after \in StatsOf(Append(all, tr), Append(current, tr))
         /\ SameSamples(after, st)
<1>1. CASE Counted(tr)
  <2>1. after = [st EXCEPT !.active = IF tr.active THEN st.active + 1 ELSE st.active,
                           !.line_counts = Table(Append(all, tr), Append(current, tr), TRUE),
                           !.function_counts = Table(Append(all, tr), Append(current, tr), FALSE)]
    <3>1. /\ st.line_counts = Table(all, current, TRUE)
          /\ st.function_counts = Table(all, current, FALSE)
      BY DEF StatsOf, StatsWith
    <3>2. \A byLine : UpdateFunctionStatistics(Table(all, current, byLine), Keys(tr.frames, byLine))
                        = Table(Append(all, tr), Append(current, tr), byLine)
      BY <1>1, UpdateAddsTrace
    <3> QED
      BY <1>1, <3>1, <3>2 DEF CountTrace
  <2>2. (IF tr.active THEN st.active + 1 ELSE st.active) \in Nat
    BY DEF StatsOf, StatsWith
  <2> QED
    BY <2>1, <2>2 DEF StatsOf, StatsWith, SameSamples
<1>2. CASE ~ Counted(tr)
  <2>1. \A byLine : Table(Append(all, tr), Append(current, tr), byLine) = Table(all, current, byLine)
    BY <1>2, PassedOver
  <2>2. StatsOf(Append(all, tr), Append(current, tr)) = StatsOf(all, current)
    BY <2>1 DEF StatsOf, StatsWith
  <2> QED
    BY <1>2, <2>2 DEF SameSamples
<1> QED
  BY <1>1, <1>2

\* The replacement of fields in a row, and in the statistics.
ClearedRow(row, zero) == [row EXCEPT !.current_own = zero, !.current_total = zero]

LEMMA RowCleared ==
  ASSUME NEW o, NEW n, NEW own, NEW total, NEW zero, NEW row,
         row = [current_own |-> o, current_total |-> n, overall_own |-> own, overall_total |-> total]
  PROVE  ClearedRow(row, zero) = [current_own |-> zero, current_total |-> zero,
                                  overall_own |-> own, overall_total |-> total]
<1>1. PICK cleared : cleared = [row EXCEPT !.current_own = zero, !.current_total = zero]
  OBVIOUS
<1>2. cleared = [current_own |-> zero, current_total |-> zero,
                 overall_own |-> own, overall_total |-> total]
  BY <1>1
<1> QED
  BY <1>1, <1>2 DEF ClearedRow

ClearedStats(st, f, l) ==
  [st EXCEPT !.line_counts = l, !.function_counts = f, !.active = 0, !.current_samples = 0]

LEMMA StatsCleared ==
  ASSUME NEW functions, NEW lines, NEW f, NEW l, NEW st, st \in StatsWith(functions, lines),
         NEW cleared, cleared = ClearedStats(st, f, l)
  PROVE  /\ cleared \in StatsWith(f, l)
         /\ cleared.current_samples = 0
         /\ cleared.overall_samples = st.overall_samples
         /\ cleared.errors = st.errors
BY DEF StatsWith, ClearedStats

\* reset_current clears the current columns.
LEMMA ClearedTable ==
  ASSUME NEW all \in Seq(Traces), NEW current \in Seq(Traces), NEW byLine,
         NEW counts, counts = Table(all, current, byLine)
  PROVE  [key \in DOMAIN counts |-> [counts[key] EXCEPT !.current_own = 0, !.current_total = 0]]
           = Table(all, <<>>, byLine)
<1>1. /\ DOMAIN counts = AllKeys(all, byLine)
      /\ \A key \in AllKeys(all, byLine) : counts[key] = Row(all, current, key, byLine)
  BY TableIs
<1>2. Table(all, <<>>, byLine) = [key \in AllKeys(all, byLine) |-> Row(all, <<>>, key, byLine)]
  BY TableIs
<1>3. ASSUME NEW key \in AllKeys(all, byLine)
      PROVE  [counts[key] EXCEPT !.current_own = 0, !.current_total = 0] = Row(all, <<>>, key, byLine)
  <2>1. Times(<<>>, key, byLine) = 0 /\ OwnTimes(<<>>, key, byLine) = 0
    BY NoTimes
  <2>2. counts[key] = Row(all, current, key, byLine)
    BY <1>1
  <2>3. ClearedRow(counts[key], 0)
          = [current_own   |-> 0, current_total |-> 0,
             overall_own   |-> OwnTimes(all, key, byLine),
             overall_total |-> Times(all, key, byLine)]
    BY <2>2, RowCleared DEF Row
  <2>4. [counts[key] EXCEPT !.current_own = 0, !.current_total = 0] = ClearedRow(counts[key], 0)
    BY DEF ClearedRow
  <2> QED
    BY <2>1, <2>3, <2>4 DEF Row
<1> QED
  BY <1>1, <1>2, <1>3

LEMMA ResetCounts ==
  ASSUME NEW all \in Seq(Traces), NEW current \in Seq(Traces), NEW st \in StatsOf(all, current)
  PROVE  /\ ResetCurrent(st) \in StatsOf(all, <<>>)
         /\ ResetCurrent(st).current_samples = 0
         /\ ResetCurrent(st).overall_samples = st.overall_samples
         /\ ResetCurrent(st).errors = st.errors
<1>1. /\ st.line_counts = Table(all, current, TRUE)
      /\ st.function_counts = Table(all, current, FALSE)
  BY DEF StatsOf, StatsWith
<1>2. ResetCurrent(st) = [st EXCEPT !.line_counts = Table(all, <<>>, TRUE),
                                    !.function_counts = Table(all, <<>>, FALSE),
                                    !.active = 0, !.current_samples = 0]
  <2> DEFINE Cleared(counts) == [key \in DOMAIN counts |->
                [counts[key] EXCEPT !.current_own = 0, !.current_total = 0]]
  <2>1. /\ Cleared(st.line_counts) = Table(all, <<>>, TRUE)
        /\ Cleared(st.function_counts) = Table(all, <<>>, FALSE)
    <3>1. \A byLine, counts : counts = Table(all, current, byLine) =>
                               Cleared(counts) = Table(all, <<>>, byLine)
      BY ClearedTable
    <3> HIDE DEF Cleared
    <3> QED
      BY <1>1, <3>1
  <2>2. ResetCurrent(st) = [st EXCEPT !.line_counts = Cleared(st.line_counts),
                                      !.function_counts = Cleared(st.function_counts),
                                      !.active = 0, !.current_samples = 0]
    BY DEF ResetCurrent
  <2> HIDE DEF Cleared
  <2> QED
    BY <2>1, <2>2
<1>3. PICK f, l, g, h, cleared :
        /\ f = Table(all, <<>>, FALSE) /\ l = Table(all, <<>>, TRUE)
        /\ g = Table(all, current, FALSE) /\ h = Table(all, current, TRUE)
        /\ cleared = ClearedStats(st, f, l)
  OBVIOUS
<1>4. ResetCurrent(st) = cleared
  BY <1>2, <1>3 DEF ClearedStats
<1>5. st \in StatsWith(g, h)
  BY <1>3 DEF StatsOf
<1>6. cleared = ClearedStats(st, f, l)
  BY <1>3
<1>7. cleared \in StatsWith(f, l)
  BY <1>5, <1>6, StatsCleared
<1>8. cleared.current_samples = 0
  BY <1>5, <1>6, StatsCleared
<1>9. cleared.overall_samples = st.overall_samples
  BY <1>5, <1>6, StatsCleared
<1>10. cleared.errors = st.errors
  BY <1>5, <1>6, StatsCleared
<1> QED
  BY <1>3, <1>4, <1>7, <1>8, <1>9, <1>10 DEF StatsOf

LEMMA NewCounts == NewStats \in StatsOf(<<>>, <<>>)
<1>1. ASSUME NEW byLine
      PROVE  Table(<<>>, <<>>, byLine) = <<>>
  <2>1. AllKeys(<<>>, byLine) = {}
    BY DEF AllKeys
  <2>2. Table(<<>>, <<>>, byLine) = [key \in {} |-> Row(<<>>, <<>>, key, byLine)]
    BY <2>1, TableIs
  <2> QED
    BY <2>2
<1> QED
  BY <1>1 DEF NewStats, StatsOf, StatsWith

-----------------------------------------------------------------------------
(***************************************************************************)
(* What counting all the traces of a sample makes of the tables.           *)
(***************************************************************************)

\* The statistics after one more trace, and the function of CountTraces, up to m.
After(st, tr) == IF Counted(tr) THEN CountTrace(st, tr) ELSE st

IsAfter(g, st, traces, m) ==
  g = [n \in 0 .. m |-> IF n = 0 THEN st ELSE After(g[n - 1], traces[n])]

LEMMA AfterStep ==
  ASSUME NEW g, NEW st, NEW traces, NEW m \in Nat, IsAfter(g, st, traces, m)
  PROVE  /\ g[0] = st
         /\ \A k \in 1 .. m : g[k] = After(g[k - 1], traces[k])
<1> DEFINE r == [n \in 0 .. m |-> IF n = 0 THEN st ELSE After(g[n - 1], traces[n])]
<1>1. g = r
  BY DEF IsAfter
<1>2. r[0] = st /\ \A k \in 1 .. m : r[k] = After(g[k - 1], traces[k])
  OBVIOUS
<1> HIDE DEF r
<1> QED
  BY <1>1, <1>2

LEMMA AfterExists ==
  ASSUME NEW st, NEW traces, NEW m \in Nat
  PROVE  \E g : IsAfter(g, st, traces, m)
<1> DEFINE Upto == {k \in 0 .. m : \E g : IsAfter(g, st, traces, k)}
<1>1. 0 \in Upto
  <2> DEFINE g == [n \in 0 .. 0 |-> st]
  <2>1. IsAfter(g, st, traces, 0)
    BY DEF IsAfter
  <2> QED
    BY <2>1
<1>2. ASSUME NEW k \in 0 .. m - 1, k \in Upto
      PROVE  k + 1 \in Upto
  <2>1. PICK g : IsAfter(g, st, traces, k)
    BY <1>2
  <2> DEFINE h == [n \in 0 .. k + 1 |-> IF n = k + 1 THEN After(g[k], traces[k + 1]) ELSE g[n]]
  <2>2. ASSUME NEW n \in 0 .. k + 1
        PROVE  h[n] = IF n = 0 THEN st ELSE After(h[n - 1], traces[n])
    <3>1. n \in 0 .. k + 1 /\ k + 1 # 0 /\ k \in Nat
      OBVIOUS
    <3>2. CASE n = k + 1
      BY <3>1, <3>2
    <3>3. CASE n = 0
      <4>1. h[n] = g[n]
        BY <3>1, <3>3
      <4> QED
        BY <2>1, <3>1, <3>3, <4>1, AfterStep
    <3>4. CASE n \in 1 .. k
      <4>1. h[n] = g[n] /\ h[n - 1] = g[n - 1]
        BY <3>4
      <4> HIDE DEF h
      <4> QED
        BY <2>1, <3>1, <3>4, <4>1, AfterStep
    <3> QED
      BY <3>2, <3>3, <3>4
  <2>3. h = [n \in 0 .. k + 1 |-> h[n]]
    OBVIOUS
  <2> HIDE DEF h
  <2>4. IsAfter(h, st, traces, k + 1)
    BY <2>2, <2>3 DEF IsAfter
  <2> QED
    BY <2>4
<1> HIDE DEF Upto
<1>3. \A k \in 0 .. m : k \in Upto
  BY <1>1, <1>2, NumberInduction
<1> QED
  BY <1>3 DEF Upto

LEMMA CountTracesUnfolds ==
  ASSUME NEW st, NEW traces, Len(traces) \in Nat
  PROVE  \E g : IsAfter(g, st, traces, Len(traces)) /\ CountTraces(st, traces) = g[Len(traces)]
<1> DEFINE g == CHOOSE f : IsAfter(f, st, traces, Len(traces))
<1>1. IsAfter(g, st, traces, Len(traces))
  BY AfterExists
<1>2. CountTraces(st, traces) = g[Len(traces)]
  BY DEF CountTraces, IsAfter, After
<1> QED
  BY <1>1, <1>2

LEMMA AmongConcat ==
  ASSUME NEW all \in Seq(Traces), NEW current \in Seq(Traces), Among(current, all),
         NEW more \in Seq(Traces)
  PROVE  Among(current \o more, all \o more)
<1> DEFINE a == all \o more
           c == current \o more
<1>1. /\ Len(all) \in Nat /\ Len(current) \in Nat /\ Len(more) \in Nat
      /\ DOMAIN all = 1 .. Len(all) /\ DOMAIN current = 1 .. Len(current)
      /\ DOMAIN a = 1 .. Len(all) + Len(more) /\ DOMAIN c = 1 .. Len(current) + Len(more)
      /\ \A i \in 1 .. Len(all) : a[i] = all[i]
      /\ \A i \in 1 .. Len(current) : c[i] = current[i]
      /\ \A i \in 1 .. Len(more) : a[Len(all) + i] = more[i] /\ c[Len(current) + i] = more[i]
  OBVIOUS
<1> HIDE DEF a, c
<1>2. ASSUME NEW j \in DOMAIN c
      PROVE  \E i \in DOMAIN a : a[i] = c[j]
  <2>1. CASE j \in 1 .. Len(current)
    <3>1. PICK i \in 1 .. Len(all) : all[i] = current[j]
      BY <1>1, <2>1 DEF Among
    <3>2. i \in DOMAIN a /\ a[i] = c[j]
      BY <1>1, <2>1, <3>1
    <3> QED
      BY <3>2
  <2>2. CASE j \notin 1 .. Len(current)
    <3>1. PICK i \in 1 .. Len(more) : j = Len(current) + i
      <4>1. j - Len(current) \in 1 .. Len(more) /\ j = Len(current) + (j - Len(current))
        BY <1>1, <2>2
      <4> QED
        BY <4>1
    <3>2. Len(all) + i \in DOMAIN a /\ a[Len(all) + i] = c[j]
      BY <1>1, <3>1
    <3> QED
      BY <3>2
  <2> QED
    BY <2>1, <2>2
<1> QED
  BY <1>2 DEF Among, a, c

\* The loop of increment counts the traces one after the other.
LEMMA TracesCount ==
  ASSUME NEW all \in Seq(Traces), NEW current \in Seq(Traces), Among(current, all),
         NEW traces \in Seq(Traces), NEW st \in StatsOf(all, current)
  PROVE  /\ CountTraces(st, traces) \in StatsOf(all \o traces, current \o traces)
         /\ SameSamples(CountTraces(st, traces), st)
<1> DEFINE m == Len(traces)
           Upto(k) == SubSeq(traces, 1, k)
<1>1. m \in Nat
  OBVIOUS
<1>2. PICK g : IsAfter(g, st, traces, m) /\ CountTraces(st, traces) = g[m]
  BY <1>1, CountTracesUnfolds
<1>3. g[0] = st /\ \A k \in 1 .. m : g[k] = After(g[k - 1], traces[k])
  BY <1>1, <1>2, AfterStep
<1> DEFINE Right == {k \in 0 .. m : /\ g[k] \in StatsOf(all \o Upto(k), current \o Upto(k))
                                    /\ SameSamples(g[k], st)}
<1>4. 0 \in Right
  <2>1. all \o Upto(0) = all /\ current \o Upto(0) = current
    OBVIOUS
  <2> HIDE DEF Upto
  <2>2. g[0] \in StatsOf(all \o Upto(0), current \o Upto(0)) /\ SameSamples(g[0], st)
    BY <1>3, <2>1 DEF SameSamples
  <2>3. 0 \in 0 .. m
    BY <1>1
  <2> HIDE DEF m
  <2> QED
    BY <2>2, <2>3
<1>5. ASSUME NEW k \in 0 .. m - 1, k \in Right
      PROVE  k + 1 \in Right
  <2>1. k + 1 \in 1 .. m /\ (k + 1) - 1 = k /\ traces[k + 1] \in Traces
    BY <1>1
  <2>2. g[k + 1] = After(g[k], traces[k + 1])
    BY <1>3, <2>1
  <2>3. Upto(k) \in Seq(Traces)
    BY <1>1
  <2>4. /\ all \o Upto(k + 1) = Append(all \o Upto(k), traces[k + 1])
        /\ current \o Upto(k + 1) = Append(current \o Upto(k), traces[k + 1])
    <3>1. Upto(k + 1) = Append(Upto(k), traces[k + 1])
      BY <1>1, <2>1
    <3> HIDE DEF Upto
    <3>2. PICK u, tr : u = Upto(k) /\ tr = traces[k + 1]
      OBVIOUS
    <3>3. u \in Seq(Traces) /\ tr \in Traces
      BY <2>1, <2>3, <3>2
    <3>4. all \o Append(u, tr) = Append(all \o u, tr) /\ current \o Append(u, tr) = Append(current \o u, tr)
      BY <3>3
    <3> QED
      BY <3>1, <3>2, <3>4
  <2>5. all \o Upto(k) \in Seq(Traces) /\ current \o Upto(k) \in Seq(Traces)
    BY <2>3
  <2>6. g[k] \in StatsOf(all \o Upto(k), current \o Upto(k)) /\ SameSamples(g[k], st)
    BY <1>5
  <2> HIDE DEF Upto
  <2>7. Among(current \o Upto(k), all \o Upto(k))
    BY <2>3, AmongConcat
  <2>8. PICK a, c, tr : /\ a = all \o Upto(k) /\ c = current \o Upto(k) /\ tr = traces[k + 1]
    OBVIOUS
  <2>9. a \in Seq(Traces) /\ c \in Seq(Traces) /\ Among(c, a) /\ tr \in Traces
    BY <2>1, <2>5, <2>7, <2>8
  <2>10. g[k] \in StatsOf(a, c)
    BY <2>6, <2>8
  <2>11. g[k + 1] = IF Counted(tr) THEN CountTrace(g[k], tr) ELSE g[k]
    BY <2>2, <2>8 DEF After
  <2>12. g[k + 1] \in StatsOf(Append(a, tr), Append(c, tr)) /\ SameSamples(g[k + 1], g[k])
    BY <2>9, <2>10, <2>11, TraceCounts
  <2>13. SameSamples(g[k + 1], st)
    BY <2>6, <2>12 DEF SameSamples
  <2>14. g[k + 1] \in StatsOf(all \o Upto(k + 1), current \o Upto(k + 1))
    BY <2>4, <2>8, <2>12
  <2>15. k + 1 \in 0 .. m
    BY <1>1
  <2> HIDE DEF m
  <2> QED
    BY <2>13, <2>14, <2>15
<1>6. m \in Right
  <2> HIDE DEF Right
  <2>1. \A k \in 0 .. m : k \in Right
    BY <1>1, <1>4, <1>5, NumberInduction
  <2> QED
    BY <1>1, <2>1
<1>7. Upto(m) = traces
  OBVIOUS
<1> QED
  BY <1>2, <1>6, <1>7

-----------------------------------------------------------------------------
(***************************************************************************)
(* The inductive invariant.                                                *)
(***************************************************************************)
Increments == [error : BOOLEAN, traces : Seq(Traces)]

\* What is left to do of a sample; there is something while an increment runs.
TodoInv ==
  /\ viewer \in {"next", "reset", "count", "check", "display", "stuck", "ended"}
  /\ received \in 0 .. MaxInputs
  /\ todo \in Seq(Increments)
  /\ viewer \in {"reset", "count", "check", "display"} => todo # <<>>

\* R is asked for as long as `reset` is set.
AskedInv == asked \in BOOLEAN /\ (asked <=> options.reset)

\* The tables, and when they are drawn.
StatsInv ==
  /\ terminal \in Terminals
  /\ seen \in Seq(Traces) /\ fresh \in 0 .. Len(seen)
  /\ stats \in StatsOf(seen, Current)
  /\ stats.current_samples <= stats.overall_samples /\ stats.errors <= stats.overall_samples
  /\ stats.current_samples <= Refresh
  /\ viewer \in {"next", "reset", "count"} => stats.current_samples < Refresh

ConsoleInv == KeysInv /\ TodoInv /\ AskedInv /\ StatsInv

LEMMA ConsoleStarts == Init => ConsoleInv
<1> SUFFICES ASSUME Init
             PROVE  ConsoleInv
  OBVIOUS
<1>1. KeysInv
  BY KeysInit
<1>2. TodoInv
  BY ConsoleAssumption DEF Init, TodoInv
<1>3. AskedInv
  BY DEF Init, AskedInv
<1>4. StatsInv
  <2>1. seen = <<>> /\ fresh = 0 /\ Current = <<>>
    BY DEF Init, Current
  <2>2. stats \in StatsOf(seen, Current)
    BY <2>1, NewCounts DEF Init
  <2>3. stats.current_samples = 0 /\ stats.overall_samples = 0 /\ stats.errors = 0
    BY DEF Init, NewStats
  <2> QED
    BY <2>1, <2>2, <2>3, ConsoleAssumption DEF Init, StatsInv
<1> QED
  BY <1>1, <1>2, <1>3, <1>4 DEF ConsoleInv

LEMMA ReturnsTodo ==
  ASSUME TodoInv, todo # <<>>, Return
  PROVE  /\ todo' \in Seq(Increments)
         /\ viewer' \in {"next", "reset"}
         /\ viewer' = "reset" => todo' # <<>>
<1>1. Tail(todo) \in Seq(Increments)
  BY DEF TodoInv
<1> QED
  BY <1>1 DEF Return

LEMMA TodoKeeps == TodoInv /\ [Next]_consoleVars => TodoInv'
<1> SUFFICES ASSUME TodoInv, [Next]_consoleVars
             PROVE  TodoInv'
  OBVIOUS
<1> USE DEF TodoInv
<1>1. CASE Input
  BY <1>1 DEF Input, KeyReset, KeyLines, KeyHelp, KeyOther, Press
<1>2. CASE Receive
  <2>1. PICK s \in Inputs :
          todo' = [i \in 1..s.errors |-> [error |-> TRUE, traces |-> <<>>]]
                    \o <<[error |-> FALSE, traces |-> s.traces]>>
    BY <1>2 DEF Receive
  <2>2. s.errors \in Nat /\ s.traces \in Seq(Traces)
    BY ConsoleAssumption
  <2> DEFINE failed == [i \in 1..s.errors |-> [error |-> TRUE, traces |-> <<>>]]
             last == [error |-> FALSE, traces |-> s.traces]
  <2>3. [error |-> TRUE, traces |-> <<>>] \in Increments /\ last \in Increments
    BY <2>2 DEF Increments
  <2>4. failed \in Seq(Increments)
    <3>1. PICK e : e = [error |-> TRUE, traces |-> <<>>]
      OBVIOUS
    <3>2. failed = [i \in 1..s.errors |-> e] /\ e \in Increments
      BY <2>3, <3>1
    <3> HIDE DEF failed
    <3> QED
      BY <2>2, <3>2
  <2>5. todo' = Append(failed, last)
    <3> HIDE DEF last
    <3>1. \A f \in Seq(Increments) : f \o <<last>> = Append(f, last)
      BY <2>3
    <3> QED
      BY <2>1, <2>4, <3>1 DEF last
  <2> HIDE DEF failed, last
  <2>6. todo' \in Seq(Increments) /\ todo' # <<>>
    BY <2>3, <2>4, <2>5
  <2>7. viewer' = "reset" /\ received' = received + 1 /\ received < MaxInputs
    BY <1>2 DEF Receive
  <2>8. received' \in 0 .. MaxInputs
    BY <2>7, ConsoleAssumption
  <2> QED
    BY <2>6, <2>7, <2>8
<1>3. CASE End
  BY <1>3 DEF End
<1>4. CASE MaybeReset
  BY <1>4 DEF MaybeReset
<1>5. CASE Count
  BY <1>5 DEF Count
<1>6. CASE CheckRefresh
  BY <1>6, ReturnsTodo DEF CheckRefresh
<1>7. CASE Display
  BY <1>7, ReturnsTodo DEF Display
<1>8. CASE DisplayUnderflow
  BY <1>8 DEF DisplayUnderflow
<1>9. CASE DisplayFails
  BY <1>9 DEF DisplayFails
<1>10. CASE UNCHANGED consoleVars
  BY <1>10 DEF consoleVars
<1> QED
  BY <1>1, <1>2, <1>3, <1>4, <1>5, <1>6, <1>7, <1>8, <1>9, <1>10 DEF Next

LEMMA AskedKeeps == KeysInv /\ AskedInv /\ [Next]_consoleVars => AskedInv'
<1> SUFFICES ASSUME KeysInv, AskedInv, [Next]_consoleVars
             PROVE  AskedInv'
  OBVIOUS
<1> USE DEF AskedInv
<1>0. options \in Options
  BY DEF KeysInv
<1>1. CASE Input
  BY <1>0, <1>1 DEF Input, KeyReset, KeyLines, KeyHelp, KeyOther, Press, Options
<1>2. CASE MaybeReset
  BY <1>0, <1>2 DEF MaybeReset, Options
<1>3. CASE Display
  BY <1>0, <1>3 DEF Display, Options
<1>4. CASE DisplayUnderflow
  BY <1>0, <1>4 DEF DisplayUnderflow, ghosts, Options
<1>5. CASE DisplayFails
  BY <1>0, <1>5 DEF DisplayFails, ghosts, Options
<1>6. CASE Receive \/ End \/ Count \/ CheckRefresh \/ UNCHANGED consoleVars
  BY <1>6 DEF Receive, End, Count, CheckRefresh, consoleVars, ghosts
<1> QED
  BY <1>1, <1>2, <1>3, <1>4, <1>5, <1>6 DEF Next

\* The traces current after a sample are those current before it and the sample's.
LEMMA CurrentGrows ==
  ASSUME NEW s \in Seq(Traces), NEW n \in 0 .. Len(s), NEW traces \in Seq(Traces)
  PROVE  LET t == s \o traces
             m == n + Len(traces)
         IN  /\ SubSeq(t, Len(t) - m + 1, Len(t)) = SubSeq(s, Len(s) - n + 1, Len(s)) \o traces
             /\ m \in 0 .. Len(t) /\ t \in Seq(Traces)
OBVIOUS

LEMMA CurrentIs ==
  ASSUME NEW s \in Seq(Traces), NEW n \in 0 .. Len(s), NEW current,
         current = SubSeq(s, Len(s) - n + 1, Len(s))
  PROVE  current \in Seq(Traces) /\ Among(current, s) /\ (n = 0 => current = <<>>)
<1>1. current \in Seq(Traces) /\ (n = 0 => current = <<>>)
  OBVIOUS
<1>2. ASSUME NEW j \in DOMAIN current
      PROVE  \E i \in DOMAIN s : s[i] = current[j]
  <2>1. Len(s) - n + j \in DOMAIN s /\ s[Len(s) - n + j] = current[j]
    OBVIOUS
  <2> QED
    BY <2>1
<1> QED
  BY <1>1, <1>2 DEF Among

\* The fields of the statistics that are numbers, and a change of them.
LEMMA SamplesAreNumbers ==
  ASSUME NEW all, NEW current, NEW st, st \in StatsOf(all, current)
  PROVE  st.current_samples \in Nat /\ st.overall_samples \in Nat /\ st.errors \in Nat
BY DEF StatsOf, StatsWith

LateStats(st, late, delayed) == [st EXCEPT !.late_samples = late, !.delayed = delayed]

LEMMA LateCounts ==
  ASSUME NEW functions, NEW lines, NEW st, st \in StatsWith(functions, lines),
         NEW late, late \in Nat, NEW delayed, delayed \in BOOLEAN,
         NEW after, after = LateStats(st, late, delayed)
  PROVE  after \in StatsWith(functions, lines) /\ SameSamples(after, st)
BY DEF StatsWith, SameSamples, LateStats

SamplesAre(st, errors, current, overall) ==
  st.errors = errors /\ st.current_samples = current /\ st.overall_samples = overall

SampledStats(st, errors, current, overall) ==
  [st EXCEPT !.errors = errors, !.current_samples = current, !.overall_samples = overall]

LEMMA SampleCounts ==
  ASSUME NEW functions, NEW lines, NEW st, st \in StatsWith(functions, lines),
         NEW errors, errors \in Nat, NEW current, current \in Nat, NEW overall, overall \in Nat,
         NEW after, after = SampledStats(st, errors, current, overall)
  PROVE  after \in StatsWith(functions, lines) /\ SamplesAre(after, errors, current, overall)
BY DEF StatsWith, SampledStats, SamplesAre

LEMMA StatsKeeps == ConsoleInv /\ [Next]_consoleVars => StatsInv'
<1> SUFFICES ASSUME ConsoleInv, [Next]_consoleVars
             PROVE  StatsInv'
  OBVIOUS
<1>1. KeysInv /\ TodoInv /\ AskedInv /\ StatsInv
  BY DEF ConsoleInv
<1>2. /\ terminal \in Terminals
      /\ seen \in Seq(Traces) /\ fresh \in 0 .. Len(seen)
      /\ stats \in StatsOf(seen, Current)
      /\ stats.current_samples <= stats.overall_samples /\ stats.errors <= stats.overall_samples
      /\ stats.current_samples <= Refresh
      /\ viewer \in {"next", "reset", "count"} => stats.current_samples < Refresh
  BY <1>1 DEF StatsInv
<1>3. Current \in Seq(Traces) /\ Among(Current, seen)
  BY <1>2, CurrentIs DEF Current
<1>4. stats.current_samples \in Nat /\ stats.overall_samples \in Nat /\ stats.errors \in Nat
  BY <1>2, SamplesAreNumbers
<1>5. Refresh \in Nat \ {0}
  BY ConsoleAssumption
<1>6. CASE UNCHANGED <<terminal, stats, seen, fresh>> /\
           (viewer' \in {"next", "reset", "count"} => stats.current_samples < Refresh)
  BY <1>2, <1>6 DEF StatsInv, Current
<1>7. CASE Input
  <2>1. UNCHANGED <<terminal, stats, viewer, seen, fresh>>
    BY <1>7 DEF Input, KeyReset, KeyLines, KeyHelp, KeyOther, Press
  <2> QED
    BY <1>2, <1>6, <2>1
<1>8. CASE Receive
  <2>1. /\ UNCHANGED <<terminal, seen, fresh>> /\ viewer = "next"
        /\ (stats' = stats \/ stats' = LateStats(stats, stats.late_samples + 1, TRUE))
    BY <1>8 DEF Receive, ghosts, LateStats
  <2>2. stats' \in StatsOf(seen, Current) /\ SameSamples(stats', stats)
    <3>1. CASE stats' = stats
      BY <1>2, <3>1 DEF SameSamples
    <3>2. CASE stats' = LateStats(stats, stats.late_samples + 1, TRUE)
      <4>1. PICK f, l : f = Table(seen, Current, FALSE) /\ l = Table(seen, Current, TRUE)
        OBVIOUS
      <4>2. stats \in StatsWith(f, l)
        BY <1>2, <4>1 DEF StatsOf
      <4>3. stats.late_samples + 1 \in Nat
        BY <4>2 DEF StatsWith
      <4>4. stats' \in StatsWith(f, l) /\ SameSamples(stats', stats)
        BY <3>2, <4>2, <4>3, LateCounts
      <4> QED
        BY <4>1, <4>4 DEF StatsOf
    <3> QED
      BY <2>1, <3>1, <3>2
  <2>3. Current' = Current
    BY <2>1 DEF Current
  <2> QED
    BY <1>2, <2>1, <2>2, <2>3 DEF StatsInv, SameSamples
<1>9. CASE End \/ DisplayUnderflow \/ DisplayFails
  <2>1. UNCHANGED <<terminal, stats, seen, fresh>> /\ viewer' \in {"ended", "stuck"}
    BY <1>9 DEF End, DisplayUnderflow, DisplayFails, ghosts
  <2> QED
    BY <1>6, <2>1
<1>10. CASE MaybeReset
  <2>1. UNCHANGED terminal /\ viewer = "reset" /\ (asked <=> options.reset)
    BY <1>1, <1>10 DEF MaybeReset, AskedInv
  <2>2. CASE asked
    <3>1. stats' = NewStats /\ seen' = <<>> /\ fresh' = 0
      BY <1>10, <2>1, <2>2 DEF MaybeReset
    <3>2. Current' = <<>>
      BY <3>1 DEF Current
    <3>3. stats' \in StatsOf(seen', Current')
      BY <3>1, <3>2, NewCounts
    <3>4. stats'.current_samples = 0 /\ stats'.overall_samples = 0 /\ stats'.errors = 0
      BY <3>1 DEF NewStats
    <3> QED
      BY <1>2, <1>5, <2>1, <3>1, <3>3, <3>4 DEF StatsInv
  <2>3. CASE ~ asked
    <3>1. UNCHANGED <<terminal, stats, seen, fresh>>
      BY <1>10, <2>1, <2>3 DEF MaybeReset
    <3> QED
      BY <1>2, <1>6, <2>1, <3>1
  <2> QED
    BY <2>2, <2>3
<1>11. CASE Count
  <2> DEFINE traces == Head(todo).traces
             st == CountTraces(stats, traces)
  <2>1. /\ UNCHANGED terminal /\ viewer = "count" /\ viewer' = "check"
        /\ seen' = seen \o traces /\ fresh' = fresh + Len(traces)
        /\ stats' = [st EXCEPT !.errors = IF Head(todo).error THEN @ + 1 ELSE @,
                               !.current_samples = @ + 1,
                               !.overall_samples = @ + 1]
    BY <1>11 DEF Count
  <2>2. traces \in Seq(Traces) /\ Head(todo).error \in BOOLEAN
    <3>1. Head(todo) \in Increments
      BY <1>1, <2>1 DEF TodoInv
    <3> QED
      BY <3>1 DEF Increments
  <2> HIDE DEF traces
  <2>3. st \in StatsOf(seen \o traces, Current \o traces) /\ SameSamples(st, stats)
    BY <1>2, <1>3, <2>2, TracesCount
  <2> DEFINE e == IF Head(todo).error THEN st.errors + 1 ELSE st.errors
  <2>4. PICK after : after = stats' /\ after = SampledStats(st, e, st.current_samples + 1, st.overall_samples + 1)
    BY <2>1 DEF SampledStats
  <2> HIDE DEF st
  <2>5. /\ after \in StatsOf(seen \o traces, Current \o traces)
        /\ after.current_samples = st.current_samples + 1
        /\ after.overall_samples = st.overall_samples + 1
        /\ after.errors <= st.errors + 1
    <3>1. PICK f, l : f = Table(seen \o traces, Current \o traces, FALSE)
                      /\ l = Table(seen \o traces, Current \o traces, TRUE)
      OBVIOUS
    <3>2. st \in StatsWith(f, l)
      BY <2>3, <3>1 DEF StatsOf
    <3>3. st.current_samples \in Nat /\ st.overall_samples \in Nat /\ st.errors \in Nat
      BY <2>3, SamplesAreNumbers
    <3>4. e \in Nat /\ e <= st.errors + 1
      BY <3>3
    <3>5. st.current_samples + 1 \in Nat /\ st.overall_samples + 1 \in Nat
      BY <3>3
    <3> HIDE DEF e
    <3>6. PICK n, c, o : n = e /\ c = st.current_samples + 1 /\ o = st.overall_samples + 1
      OBVIOUS
    <3>7. n \in Nat /\ c \in Nat /\ o \in Nat
      BY <3>4, <3>5, <3>6
    <3>8. after = SampledStats(st, n, c, o)
      BY <2>4, <3>6
    <3>9. after \in StatsWith(f, l)
      BY <3>2, <3>7, <3>8, SampleCounts
    <3>10. SamplesAre(after, n, c, o)
      BY <3>2, <3>7, <3>8, SampleCounts
    <3>11. after.errors = n /\ after.current_samples = c /\ after.overall_samples = o
      BY <3>10 DEF SamplesAre
    <3> QED
      BY <3>1, <3>4, <3>6, <3>9, <3>11 DEF StatsOf
  <2>6. after.errors \in Nat
    BY <2>5, SamplesAreNumbers
  <2>7. /\ Current' = Current \o traces
        /\ fresh' \in 0 .. Len(seen') /\ seen' \in Seq(Traces)
    BY <1>2, <2>1, <2>2, CurrentGrows DEF Current
  <2>8. /\ after.current_samples = stats.current_samples + 1
        /\ after.overall_samples = stats.overall_samples + 1
        /\ after.errors <= stats.errors + 1
    BY <2>3, <2>5 DEF SameSamples
  <2>9. /\ after.current_samples <= after.overall_samples /\ after.errors <= after.overall_samples
        /\ after.current_samples <= Refresh
    <3>1. stats.current_samples < Refresh
      BY <1>2, <2>1
    <3>2. stats.current_samples <= stats.overall_samples /\ stats.errors <= stats.overall_samples
      BY <1>2
    <3>3. PICK c, o, n : c = stats.current_samples /\ o = stats.overall_samples /\ n = stats.errors
      OBVIOUS
    <3>4. PICK m : m = after.errors
      OBVIOUS
    <3>5. c \in Nat /\ o \in Nat /\ n \in Nat /\ m \in Nat
      BY <1>4, <2>6, <3>3, <3>4
    <3>6. c < Refresh /\ c <= o /\ n <= o /\ m <= n + 1
      BY <2>8, <3>1, <3>2, <3>3, <3>4
    <3>7. c + 1 <= o + 1 /\ m <= o + 1 /\ c + 1 <= Refresh
      BY <1>5, <3>5, <3>6
    <3> QED
      BY <2>8, <3>3, <3>4, <3>7
  <2> QED
    BY <1>2, <2>1, <2>4, <2>5, <2>7, <2>9 DEF StatsInv
<1>12. CASE CheckRefresh
  <2>1. UNCHANGED <<terminal, stats, seen, fresh>>
    BY <1>12 DEF CheckRefresh, ghosts
  <2>2. viewer' # "display" => ~ (stats.current_samples >= Refresh)
    BY <1>12 DEF CheckRefresh, ShouldRefresh
  <2>3. viewer' \in {"next", "reset", "count"} => stats.current_samples < Refresh
    BY <1>4, <1>5, <2>2
  <2> QED
    BY <1>6, <2>1, <2>3
<1>13. CASE Display
  <2>1. stats' = ResetCurrent(stats) /\ fresh' = 0 /\ UNCHANGED <<terminal, seen>>
    BY <1>13 DEF Display
  <2>2. /\ ResetCurrent(stats) \in StatsOf(seen, <<>>)
        /\ ResetCurrent(stats).current_samples = 0
        /\ ResetCurrent(stats).overall_samples = stats.overall_samples
        /\ ResetCurrent(stats).errors = stats.errors
    BY <1>2, <1>3, ResetCounts
  <2>3. Current' = <<>>
    BY <1>2, <2>1 DEF Current
  <2>4. /\ stats' \in StatsOf(seen', Current') /\ stats'.current_samples = 0
        /\ stats'.overall_samples = stats.overall_samples /\ stats'.errors = stats.errors
    BY <2>1, <2>2, <2>3
  <2> QED
    BY <1>2, <1>4, <1>5, <2>1, <2>4 DEF StatsInv
<1>14. CASE UNCHANGED consoleVars
  BY <1>2, <1>6, <1>14 DEF consoleVars, ghosts
<1> QED
  BY <1>7, <1>8, <1>9, <1>10, <1>11, <1>12, <1>13, <1>14 DEF Next

LEMMA ConsoleKeeps == ConsoleInv /\ [Next]_consoleVars => ConsoleInv'
BY KeysNext, TodoKeeps, AskedKeeps, StatsKeeps DEF ConsoleInv

\* Both tables count, for each function or line, the traces it is in and those it
\* is innermost in, once each however often it recurs, and no idle trace unless
\* asked to; and they are drawn before more samples than a refresh interval's are
\* current.
THEOREM TablesAreTrue == Spec => []ConsoleOK
<1>1. ConsoleInv => ConsoleOK
  <2> SUFFICES ASSUME ConsoleInv
               PROVE  ConsoleOK
    OBVIOUS
  <2>1. KeysInv /\ TodoInv /\ AskedInv /\ StatsInv
    BY DEF ConsoleInv
  <2>2. stats \in StatsOf(seen, Current)
    BY <2>1 DEF StatsInv
  <2>3. stats.current_samples \in Nat
    BY <2>2, SamplesAreNumbers
  <2>4. TypeOK
    BY <2>1, <2>3, ConsoleAssumption DEF TypeOK, KeysInv, Options, TodoInv, AskedInv, StatsInv
  <2>5. TablesTrue
    BY <2>2 DEF TablesTrue, StatsOf, StatsWith
  <2> QED
    BY <2>4, <2>5 DEF ConsoleOK
<1> QED
  BY ConsoleStarts, ConsoleKeeps, <1>1, PTL DEF Spec
=============================================================================
