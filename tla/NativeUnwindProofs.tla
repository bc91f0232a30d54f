------------------------- MODULE NativeUnwindProofs -------------------------
(***************************************************************************)
(* Proofs about NativeUnwind, for any threads, places and libraries, any   *)
(* window and any interval between two readings of the mappings.           *)
(***************************************************************************)
EXTENDS NativeUnwind, TLAPS

USE DEF vmVars, loadVars, nameVars

\* The smaller of two numbers.
LEMMA MinOfTwo ==
  ASSUME NEW a \in Int, NEW b \in Int
  PROVE  Min({a, b}) = IF a <= b THEN a ELSE b
<1> DEFINE m == IF a <= b THEN a ELSE b
<1>1. m \in {a, b} /\ \A x \in {a, b} : m <= x  OBVIOUS
<1>2. ASSUME NEW n \in {a, b}, \A x \in {a, b} : n <= x  PROVE n = m
  BY <1>2
<1>3. QED  BY <1>1, <1>2 DEF Min

\* What one capture leaves of the mappings it may have read again.
LEMMA RefreshKeeps ==
  ASSUME UnwindOK, UNCHANGED <<vmVars, binaries, symbolCache>>, Refresh
  PROVE  /\ sinceReload' \in 0 .. Interval - 1
         /\ ranges' \in [Threads -> Mappings \cup {Nothing}]
         /\ loaded' \subseteq Places /\ info' \in [Places -> Usable \cup {Nothing}]
         /\ KnownTrue'
<1> USE DEF UnwindOK
<1>1. CASE sinceReload + 1 >= Interval
  <2>1. sinceReload' = 0 /\ LoadModules  BY <1>1 DEF Refresh
  <2>2. 0 \in 0 .. Interval - 1  BY UnwindAssumption
  <2>3. \A t \in Threads : MappingOf(t) \in Mappings \cup {Nothing}
    <3>1. \A s \in Stacks : [lo |-> s.lo, hi |-> s.hi] \in Mappings
      BY UnwindAssumption DEF Stacks, Mappings
    <3>2. QED  BY <3>1 DEF TypeOK, MappingOf
  <2>4. ranges' \in [Threads -> Mappings \cup {Nothing}]
    BY <2>1, <2>3 DEF LoadModules
  <2>5. DEFINE new == {p \in Places : mapped[p] # Nothing} \ loaded
  <2>6. /\ loaded' = loaded \cup new
        /\ info' = [p \in Places |-> IF p \in new /\ mapped[p] \in Usable THEN mapped[p]
                                     ELSE info[p]]
    BY <2>1 DEF LoadModules
  <2>7. loaded' \subseteq Places /\ info' \in [Places -> Usable \cup {Nothing}]
    BY <2>6 DEF TypeOK
  <2>8. ASSUME NEW p \in Places \ reused'
        PROVE  /\ p \in loaded' => mapped'[p] # Nothing /\ HasInfo(p)'
               /\ {info'[p], binaries'[p], symbolCache'[p]} \subseteq {mapped'[p], Nothing}
    <3>1. /\ p \in loaded => mapped[p] # Nothing /\ HasInfo(p)
          /\ {info[p], binaries[p], symbolCache[p]} \subseteq {mapped[p], Nothing}
      BY DEF KnownTrue
    <3>2. /\ info'[p] = IF p \in new /\ mapped[p] \in Usable THEN mapped[p] ELSE info[p]
          /\ mapped' = mapped /\ binaries' = binaries /\ symbolCache' = symbolCache
      BY <2>6
    <3>3. p \in loaded' => p \in loaded \/ p \in new  BY <2>6
    <3>4. QED  BY <3>1, <3>2, <3>3 DEF HasInfo
  <2>9. QED  BY <2>1, <2>2, <2>4, <2>7, <2>8 DEF KnownTrue
<1>2. CASE ~ (sinceReload + 1 >= Interval)
  <2>1. sinceReload' = sinceReload + 1 /\ UNCHANGED loadVars  BY <1>2 DEF Refresh
  <2>2. sinceReload' \in 0 .. Interval - 1
    BY <1>2, <2>1, UnwindAssumption DEF TypeOK
  <2>3. KnownTrue'  BY <2>1 DEF KnownTrue, HasInfo
  <2>4. QED  BY <2>1, <2>2, <2>3 DEF TypeOK
<1>3. QED  BY <1>1, <1>2

LEMMA InitUnwind == Init => UnwindOK
<1> SUFFICES ASSUME Init  PROVE UnwindOK
  OBVIOUS
<1>1. \A t \in Threads : MappingOf(t) \in Mappings \cup {Nothing}
  <2>1. \A s \in Stacks : [lo |-> s.lo, hi |-> s.hi] \in Mappings
    BY UnwindAssumption DEF Stacks, Mappings
  <2>2. QED  BY <2>1 DEF Init, MappingOf
<1>2. info \in [Places -> Usable \cup {Nothing}]  BY DEF Init
<1>3. sinceReload \in 0 .. Interval - 1 /\ changes \in 0 .. MaxChanges
  BY UnwindAssumption DEF Init
<1>4. TypeOK
  <2>1. /\ stack \in [Threads -> Stacks \cup {Nothing}]
        /\ mapped \in [Places -> Libs \cup {Nothing}]
        /\ binaries \in [Places -> Libs \cup {Nothing}]
        /\ symbolCache \in [Places -> Libs \cup {Nothing}]
        /\ captured \in [Threads -> Places \cup {Jit, Nothing}]
        /\ missed \in [Places -> 0 .. 2]
    BY DEF Init
  <2>2. ranges \in [Threads -> Mappings \cup {Nothing}]
    BY <1>1 DEF Init
  <2>3. /\ reused \subseteq Places /\ todo \subseteq Live /\ loaded \subseteq Places
        /\ at \in {"idle", "capture", "resolve"} /\ shouldReload \in BOOLEAN
    BY DEF Init
  <2>4. QED  BY <1>2, <1>3, <2>1, <2>2, <2>3 DEF TypeOK
<1>5. CapturesSuspended /\ MissedOnce  BY DEF Init, CapturesSuspended, MissedOnce
<1>6. KnownTrue  BY UnwindAssumption DEF Init, KnownTrue, HasInfo
<1>7. QED  BY <1>4, <1>5, <1>6 DEF UnwindOK

\* The VM: what is remembered does not change, what it is about does.
LEMMA VmUnwind ==
  ASSUME UnwindOK, Vm
  PROVE  UnwindOK'
<1> USE DEF UnwindOK
<1>1. /\ todo = {}
      /\ UNCHANGED <<at, todo, captured, sinceReload, loadVars, binaries, shouldReload,
                     symbolCache>>
  BY DEF Vm, CapturesSuspended
<1>2. changes' \in 0 .. MaxChanges
  <2>1. ASSUME NEW t \in Threads, Run(t)  PROVE changes' = changes
    BY <2>1 DEF Run
  <2>2. changes' = changes \/ (changes < MaxChanges /\ changes' = changes + 1)
    BY <2>1, Zenon DEF Vm
  <2>3. QED  BY <2>2, UnwindAssumption DEF TypeOK
<1>3. ASSUME NEW t \in Threads, Run(t) \/ Remap(t)
      PROVE  stack' \in [Threads -> Stacks \cup {Nothing}] /\ UNCHANGED <<mapped, reused, missed>>
  <2>1. CASE Run(t)
    <3>1. stack[t] \in Stacks  BY <2>1 DEF TypeOK, Run, Live
    <3>2. PICK r \in stack[t].lo .. stack[t].hi - 1 : stack' = [stack EXCEPT ![t].rsp = r]
      BY <2>1 DEF Run
    <3>3. [stack[t] EXCEPT !.rsp = r] \in Stacks
      BY <3>1, <3>2, UnwindAssumption DEF Stacks
    <3>4. stack' \in [Threads -> Stacks \cup {Nothing}]
      BY <3>2, <3>3 DEF TypeOK
    <3>5. QED  BY <2>1, <3>4 DEF Run
  <2>2. CASE Remap(t)  BY <2>2 DEF TypeOK, Remap
  <2>3. QED  BY <1>3, <2>1, <2>2
<1>4. ASSUME NEW p \in Places, Dl(p)
      PROVE  /\ mapped' \in [Places -> Libs \cup {Nothing}] /\ reused' \subseteq Places
             /\ missed' \in [Places -> 0 .. 2] /\ UNCHANGED stack
             /\ MissedOnce' /\ KnownTrue'
  <2>1. \A q \in Places \ {p} : mapped'[q] = mapped[q] /\ missed'[q] = missed[q]
    BY <1>4 DEF TypeOK, Dl
  <2>2. reused \subseteq reused'  BY <1>4 DEF Dl
  <2>3. CASE mapped[p] = Nothing
    <3>1. /\ \E l \in Libs : mapped' = [mapped EXCEPT ![p] = l]
          /\ UNCHANGED <<reused, missed, stack>>
      BY <1>4, <2>3 DEF Dl
    <3>2. missed[p] # 1 /\ mapped'[p] \in Libs  BY <2>3, <3>1 DEF MissedOnce, TypeOK
    <3>3. MissedOnce'  BY <1>1, <2>1, <3>1, <3>2 DEF MissedOnce
    <3>4. KnownTrue'
      <4>1. p \notin reused => p \notin loaded /\ {info[p], binaries[p], symbolCache[p]} \subseteq {Nothing}
        BY <2>3 DEF KnownTrue
      <4>2. QED  BY <1>1, <2>1, <3>1, <4>1 DEF KnownTrue, HasInfo
    <3>5. QED  BY <3>1, <3>3, <3>4 DEF TypeOK
  <2>4. CASE mapped[p] # Nothing
    <3>1. /\ mapped' = [mapped EXCEPT ![p] = Nothing] /\ reused' = reused \cup {p}
          /\ missed' = [missed EXCEPT ![p] = 0] /\ UNCHANGED stack
      BY <1>4, <2>4 DEF Dl
    <3>2. missed'[p] = 0  BY <3>1 DEF TypeOK
    <3>3. MissedOnce'  BY <1>1, <2>1, <3>2 DEF MissedOnce
    <3>4. KnownTrue'  BY <1>1, <2>1, <3>1 DEF KnownTrue, HasInfo
    <3>5. QED  BY <3>1, <3>3, <3>4 DEF TypeOK
  <2>5. QED  BY <2>3, <2>4
<1>5. ASSUME UNCHANGED <<mapped, reused, missed>>
      PROVE  MissedOnce' /\ KnownTrue'
  BY <1>1, <1>5 DEF MissedOnce, KnownTrue, HasInfo
<1>6. /\ stack' \in [Threads -> Stacks \cup {Nothing}]
      /\ mapped' \in [Places -> Libs \cup {Nothing}] /\ reused' \subseteq Places
      /\ missed' \in [Places -> 0 .. 2] /\ MissedOnce' /\ KnownTrue'
  <2>1. CASE \E t \in Threads : Run(t) \/ Remap(t)
    BY <1>3, <1>5, <2>1 DEF TypeOK
  <2>2. CASE \E p \in Places : Dl(p)
    BY <1>4, <2>2 DEF TypeOK
  <2>3. QED  BY <2>1, <2>2 DEF Vm
<1>7. CapturesSuspended'  BY <1>1 DEF CapturesSuspended
<1>8. TypeOK'  BY <1>1, <1>2, <1>6 DEF TypeOK
<1>9. QED  BY <1>6, <1>7, <1>8

LEMMA CaptureUnwind ==
  ASSUME UnwindOK, NEW t \in Threads, Capture(t)
  PROVE  UnwindOK'
<1> USE DEF UnwindOK
<1>1. at = "capture" /\ Refresh /\ UNCHANGED <<vmVars, nameVars>>
  BY DEF Capture
<1>2. /\ sinceReload' \in 0 .. Interval - 1
      /\ ranges' \in [Threads -> Mappings \cup {Nothing}]
      /\ loaded' \subseteq Places /\ info' \in [Places -> Usable \cup {Nothing}]
      /\ KnownTrue'
  BY <1>1, RefreshKeeps
<1>3. /\ at' \in {"idle", "capture"} /\ (at' = "idle" => todo' = {})
      /\ todo' \subseteq todo
      /\ captured' \in [Threads -> Places \cup {Jit, Nothing}]
  <2>1. CASE Copied(t, ranges'[t])  BY <1>1, <2>1 DEF TypeOK, Capture
  <2>2. CASE ~ Copied(t, ranges'[t])  BY <1>1, <2>2 DEF TypeOK, Capture
  <2>3. QED  BY <2>1, <2>2
<1>4. TypeOK'  BY <1>1, <1>2, <1>3 DEF TypeOK, Live
<1>5. MissedOnce'  BY <1>1 DEF MissedOnce
<1>6. CapturesSuspended'  BY <1>3 DEF CapturesSuspended
<1>7. QED  BY <1>2, <1>4, <1>5, <1>6

\* An address that was missed has a binary now: it is not missed again.
LEMMA ResolveUnwind ==
  ASSUME UnwindOK, NEW t \in Threads, Resolve(t)
  PROVE  UnwindOK'
<1> USE DEF UnwindOK
<1> DEFINE a == captured[t]
           answer == IF a = Jit THEN Nothing
                     ELSE IF symbolCache[a] # Nothing THEN symbolCache[a] ELSE binaries'[a]
<1>1. /\ at = "resolve" /\ a \in Places \cup {Jit}
      /\ captured' = [captured EXCEPT ![t] = Nothing]
      /\ UNCHANGED <<vmVars, at, todo, sinceReload, loadVars>>
  BY DEF Resolve, TypeOK
<1>2. /\ \/ symbolCache' = symbolCache
         \/ /\ answer # Nothing
            /\ \E gone \in Places :
                  symbolCache' = [symbolCache EXCEPT ![gone] = Nothing, ![a] = answer]
      /\ shouldReload' = (answer = Nothing)
      /\ missed' = IF a # Jit /\ answer = Nothing /\ mapped[a] # Nothing
                     THEN [missed EXCEPT ![a] = Min({@ + 1, 2})] ELSE missed
  BY DEF Resolve, Symbolize, CacheSymbol, CountMissed, Answer
<1>3. binaries' = IF shouldReload THEN mapped ELSE binaries
  BY DEF Resolve, ReloadBinaries
<1>4. \A p \in Places : missed[p] = 1 => binaries'[p] # Nothing
  BY <1>3 DEF MissedOnce
<1>5. binaries' \in [Places -> Libs \cup {Nothing}]
  BY <1>3 DEF TypeOK
<1>6. \A p \in Places \ reused : {info[p], binaries'[p], symbolCache[p]} \subseteq {mapped[p], Nothing}
  BY <1>3 DEF KnownTrue
<1>7. CASE answer = Nothing
  <2>1. symbolCache' = symbolCache /\ shouldReload' = TRUE  BY <1>2, <1>7
  <2>2. KnownTrue'
    BY <1>1, <1>6, <2>1 DEF KnownTrue, HasInfo
  <2>3. CASE a # Jit /\ mapped[a] # Nothing
    <3>1. a \in Places /\ missed[a] = 0
      <4>1. a \in Places  BY <1>1, <2>3
      <4>2. binaries'[a] = Nothing /\ symbolCache[a] = Nothing  BY <1>7, <2>3
      <4>3. missed[a] # 1  BY <1>4, <4>1, <4>2
      <4>4. missed[a] \in 0 .. 2 /\ missed[a] <= 1  BY <4>1 DEF TypeOK, MissedOnce
      <4>5. QED  BY <4>1, <4>3, <4>4
    <3>2. Min({missed[a] + 1, 2}) = 1  BY <3>1, MinOfTwo
    <3>3. missed' = [missed EXCEPT ![a] = 1]  BY <1>2, <1>7, <2>3, <3>2
    <3>4. missed' \in [Places -> 0 .. 2] /\ MissedOnce'
      BY <1>1, <2>1, <2>3, <3>1, <3>3 DEF TypeOK, MissedOnce
    <3>5. QED
      BY <1>1, <1>5, <2>1, <2>2, <3>4 DEF TypeOK, CapturesSuspended, Live
  <2>4. CASE ~ (a # Jit /\ mapped[a] # Nothing)
    <3>1. missed' = missed  BY <1>2, <2>4
    <3>2. MissedOnce'  BY <1>1, <2>1, <3>1 DEF MissedOnce
    <3>3. QED
      BY <1>1, <1>5, <2>1, <2>2, <3>1, <3>2 DEF TypeOK, CapturesSuspended, Live
  <2>5. QED  BY <2>3, <2>4
<1>8. CASE answer # Nothing
  <2>1. a \in Places  BY <1>1, <1>8
  <2>2. shouldReload' = FALSE /\ missed' = missed
    BY <1>2, <1>8
  <2>3. answer = symbolCache[a] \/ answer = binaries'[a]  BY <1>8
  <2>4. answer \in Libs  BY <1>5, <1>8, <2>1, <2>3 DEF TypeOK
  <2>5. /\ symbolCache' \in [Places -> Libs \cup {Nothing}]
        /\ \A p \in Places : symbolCache'[p] \in {symbolCache[p], Nothing, answer}
        /\ \A p \in Places \ {a} : symbolCache'[p] # answer \/ symbolCache'[p] = symbolCache[p]
    <3>1. CASE symbolCache' = symbolCache
      BY <3>1 DEF TypeOK
    <3>2. ASSUME NEW gone \in Places,
                 symbolCache' = [symbolCache EXCEPT ![gone] = Nothing, ![a] = answer]
          PROVE  /\ symbolCache' \in [Places -> Libs \cup {Nothing}]
                 /\ \A p \in Places : symbolCache'[p] \in {symbolCache[p], Nothing, answer}
                 /\ \A p \in Places \ {a} :
                      symbolCache'[p] # answer \/ symbolCache'[p] = symbolCache[p]
      BY <1>8, <2>1, <2>4, <3>2 DEF TypeOK
    <3> QED
      BY <1>2, <3>1, <3>2
  <2>6. MissedOnce'
    BY <1>1, <1>4, <1>8, <2>1, <2>2 DEF TypeOK, MissedOnce
  <2>7. KnownTrue'
    <3>1. a \notin reused => answer \in {mapped[a], Nothing}
      BY <1>6, <2>1, <2>3
    <3>2. \A p \in Places \ reused : symbolCache'[p] \in {mapped[p], Nothing}
      <4>1. \A p \in Places \ reused : symbolCache[p] \in {mapped[p], Nothing}
        BY <1>6
      <4>2. QED  BY <2>5, <3>1, <4>1
    <3>3. QED  BY <1>1, <1>6, <3>2 DEF KnownTrue, HasInfo
  <2>8. QED
    BY <1>1, <1>5, <2>2, <2>5, <2>6, <2>7 DEF TypeOK, CapturesSuspended, Live
<1>9. QED  BY <1>7, <1>8

LEMMA NextUnwind == UnwindOK /\ [Next]_vars => UnwindOK'
<1> SUFFICES ASSUME UnwindOK, [Next]_vars  PROVE UnwindOK'
  OBVIOUS
<1>1. CASE StartSample \/ EndCapture \/ EndSample \/ UNCHANGED vars
  BY <1>1 DEF UnwindOK, TypeOK, CapturesSuspended, MissedOnce, KnownTrue, HasInfo, Live,
     StartSample, EndCapture, EndSample, vars
<1>2. QED
  BY <1>1, VmUnwind, CaptureUnwind, ResolveUnwind DEF Next, Sample

\* Whatever the VM maps and unmaps, what is remembered of a place no library
\* was unmapped from is true, and an address of a library goes without a name
\* at most once.
THEOREM UnwindInvariant == Spec => []UnwindOK
BY InitUnwind, NextUnwind, PTL DEF Spec
=============================================================================
