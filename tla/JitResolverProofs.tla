-------------------------- MODULE JitResolverProofs --------------------------
(***************************************************************************)
(* Proofs about JitResolver, for any methods, zone and VM behaviour.       *)
(***************************************************************************)
EXTENDS JitResolver, TLAPS

USE ZoneAssumption, VmAssumption, NameAssumption

-----------------------------------------------------------------------------
(***************************************************************************)
(* What the helpers return.                                                *)
(***************************************************************************)

\* lookup_method_range gives the name of a range around the pc, or none.
LEMMA LookupIsRange ==
  ASSUME NEW pc \in Addr, LookupRange(pc) # None
  PROVE  \E r \in ranges : r.start <= pc /\ pc < r.end /\ LookupRange(pc) = r.name
<1>1. Covering(pc) # {}
  BY DEF LookupRange
<1>2. PICK r \in Covering(pc) : r = CHOOSE s \in Covering(pc) : TRUE
  BY <1>1
<1>3. LookupRange(pc) = r.name
  BY <1>1, <1>2 DEF LookupRange
<1> QED
  BY <1>3 DEF Covering

\* It is a method or the generic frame.
LEMMA LookupName ==
  ASSUME TypeOK, NEW pc \in Addr, LookupRange(pc) # None
  PROVE  LookupRange(pc) \in Methods \cup {Generic}
<1> QED
  BY LookupIsRange DEF TypeOK, Ranges

\* A range that was read is well formed.
LEMMA RangeType ==
  ASSUME TypeOK, NEW r \in RangesRead
  PROVE  r \in Ranges /\ r.name \in Names
<1>1. \A n \in NamesAt(seen.start) : n \in Methods
  BY DEF NamesAt, TypeOK, Blocks
<1>2. PICK n \in Methods \cup {Generic} : r = [start |-> seen.start, end |-> seen.end, name |-> n]
  BY <1>1 DEF RangesRead
<1> QED
  BY <1>2 DEF Ranges, Names, TypeOK

\* A list with one range more is well formed.
LEMMA InsertType ==
  ASSUME TypeOK, NEW r \in RangesRead
  PROVE  InsertRange(r) \subseteq Ranges
<1>1. r \in Ranges
  BY RangeType
<1> QED
  BY <1>1 DEF TypeOK, InsertRange

\* The size of a block is well formed, and so is none.
LEMMA SeenType ==
  ASSUME TypeOK
  PROVE  /\ NotSeen \in [start : Nat, end : Nat]
         /\ \A b \in zone : SeeSize(b) => seen' \in [start : Nat, end : Nat]
<1> QED
  BY DEF NotSeen, SeeSize, TypeOK, Blocks

\* A pc's name is remembered.
LEMMA ReturnType ==
  ASSUME TypeOK, NEW name \in Names, Return(name)
  PROVE  /\ answer' \in Names \cup {None} /\ at' = "idle"
         /\ resolved' \in [Addr -> Names \cup {None}]
<1> QED
  BY DEF TypeOK, Return

\* A walk starts at an address.
LEMMA StartWalkType ==
  ASSUME TypeOK, NEW a \in Nat, StartWalk(a)
  PROVE  /\ at' \in {"fallback", "walk"} /\ walk' \in Nat /\ end' \in Nat
         /\ bounds' \in Nat \cup {-1} /\ entries' \in BOOLEAN
<1> QED
  BY DEF TypeOK, StartWalk

-----------------------------------------------------------------------------
(***************************************************************************)
(* Types.                                                                  *)
(***************************************************************************)

\* The VM's steps keep the types.
LEMMA TypeVm ==
  ASSUME TypeOK, ZoneOK, Vm
  PROVE  TypeOK'
<1>1. ASSUME NEW m \in Methods, Allocate(m)
      PROVE  TypeOK'
  <2>1. Block(free, m, IF kind.atomic THEN "full" ELSE "none") \in Blocks
    BY DEF TypeOK, Block, Blocks, Headers
  <2>2. zone' \subseteq Blocks /\ free' \in Nat
    BY <1>1, <2>1 DEF Allocate, TypeOK
  <2> QED
    BY <1>1, <2>2 DEF Allocate, TypeOK, cacheVars, askVars
<1>2. ASSUME NEW b \in zone, FillHeader(b)
      PROVE  TypeOK'
  <2>1. [b EXCEPT !.header = IF @ = "none" THEN "sized" ELSE "full"] \in Blocks
    BY DEF TypeOK, Blocks, Headers
  <2>2. zone' \subseteq Blocks
    BY <1>2, <2>1 DEF FillHeader, TypeOK
  <2> QED
    BY <1>2, <2>2 DEF FillHeader, TypeOK, cacheVars, askVars
<1>3. ASSUME NEW b \in zone, Discard(b)
      PROVE  TypeOK'
  <2> DEFINE gap == b.end - b.start
             Slide(c) == IF c.start > b.start
                           THEN [c EXCEPT !.start = @ - gap, !.end = @ - gap] ELSE c
  <2>1. b \in Blocks /\ gap \in Nat /\ b.start \in Nat /\ b.end \in Nat
    BY DEF TypeOK, ZoneOK, Blocks
  <2>2. ASSUME NEW c \in zone
        PROVE  Slide(c) \in Blocks
    <3>1. c \in Blocks /\ c.start \in Nat /\ c.end \in Nat /\ c.start < c.end
      BY DEF TypeOK, ZoneOK, Blocks
    <3>2. CASE c.start > b.start
      <4>1. b.end <= c.start
        BY <2>1, <3>1, <3>2 DEF ZoneOK
      <4>2. c.start - gap \in Nat /\ c.end - gap \in Nat
        BY <2>1, <3>1, <4>1
      <4> QED
        BY <3>1, <3>2, <4>2 DEF Blocks
    <3>3. CASE ~ (c.start > b.start)
      BY <3>1, <3>3
    <3> QED
      BY <3>2, <3>3
  <2>3. zone' = {Slide(c) : c \in zone \ {b}} /\ free' = free - gap
    BY <1>3 DEF Discard
  <2>4. zone' \subseteq Blocks
    BY <2>2, <2>3
  <2>5. free' \in Nat
    <3>1. b.end <= free /\ free \in Nat
      BY DEF TypeOK, ZoneOK
    <3>2. free' = free - (b.end - b.start)
      BY <2>3
    <3> QED
      BY <2>1, <3>1, <3>2
  <2> QED
    BY <1>3, <2>4, <2>5 DEF Discard, TypeOK, cacheVars, askVars
<1> QED
  BY <1>1, <1>2, <1>3 DEF Vm

\* Resolving a pc keeps the types.
LEMMA TypeResolve ==
  ASSUME TypeOK, ZoneOK, Resolve
  PROVE  TypeOK'
<1>0. target.pc \in Addr
  BY DEF TypeOK
<1>1. CASE AnswerKnown
  <2>1. PICK name \in Names : Return(name)
    BY <1>0, <1>1, LookupName DEF AnswerKnown, TypeOK, Names
  <2>2. /\ answer' \in Names \cup {None} /\ at' = "idle"
        /\ resolved' \in [Addr -> Names \cup {None}]
    BY <2>1, ReturnType
  <2> QED
    BY <1>1, <2>2 DEF AnswerKnown, TypeOK, vmVars
<1>2. CASE SkipRefresh
  BY <1>2 DEF SkipRefresh, TypeOK, vmVars, cacheVars
<1>3. CASE RefreshSame
  <2>1. ScanCursor \in Nat
    BY <1>3 DEF TypeOK, ScanCursor
  <2>2. /\ at' \in {"fallback", "walk"} /\ walk' \in Nat /\ end' \in Nat
        /\ bounds' \in Nat \cup {-1} /\ entries' \in BOOLEAN
    <3>1. CASE StartWalk(ScanCursor)
      BY <2>1, <3>1, StartWalkType
    <3>2. CASE at' = "fallback" /\ UNCHANGED <<walk, end, bounds, entries>>
      BY <3>2 DEF TypeOK
    <3> QED
      BY <1>3, <3>1, <3>2 DEF RefreshSame
  <2> QED
    BY <1>3, <2>2 DEF RefreshSame, TypeOK, vmVars
<1>4. CASE RefreshGrown
  <2> DEFINE from == IF cursor = -1 THEN bounds ELSE cursor
  <2>1. from \in Nat
    BY <1>4 DEF TypeOK, RefreshGrown
  <2>2. /\ at' \in {"fallback", "walk"} /\ walk' \in Nat /\ end' \in Nat
        /\ bounds' \in Nat \cup {-1} /\ entries' \in BOOLEAN
    <3>1. CASE StartWalk(from)
      BY <2>1, <3>1, StartWalkType
    <3>2. CASE at' = "fallback" /\ bounds' = free /\ entries' = TRUE /\ UNCHANGED <<walk, end>>
      BY <3>2 DEF TypeOK
    <3> QED
      BY <1>4, <3>1, <3>2 DEF RefreshGrown
  <2> QED
    BY <1>4, <2>2 DEF RefreshGrown, TypeOK, vmVars
<1>5. CASE RefreshAnew
  <2>1. /\ at' \in {"fallback", "walk"} /\ walk' \in Nat /\ end' \in Nat
        /\ bounds' \in Nat \cup {-1} /\ entries' \in BOOLEAN
    BY <1>5, StartWalkType DEF RefreshAnew
  <2>2. ranges' \subseteq Ranges /\ resolved' \in [Addr -> Names \cup {None}]
        /\ blocked' = -1 /\ stale' = FALSE
    BY <1>5 DEF RefreshAnew
  <2> QED
    BY <1>5, <2>1, <2>2 DEF RefreshAnew, TypeOK, vmVars
<1>6. CASE WalkSize
  <2>1. CASE (\E b \in Readable(walk) : SeeSize(b)) /\ at' = "sized"
             /\ UNCHANGED <<cursor, blocked, walk, end>>
    <3>1. seen' \in [start : Nat, end : Nat]
      BY <2>1, SeenType DEF Readable
    <3> QED
      BY <1>6, <2>1, <3>1 DEF WalkSize, TypeOK, vmVars
  <2>2. CASE blocked' = walk /\ EndWalk
    BY <1>6, <2>2, SeenType DEF WalkSize, EndWalk, TypeOK, vmVars
  <2> QED
    BY <1>6, <2>1, <2>2 DEF WalkSize
<1>10. CASE WalkName
  <2>1. CASE seen.end <= end + 1
    <3>1. ranges' \subseteq Ranges
      BY <1>10, <2>1, InsertType DEF WalkName
    <3>2. walk' \in Nat
      BY <1>10, <2>1 DEF WalkName, TypeOK
    <3> QED
      BY <1>10, <2>1, <3>1, <3>2, SeenType DEF WalkName, TypeOK, vmVars
  <2>2. CASE ~ (seen.end <= end + 1)
    BY <1>10, <2>2, SeenType DEF WalkName, EndWalk, TypeOK, vmVars
  <2> QED
    BY <2>1, <2>2
<1>7. CASE WalkDone
  BY <1>7, SeenType DEF WalkDone, EndWalk, TypeOK, vmVars
<1>8. CASE LookAgain
  <2>1. CASE LookupRange(target.pc) # None
    <3>1. LookupRange(target.pc) \in Names
      BY <1>0, <2>1, LookupName DEF Names
    <3>2. Return(LookupRange(target.pc))
      BY <1>8, <2>1 DEF LookAgain
    <3>3. /\ answer' \in Names \cup {None} /\ at' = "idle"
          /\ resolved' \in [Addr -> Names \cup {None}]
      BY <3>1, <3>2, ReturnType
    <3> QED
      BY <1>8, <3>3 DEF LookAgain, TypeOK, vmVars
  <2>2. CASE LookupRange(target.pc) = None
    BY <1>8, <2>2 DEF LookAgain, TypeOK, vmVars
  <2> QED
    BY <2>1, <2>2
<1>9. CASE Fallback
  <2>1. CASE (Return(Tramp) \/ Return(Generic)) /\ UNCHANGED seen
    <3>1. /\ answer' \in Names \cup {None} /\ at' = "idle"
          /\ resolved' \in [Addr -> Names \cup {None}]
      BY <2>1, ReturnType DEF Names
    <3> QED
      BY <1>9, <2>1, <3>1 DEF Fallback, TypeOK, vmVars
  <2>2. CASE (\E b \in Scanned(target.pc) : SeeSize(b)) /\ at' = "scanned"
             /\ UNCHANGED <<answer, resolved>>
    <3>1. seen' \in [start : Nat, end : Nat]
      BY <2>2, SeenType DEF Scanned
    <3> QED
      BY <1>9, <2>2, <3>1 DEF Fallback, TypeOK, vmVars
  <2> QED
    BY <1>9, <2>1, <2>2 DEF Fallback
<1>11. CASE ScanName
  <2>1. PICK r \in RangesRead : Return(r.name) /\ ranges' = InsertRange(r)
    BY <1>11 DEF ScanName
  <2>2. /\ answer' \in Names \cup {None} /\ at' = "idle"
        /\ resolved' \in [Addr -> Names \cup {None}]
    BY <2>1, ReturnType, RangeType
  <2>3. ranges' \subseteq Ranges
    BY <2>1, InsertType
  <2> QED
    BY <1>11, <2>2, <2>3, SeenType DEF ScanName, TypeOK, vmVars
<1> QED
  BY <1>1, <1>2, <1>3, <1>4, <1>5, <1>6, <1>7, <1>8, <1>9, <1>10, <1>11 DEF Resolve

\* Every step keeps the types.
LEMMA TypeNext ==
  ASSUME TypeOK, ZoneOK, [Next]_vars
  PROVE  TypeOK'
<1>1. CASE Capture
  <2>1. target' \in [pc : Addr, truth : Methods \cup {Tramp}]
    <3>1. CASE target' = [pc |-> 0, truth |-> Tramp]
      BY <3>1 DEF Addr
    <3>2. ASSUME NEW b \in zone, NEW pc \in b.start + 1 .. b.end - 1,
                 target' = [pc |-> pc, truth |-> b.name]
          PROVE  target' \in [pc : Addr, truth : Methods \cup {Tramp}]
      <4>1. b \in Blocks /\ b.start \in Nat /\ b.end \in Nat /\ b.end <= free /\ free <= Limit
            /\ free \in Nat
        BY DEF TypeOK, ZoneOK, Blocks
      <4>2. pc \in Addr
        BY <4>1 DEF Addr
      <4> QED
        BY <3>2, <4>1, <4>2 DEF Blocks
    <3> QED
      BY <1>1, <3>1, <3>2 DEF Capture
  <2> QED
    BY <1>1, <2>1 DEF Capture, TypeOK, vmVars, cacheVars
<1>2. CASE Vm
  BY <1>2, TypeVm
<1>3. CASE Resolve
  BY <1>3, TypeResolve
<1>4. CASE UNCHANGED vars
  BY <1>4 DEF TypeOK, vars, vmVars, cacheVars, askVars
<1> QED
  BY <1>1, <1>2, <1>3, <1>4 DEF Next

\* The initial state is well typed.
LEMMA TypeInit ==
  ASSUME Init
  PROVE  TypeOK
<1>1. target \in [pc : Addr, truth : Methods \cup {Tramp}]
  BY DEF Init, Addr
<1>2. resolved \in [Addr -> Names \cup {None}]
  BY DEF Init
<1> QED
  BY <1>1, <1>2 DEF Init, TypeOK, NotSeen

-----------------------------------------------------------------------------
(***************************************************************************)
(* The zone.                                                               *)
(***************************************************************************)

\* A block of the zone, its bounds and the free start as numbers.
LEMMA BlockFacts ==
  ASSUME TypeOK, ZoneOK, NEW b \in zone
  PROVE  /\ b.start \in Nat /\ b.end \in Nat /\ free \in Nat
         /\ Base <= b.start /\ b.start < b.end /\ b.end <= free /\ free <= Limit
         /\ b.name \in Methods
<1> QED
  BY DEF TypeOK, ZoneOK, Blocks

\* Two blocks around one address are one block.
LEMMA OneBlock ==
  ASSUME TypeOK, ZoneOK, NEW b \in zone, NEW c \in zone, NEW pc \in Nat,
         b.start <= pc, pc < b.end, c.start <= pc, pc < c.end
  PROVE  b = c
<1>1. /\ b.start \in Nat /\ b.end \in Nat
      /\ c.start \in Nat /\ c.end \in Nat
  BY BlockFacts
<1>2. b = c \/ b.end <= c.start \/ c.end <= b.start
  BY DEF ZoneOK
<1> QED
  BY <1>1, <1>2

\* Blocks stay side by side, also when the zone is compacted.
LEMMA ZoneVm ==
  ASSUME TypeOK, ZoneOK, Vm
  PROVE  ZoneOK'
<1>1. ASSUME NEW m \in Methods, Allocate(m)
      PROVE  ZoneOK'
  <2> DEFINE n == Block(free, m, IF kind.atomic THEN "full" ELSE "none")
  <2>1. n.start = free /\ n.end = free + LenOf[m] /\ LenOf[m] \in Nat /\ LenOf[m] > 0
        /\ free \in Nat
    BY DEF Block, TypeOK
  <2>2. zone' = zone \cup {n} /\ free' = free + LenOf[m] /\ free + LenOf[m] <= Limit
    BY <1>1 DEF Allocate
  <2>3. \A b \in zone : b.start \in Nat /\ b.end \in Nat /\ Base <= b.start
                        /\ b.start < b.end /\ b.end <= free
    BY BlockFacts
  <2> HIDE DEF n
  <2>4. Base <= free' /\ free' <= Limit
    BY <2>1, <2>2 DEF ZoneOK
  <2>5. \A b \in zone' : Base <= b.start /\ b.start < b.end /\ b.end <= free'
    BY <2>1, <2>2, <2>3 DEF ZoneOK
  <2>6. \A b, c \in zone' : b = c \/ b.end <= c.start \/ c.end <= b.start
    BY <2>1, <2>2, <2>3 DEF ZoneOK
  <2> QED
    BY <2>4, <2>5, <2>6 DEF ZoneOK
<1>2. ASSUME NEW b \in zone, FillHeader(b)
      PROVE  ZoneOK'
  <2> DEFINE n == [b EXCEPT !.header = IF @ = "none" THEN "sized" ELSE "full"]
  <2>1. n.start = b.start /\ n.end = b.end
    BY DEF TypeOK, Blocks
  <2>2. zone' = (zone \ {b}) \cup {n} /\ free' = free
    BY <1>2 DEF FillHeader
  <2> HIDE DEF n
  <2>3. \A c \in zone' : Base <= c.start /\ c.start < c.end /\ c.end <= free'
    BY <2>1, <2>2 DEF ZoneOK
  <2>4. \A c, d \in zone' : c = d \/ c.end <= d.start \/ d.end <= c.start
    BY <2>1, <2>2 DEF ZoneOK
  <2> QED
    BY <2>2, <2>3, <2>4 DEF ZoneOK
<1>3. ASSUME NEW b \in zone, Discard(b)
      PROVE  ZoneOK'
  <2> DEFINE gap == b.end - b.start
             Slide(c) == IF c.start > b.start
                           THEN [c EXCEPT !.start = @ - gap, !.end = @ - gap] ELSE c
  <2>1. zone' = {Slide(c) : c \in zone \ {b}} /\ free' = free - gap
    BY <1>3 DEF Discard
  <2>2. /\ b.start \in Nat /\ b.end \in Nat /\ free \in Nat
        /\ Base <= b.start /\ b.start < b.end /\ b.end <= free /\ free <= Limit
    BY BlockFacts
  <2>3. ASSUME NEW c \in zone \ {b}
        PROVE  \/ /\ c.end <= b.start
                  /\ Slide(c).start = c.start /\ Slide(c).end = c.end
               \/ /\ b.end <= c.start
                  /\ Slide(c).start = c.start - gap /\ Slide(c).end = c.end - gap
    <3>1. c \in Blocks /\ c.start \in Nat /\ c.end \in Nat /\ c.start < c.end
      BY BlockFacts DEF TypeOK
    <3>2. c.end <= b.start \/ b.end <= c.start
      BY DEF ZoneOK
    <3>3. CASE c.start > b.start
      <4>1. b.end <= c.start
        BY <2>2, <3>1, <3>2, <3>3
      <4>2. Slide(c) = [c EXCEPT !.start = @ - gap, !.end = @ - gap]
        BY <3>3
      <4> QED
        BY <3>1, <4>1, <4>2 DEF Blocks
    <3>4. CASE ~ (c.start > b.start)
      <4>1. c.end <= b.start
        BY <2>2, <3>1, <3>2, <3>4
      <4> QED
        BY <3>4, <4>1
    <3> QED
      BY <3>3, <3>4
  <2>4. \A c \in zone : c.start \in Nat /\ c.end \in Nat /\ Base <= c.start
                        /\ c.start < c.end /\ c.end <= free
    BY BlockFacts
  <2> HIDE DEF Slide
  <2>5. Base <= free' /\ free' <= Limit
    BY <2>1, <2>2
  <2>6. ASSUME NEW c \in zone \ {b}
        PROVE  Base <= Slide(c).start /\ Slide(c).start < Slide(c).end /\ Slide(c).end <= free'
    BY <2>1, <2>2, <2>3, <2>4
  <2>7. ASSUME NEW c \in zone \ {b}, NEW d \in zone \ {b}
        PROVE  \/ Slide(c) = Slide(d)
               \/ Slide(c).end <= Slide(d).start
               \/ Slide(d).end <= Slide(c).start
    <3>1. c = d \/ c.end <= d.start \/ d.end <= c.start
      BY DEF ZoneOK
    <3>2. /\ c.start \in Nat /\ c.end \in Nat /\ c.start < c.end
          /\ d.start \in Nat /\ d.end \in Nat /\ d.start < d.end
      BY <2>4
    <3>3. CASE c = d
      BY <3>3
    <3>4. CASE c.end <= d.start \/ d.end <= c.start
      BY <2>2, <2>3, <3>2, <3>4
    <3> QED
      BY <3>1, <3>3, <3>4
  <2> QED
    BY <2>1, <2>5, <2>6, <2>7 DEF ZoneOK
<1> QED
  BY <1>1, <1>2, <1>3 DEF Vm

-----------------------------------------------------------------------------
(***************************************************************************)
(* What the profiler knows stays true while the VM compiles.               *)
(***************************************************************************)

\* One block at two times: no header is unwritten.
Same(b, c) ==
  /\ b.start = c.start /\ b.end = c.end /\ b.name = c.name
  /\ b.header = "full" => c.header = "full"
  /\ b.header # "none" => c.header # "none"

\* A range that mirrors a block mirrors it later.
LEMMA SameMirrors ==
  ASSUME NEW r, NEW b, NEW c, Same(b, c), Mirrors(r, b)
  PROVE  Mirrors(r, c)
<1> QED
  BY DEF Same, Mirrors

\* Unless the VM compacts the zone, no block goes, and new ones lie above.
LEMMA VmGrows ==
  ASSUME TypeOK, ZoneOK, Vm, ~ \E b \in zone : Discard(b)
  PROVE  /\ \A b \in zone : \E c \in zone' : Same(b, c)
         /\ \A c \in zone' : c.end <= free => \E b \in zone : Same(b, c)
         /\ free <= free'
         /\ UNCHANGED <<cacheVars, askVars, moved, stale>>
<1>1. ASSUME NEW m \in Methods, Allocate(m)
      PROVE  /\ \A b \in zone : \E c \in zone' : Same(b, c)
             /\ \A c \in zone' : c.end <= free => \E b \in zone : Same(b, c)
             /\ free <= free'
             /\ UNCHANGED <<cacheVars, askVars, moved, stale>>
  <2> DEFINE n == Block(free, m, IF kind.atomic THEN "full" ELSE "none")
  <2>1. n.end = free + LenOf[m] /\ LenOf[m] \in Nat /\ LenOf[m] > 0 /\ free \in Nat
    BY DEF Block, TypeOK
  <2>2. /\ zone' = zone \cup {n} /\ free' = free + LenOf[m]
        /\ UNCHANGED <<cacheVars, askVars, moved, stale>>
    BY <1>1 DEF Allocate
  <2> HIDE DEF n
  <2>3. ~ (n.end <= free) /\ free <= free'
    BY <2>1, <2>2
  <2> QED
    BY <2>2, <2>3 DEF Same
<1>2. ASSUME NEW b \in zone, FillHeader(b)
      PROVE  /\ \A d \in zone : \E c \in zone' : Same(d, c)
             /\ \A c \in zone' : c.end <= free => \E d \in zone : Same(d, c)
             /\ free <= free'
             /\ UNCHANGED <<cacheVars, askVars, moved, stale>>
  <2> DEFINE n == [b EXCEPT !.header = IF @ = "none" THEN "sized" ELSE "full"]
  <2>1. /\ zone' = (zone \ {b}) \cup {n} /\ free' = free /\ free \in Nat
        /\ UNCHANGED <<cacheVars, askVars, moved, stale>>
    BY <1>2 DEF FillHeader, TypeOK
  <2>2. Same(b, n)
    BY <1>2 DEF Same, FillHeader, TypeOK, Blocks
  <2> HIDE DEF n
  <2>3. \A d \in zone : Same(d, d)
    BY DEF Same
  <2>4. free <= free'
    BY <2>1
  <2> QED
    BY <2>1, <2>2, <2>3, <2>4
<1> QED
  BY <1>1, <1>2 DEF Vm

\* The VM's steps keep the invariant: a compaction by marking it broken.
LEMMA InvVm ==
  ASSUME TypeOK, JitInv, Vm
  PROVE  JitInv'
<1>1. ZoneOK'
  BY ZoneVm DEF JitInv
<1>2. CASE \E b \in zone : Discard(b)
  <2>1. moved' = TRUE /\ stale' = TRUE /\ UNCHANGED <<at, answer>>
    BY <1>2 DEF Discard, askVars
  <2> QED
    BY <1>1, <2>1 DEF JitInv, TargetThere, RangesMirrorZone, CacheMirrorsZone, WalkInv, SeenThere
<1>3. CASE ~ \E b \in zone : Discard(b)
  <2>1. /\ \A b \in zone : \E c \in zone' : Same(b, c)
        /\ \A c \in zone' : c.end <= free => \E b \in zone : Same(b, c)
        /\ free <= free'
        /\ UNCHANGED <<cacheVars, askVars, moved, stale>>
    BY <1>3, VmGrows DEF JitInv
  <2>2. UNCHANGED <<ranges, resolved, bounds, cursor, at, target, walk, seen, answer, moved, stale>>
    BY <2>1 DEF cacheVars, askVars
  <2>3. TargetThere'
    BY <2>1, <2>2 DEF JitInv, TargetThere, Same
  <2>4. RangesMirrorZone'
    BY <2>1, <2>2, SameMirrors DEF JitInv, RangesMirrorZone
  <2>5. CacheMirrorsZone'
    BY <2>1, <2>2 DEF JitInv, CacheMirrorsZone, Same
  <2>6. ASSUME NEW a \in Nat, ReadUpTo(a)
        PROVE  a <= free' /\ \A b \in zone' : b.end <= a => \E r \in ranges' : Mirrors(r, b)
    <3>1. a <= free /\ free \in Nat /\ free' \in Nat
      BY <2>6, TypeVm DEF ReadUpTo, TypeOK, JitInv
    <3>2. ASSUME NEW c \in zone', c.end <= a
          PROVE  \E r \in ranges' : Mirrors(r, c)
      <4>1. c.end \in Nat
        BY TypeVm DEF JitInv, TypeOK, Blocks
      <4>2. PICK b \in zone : Same(b, c)
        BY <2>1, <3>1, <3>2, <4>1
      <4>3. b.end <= a
        BY <3>2, <4>2 DEF Same
      <4>4. PICK r \in ranges : Mirrors(r, b)
        BY <2>6, <4>3 DEF ReadUpTo
      <4> QED
        BY <2>2, <4>2, <4>4, SameMirrors
    <3> QED
      BY <2>1, <3>1, <3>2
  <2>7. WalkInv'
    <3>1. walk \in Nat /\ (cursor # -1 => cursor \in Nat)
      BY DEF TypeOK
    <3>2. ASSUME ~ stale, at \in Walking
          PROVE  ReadUpTo(walk)'
      BY <2>2, <2>6, <3>1, <3>2 DEF JitInv, WalkInv, ReadUpTo
    <3>3. ASSUME ~ stale, at \notin Walking, cursor # -1
          PROVE  ReadUpTo(cursor)'
      BY <2>2, <2>6, <3>1, <3>3 DEF JitInv, WalkInv, ReadUpTo
    <3> QED
      BY <2>2, <3>2, <3>3 DEF JitInv, WalkInv
  <2>8. SeenThere'
    BY <2>1, <2>2 DEF JitInv, SeenThere, Same
  <2> QED
    BY <1>1, <2>3, <2>4, <2>5, <2>7, <2>8 DEF JitInv
<1> QED
  BY <1>2, <1>3

-----------------------------------------------------------------------------
(***************************************************************************)
(* Resolving a pc.                                                         *)
(***************************************************************************)

\* A method around a pc.
Around(name, pc) ==
  \E b \in zone : b.header = "full" /\ b.name = name /\ b.start <= pc /\ pc < b.end

\* The method a range names lies there.
LEMMA RangeAround ==
  ASSUME TypeOK, JitInv, ~ stale, NEW pc \in Addr, LookupRange(pc) \in Methods
  PROVE  Around(LookupRange(pc), pc)
<1>1. LookupRange(pc) # None /\ LookupRange(pc) # Generic
  OBVIOUS
<1>2. PICK r \in ranges : r.start <= pc /\ pc < r.end /\ LookupRange(pc) = r.name
  BY <1>1, LookupIsRange
<1>3. PICK b \in zone : Mirrors(r, b)
  BY DEF JitInv, RangesMirrorZone
<1> QED
  BY <1>1, <1>2, <1>3 DEF Mirrors, Around

\* A name that is right, or says no method, may be returned and remembered.
LEMMA ReturnRight ==
  ASSUME TypeOK, JitInv, at # "idle", NEW name, Return(name),
         UNCHANGED <<zone, target, moved, stale>>,
         ~ stale /\ name \in Methods => Around(name, target.pc)
  PROVE  /\ CacheMirrorsZone' /\ TargetThere' /\ NeverAnotherMethod'
         /\ at' = "idle"
<1>1. at' = "idle" /\ answer' = name /\ resolved' = [resolved EXCEPT ![target.pc] = name]
  BY DEF Return
<1>2. TargetThere'
  BY <1>1 DEF TargetThere
<1>3. CacheMirrorsZone'
  <2>1. ASSUME ~ stale', NEW pc \in Addr, resolved'[pc] \in Methods
        PROVE  Around(resolved'[pc], pc)
    <3>1. CASE pc = target.pc
      BY <1>1, <2>1, <3>1 DEF TypeOK
    <3>2. CASE pc # target.pc
      BY <1>1, <2>1, <3>2 DEF TypeOK, JitInv, CacheMirrorsZone, Around
    <3> QED
      BY <3>1, <3>2
  <2> QED
    BY <2>1 DEF CacheMirrorsZone, Around
<1>4. NeverAnotherMethod'
  <2> SUFFICES ASSUME ~ stale, ~ moved, name \in Methods
               PROVE  name = target.truth
    BY <1>1 DEF NeverAnotherMethod
  <2>1. PICK b \in zone : /\ b.name = name
                          /\ b.start <= target.pc /\ target.pc < b.end
    BY DEF Around
  <2>2. target.pc \in Nat
    BY DEF TypeOK, Addr
  <2>3. b.start \in Nat /\ Base <= b.start
    BY BlockFacts DEF JitInv
  <2>4. target.pc # 0
    BY <2>1, <2>2, <2>3
  <2>5. PICK c \in zone : c.name = target.truth /\ c.start < target.pc /\ target.pc < c.end
    BY <2>4 DEF JitInv, TargetThere
  <2>6. c.start \in Nat /\ c.start <= target.pc
    BY <2>2, <2>5, BlockFacts DEF JitInv
  <2>7. b = c
    BY <2>1, <2>2, <2>5, <2>6, OneBlock DEF JitInv
  <2> QED
    BY <2>1, <2>5, <2>7
<1> QED
  BY <1>1, <1>2, <1>3, <1>4

\* While the zone is not compacted, a range that was read is that of the block
\* whose size was read.
LEMMA SeenRight ==
  ASSUME TypeOK, JitInv, ~ stale, at \in {"sized", "scanned"}, NEW r \in RangesRead
  PROVE  \E b \in zone : /\ Mirrors(r, b)
                         /\ IF at = "sized" THEN b.start = walk /\ b.end = seen.end
                            ELSE b.start < target.pc /\ target.pc < b.end
<1>1. PICK b \in zone : /\ b.header # "none" /\ b.start = seen.start /\ b.end = seen.end
                        /\ IF at = "sized" THEN b.start = walk
                           ELSE b.start < target.pc /\ target.pc < b.end
  BY DEF JitInv, SeenThere
<1>2. PICK n \in (IF NamesAt(seen.start) = {} THEN {Generic} ELSE NamesAt(seen.start)) :
        r = [start |-> seen.start, end |-> seen.end, name |-> n]
  BY DEF RangesRead
<1>3. n = Generic \/ (b.header = "full" /\ n = b.name)
  <2>1. CASE NamesAt(seen.start) = {}
    BY <1>2, <2>1
  <2>2. CASE NamesAt(seen.start) # {}
    <3>1. PICK c \in zone : c.start = seen.start /\ c.header = "full" /\ n = c.name
      BY <1>2, <2>2 DEF NamesAt
    <3>2. /\ b.start \in Nat /\ b.end \in Nat /\ b.start < b.end
          /\ c.start \in Nat /\ c.end \in Nat /\ c.start < c.end
      BY BlockFacts DEF JitInv
    <3>3. b = c
      BY <1>1, <3>1, <3>2, OneBlock DEF JitInv
    <3> QED
      BY <3>1, <3>3
  <2> QED
    BY <2>1, <2>2
<1> QED
  BY <1>1, <1>2, <1>3 DEF Mirrors

\* A range that mirrors a block replaces that block's range only.
LEMMA InsertRight ==
  ASSUME TypeOK, ZoneOK, NEW b \in zone, NEW r0, Mirrors(r0, b),
         ranges' = InsertRange(r0), zone' = zone
  PROVE  /\ (\A r \in ranges : \E c \in zone : Mirrors(r, c)) =>
               \A r \in ranges' : \E c \in zone' : Mirrors(r, c)
         /\ \A c \in zone : (\E r \in ranges : Mirrors(r, c)) => \E r \in ranges' : Mirrors(r, c)
         /\ \E r \in ranges' : Mirrors(r, b)
<1>2. ranges' = {s \in ranges : s.start # r0.start} \cup {r0} /\ r0.start = b.start
  BY DEF InsertRange, Mirrors
<1>3. ASSUME NEW c \in zone, NEW r \in ranges, Mirrors(r, c)
      PROVE  \E q \in ranges' : Mirrors(q, c)
  <2>1. CASE r.start # b.start
    BY <1>2, <1>3, <2>1
  <2>2. CASE r.start = b.start
    <3>1. c.start = b.start
      BY <1>3, <2>2 DEF Mirrors
    <3>2. /\ b.start \in Nat /\ b.end \in Nat /\ b.start < b.end
          /\ c.end \in Nat /\ c.start < c.end
      BY BlockFacts
    <3>3. b = c
      BY <3>1, <3>2, OneBlock
    <3> QED
      BY <1>2, <3>3
  <2> QED
    BY <2>1, <2>2
<1> QED
  BY <1>2, <1>3

\* The walk's answer to a known pc, and to one found in the ranges just read.
LEMMA InvKnown ==
  ASSUME TypeOK, JitInv, AnswerKnown \/ LookAgain
  PROVE  JitInv' /\ (answer' = answer \/ NeverAnotherMethod')
<1>0. target.pc \in Addr
  BY DEF TypeOK
<1>1. /\ UNCHANGED <<zone, free, ranges, bounds, cursor, target, walk, moved, stale>>
      /\ at \in {"ask", "look"} /\ at' \in {"idle", "fallback"}
  BY DEF AnswerKnown, LookAgain, Return, vmVars
<1>2. ZoneOK' /\ RangesMirrorZone' /\ WalkInv' /\ SeenThere'
  BY <1>1 DEF JitInv, ZoneOK, RangesMirrorZone, WalkInv, ReadUpTo, Walking, SeenThere
<1>3. CASE Return(resolved[target.pc])
  <2>1. ~ stale /\ resolved[target.pc] \in Methods => Around(resolved[target.pc], target.pc)
    BY <1>0 DEF JitInv, CacheMirrorsZone, Around
  <2> QED
    BY <1>1, <1>2, <1>3, <2>1, ReturnRight DEF JitInv
<1>4. CASE Return(LookupRange(target.pc))
  <2>1. ~ stale /\ LookupRange(target.pc) \in Methods => Around(LookupRange(target.pc), target.pc)
    BY <1>0, RangeAround
  <2> QED
    BY <1>1, <1>2, <1>4, <2>1, ReturnRight DEF JitInv
<1>5. CASE UNCHANGED <<answer, resolved>> /\ at' = "fallback"
  BY <1>1, <1>2, <1>5 DEF JitInv, TargetThere, CacheMirrorsZone
<1> QED
  BY <1>3, <1>4, <1>5 DEF AnswerKnown, LookAgain

\* Steps that set the walk up keep what is known, or forget it.
LEMMA InvRefresh ==
  ASSUME TypeOK, JitInv, SkipRefresh \/ RefreshSame \/ RefreshGrown \/ RefreshAnew
  PROVE  JitInv' /\ answer' = answer
<1>1. /\ at = "ask" /\ at' \in {"fallback", "walk"}
      /\ UNCHANGED <<zone, free, cursor, target, answer, moved>>
  BY DEF SkipRefresh, RefreshSame, RefreshGrown, RefreshAnew, RefreshNow, Unknown, StartWalk,
         vmVars, cacheVars
<1>2. ZoneOK' /\ TargetThere' /\ SeenThere'
  BY <1>1 DEF JitInv, ZoneOK, TargetThere, SeenThere
<1>3. CASE SkipRefresh \/ RefreshSame \/ RefreshGrown
  <2>1. UNCHANGED <<ranges, resolved, stale>>
    BY <1>3 DEF SkipRefresh, RefreshSame, RefreshGrown, cacheVars
  <2>2. RangesMirrorZone' /\ CacheMirrorsZone'
    BY <1>1, <2>1 DEF JitInv, RangesMirrorZone, CacheMirrorsZone
  <2>3. \/ at' = "walk" /\ bounds # -1 /\ (cursor # -1 => walk' = cursor)
        \/ at' = "fallback" /\ bounds' = bounds
        \/ at' = "fallback" /\ bounds # -1
    BY <1>3 DEF SkipRefresh, RefreshSame, RefreshGrown, StartWalk, ScanCursor, cacheVars,
                TypeOK
  <2>4. WalkInv'
    BY <1>1, <2>1, <2>3 DEF JitInv, WalkInv, ReadUpTo, Walking
  <2> QED
    BY <1>1, <1>2, <2>2, <2>4 DEF JitInv
<1>4. CASE RefreshAnew
  <2>1. ranges' = {} /\ resolved' = [pc \in Addr |-> None]
    BY <1>4 DEF RefreshAnew
  <2>2. RangesMirrorZone' /\ CacheMirrorsZone'
    BY <2>1 DEF RangesMirrorZone, CacheMirrorsZone
  <2>3. Base <= free /\ Base \in Nat /\ free \in Nat
    BY DEF JitInv, ZoneOK, TypeOK
  <2>4. at' = "walk" /\ walk' = Base
    BY <1>4, <2>3 DEF RefreshAnew, RefreshNow, BoundsUnreadable, StartWalk
  <2>5. \A b \in zone : ~ (b.end <= Base)
    BY BlockFacts DEF JitInv
  <2>6. WalkInv'
    BY <1>1, <2>3, <2>4, <2>5 DEF WalkInv, ReadUpTo, Walking
  <2> QED
    BY <1>1, <1>2, <2>2, <2>6 DEF JitInv
<1> QED
  BY <1>3, <1>4

\* The walk reads a size, goes up one block, or ends.
LEMMA InvWalk ==
  ASSUME TypeOK, JitInv, WalkSize \/ WalkName \/ WalkDone
  PROVE  JitInv' /\ answer' = answer
<1>1. /\ at \in Walking /\ at' # "idle"
      /\ UNCHANGED <<zone, free, resolved, target, answer, moved, stale>>
  BY DEF WalkSize, WalkName, WalkDone, EndWalk, vmVars, Walking
<1>2. ZoneOK' /\ TargetThere' /\ CacheMirrorsZone'
  BY <1>1 DEF JitInv, ZoneOK, TargetThere, CacheMirrorsZone, Walking
<1>3. CASE EndWalk /\ UNCHANGED ranges
  <2>1. at' = "look" /\ cursor' = walk /\ walk # -1
    BY <1>3 DEF EndWalk, TypeOK
  <2>2. RangesMirrorZone' /\ WalkInv' /\ SeenThere'
    BY <1>1, <1>3, <2>1 DEF JitInv, RangesMirrorZone, WalkInv, ReadUpTo, Walking, SeenThere
  <2> QED
    BY <1>1, <1>2, <2>2 DEF JitInv
<1>4. CASE WalkSize /\ at' = "sized"
  <2>1. at = "walk" /\ UNCHANGED <<ranges, walk>>
    BY <1>4 DEF WalkSize, EndWalk
  <2>2. PICK b \in zone : /\ b.header # "none" /\ b.start = walk
                          /\ seen' = [start |-> b.start, end |-> b.end]
    BY <1>4 DEF WalkSize, EndWalk, Readable, SeeSize
  <2>3. SeenThere'
    BY <1>1, <1>4, <2>1, <2>2 DEF SeenThere
  <2>4. RangesMirrorZone' /\ WalkInv'
    BY <1>1, <1>4, <2>1 DEF JitInv, RangesMirrorZone, WalkInv, ReadUpTo, Walking
  <2> QED
    BY <1>1, <1>2, <2>3, <2>4 DEF JitInv
<1>5. CASE WalkName /\ at' = "walk"
  <2>1. PICK r0 \in RangesRead : ranges' = InsertRange(r0) /\ walk' = seen.end
    BY <1>5 DEF WalkName, EndWalk
  <2>2. SeenThere'
    BY <1>5 DEF SeenThere
  <2>3. CASE stale
    BY <1>1, <1>2, <2>2, <2>3 DEF JitInv, RangesMirrorZone, WalkInv
  <2>4. CASE ~ stale
    <3>1. PICK b \in zone : Mirrors(r0, b) /\ b.start = walk /\ b.end = seen.end
      BY <1>5, <2>4, SeenRight DEF WalkName
    <3>2. /\ (\A r \in ranges : \E c \in zone : Mirrors(r, c)) =>
                 \A r \in ranges' : \E c \in zone' : Mirrors(r, c)
          /\ \A c \in zone : (\E r \in ranges : Mirrors(r, c)) => \E r \in ranges' : Mirrors(r, c)
          /\ \E r \in ranges' : Mirrors(r, b)
      BY <1>1, <2>1, <3>1, InsertRight DEF JitInv
    <3>3. RangesMirrorZone'
      BY <1>1, <2>4, <3>2 DEF JitInv, RangesMirrorZone
    <3>4. ASSUME NEW c \in zone, c.end <= b.end
          PROVE  \E r \in ranges' : Mirrors(r, c)
      <4>1. /\ b.start \in Nat /\ b.end \in Nat /\ c.start \in Nat /\ c.end \in Nat
            /\ c.start < c.end
        BY BlockFacts DEF JitInv
      <4>2. b = c \/ c.end <= b.start
        BY <3>4, <4>1 DEF JitInv, ZoneOK
      <4>3. CASE c.end <= b.start
        BY <1>1, <2>4, <3>1, <3>2, <4>3 DEF JitInv, WalkInv, ReadUpTo
      <4> QED
        BY <3>2, <4>2, <4>3
    <3>5. b.end <= free
      BY BlockFacts DEF JitInv
    <3>6. WalkInv'
      BY <1>1, <1>5, <2>1, <3>1, <3>4, <3>5 DEF WalkInv, ReadUpTo, Walking
    <3> QED
      BY <1>1, <1>2, <2>2, <3>3, <3>6 DEF JitInv
  <2> QED
    BY <2>3, <2>4
<1> QED
  BY <1>3, <1>4, <1>5 DEF WalkSize, WalkName, WalkDone

\* The fallback's answer, or the header it finds.
LEMMA InvFallback ==
  ASSUME TypeOK, JitInv, Fallback \/ ScanName
  PROVE  JitInv' /\ (answer' = answer \/ NeverAnotherMethod')
<1>1. /\ UNCHANGED <<zone, free, bounds, cursor, target, moved, stale>>
      /\ at \in {"fallback", "scanned"} /\ at' \in {"idle", "scanned"}
  BY DEF Fallback, ScanName, Return, vmVars
<1>2. ZoneOK'
  BY <1>1 DEF JitInv, ZoneOK
<1>3. CASE (Return(Tramp) \/ Return(Generic)) /\ UNCHANGED ranges
  <2>1. at' = "idle"
    BY <1>3 DEF Return
  <2>2. RangesMirrorZone' /\ WalkInv' /\ SeenThere'
    BY <1>1, <1>3, <2>1 DEF JitInv, RangesMirrorZone, WalkInv, ReadUpTo, Walking, SeenThere
  <2>3. Tramp \notin Methods /\ Generic \notin Methods
    OBVIOUS
  <2>4. CacheMirrorsZone' /\ TargetThere' /\ NeverAnotherMethod'
    BY <1>1, <1>3, <2>3, ReturnRight
  <2> QED
    BY <1>2, <2>2, <2>4 DEF JitInv
<1>4. CASE Fallback /\ at' = "scanned"
  <2>1. /\ at = "fallback" /\ UNCHANGED <<ranges, answer, resolved>>
        /\ \E b \in Scanned(target.pc) : SeeSize(b)
    BY <1>4 DEF Fallback, Return
  <2>2. PICK b \in zone : /\ b.header # "none" /\ b.start < target.pc /\ target.pc < b.end
                          /\ seen' = [start |-> b.start, end |-> b.end]
    BY <2>1 DEF Scanned, SeeSize
  <2>3. SeenThere'
    BY <1>1, <1>4, <2>2 DEF SeenThere
  <2>4. RangesMirrorZone' /\ CacheMirrorsZone' /\ TargetThere' /\ WalkInv'
    BY <1>1, <1>4, <2>1 DEF JitInv, RangesMirrorZone, CacheMirrorsZone, TargetThere, WalkInv,
                            ReadUpTo, Walking
  <2> QED
    BY <1>2, <2>1, <2>3, <2>4 DEF JitInv
<1>5. CASE ScanName
  <2>1. PICK r0 \in RangesRead : Return(r0.name) /\ ranges' = InsertRange(r0)
    BY <1>5 DEF ScanName
  <2>2. at = "scanned" /\ at' = "idle"
    BY <1>5, <2>1 DEF ScanName, Return
  <2>3. ASSUME ~ stale
        PROVE  /\ r0.name \in Methods => Around(r0.name, target.pc)
               /\ (\A r \in ranges : \E c \in zone : Mirrors(r, c)) =>
                     \A r \in ranges' : \E c \in zone' : Mirrors(r, c)
               /\ \A c \in zone : (\E r \in ranges : Mirrors(r, c)) =>
                     \E r \in ranges' : Mirrors(r, c)
    <3>1. PICK b \in zone : Mirrors(r0, b) /\ b.start < target.pc /\ target.pc < b.end
      BY <2>2, <2>3, SeenRight
    <3>2. b.start <= target.pc
      BY <3>1, BlockFacts DEF JitInv, TypeOK, Addr
    <3>3. r0.name \in Methods => Around(r0.name, target.pc)
      BY <3>1, <3>2 DEF Mirrors, Around
    <3> QED
      BY <1>1, <2>1, <3>1, <3>3, InsertRight DEF JitInv
  <2>4. CacheMirrorsZone' /\ TargetThere' /\ NeverAnotherMethod'
    BY <1>1, <2>1, <2>2, <2>3, ReturnRight
  <2>5. RangesMirrorZone' /\ SeenThere'
    BY <1>1, <2>2, <2>3 DEF JitInv, RangesMirrorZone, SeenThere
  <2>6. WalkInv'
    BY <1>1, <2>2, <2>3 DEF JitInv, WalkInv, ReadUpTo, Walking
  <2> QED
    BY <1>2, <2>4, <2>5, <2>6 DEF JitInv
<1> QED
  BY <1>3, <1>4, <1>5 DEF Fallback, ScanName

-----------------------------------------------------------------------------
(***************************************************************************)
(* The invariant.                                                          *)
(***************************************************************************)

\* The three together are inductive.
ResolverInv == TypeOK /\ JitInv /\ NeverAnotherMethod

\* It holds at the start.
LEMMA ResolverInit ==
  ASSUME Init
  PROVE  ResolverInv
<1>1. ZoneOK /\ TargetThere
  BY DEF Init, ZoneOK, TargetThere
<1>2. RangesMirrorZone /\ CacheMirrorsZone /\ WalkInv /\ SeenThere /\ NeverAnotherMethod
  BY DEF Init, RangesMirrorZone, CacheMirrorsZone, WalkInv, Walking, SeenThere, NeverAnotherMethod
<1> QED
  BY <1>1, <1>2, TypeInit DEF ResolverInv, JitInv

\* Every step keeps it.
LEMMA ResolverNext ==
  ASSUME ResolverInv, [Next]_vars
  PROVE  ResolverInv'
<1> USE DEF ResolverInv
<1>1. TypeOK'
  BY TypeNext DEF JitInv
<1>2. CASE Capture
  <2>1. /\ UNCHANGED <<zone, free, ranges, resolved, bounds, cursor, walk, stale>>
        /\ at = "idle" /\ at' = "ask" /\ answer' = None /\ moved' = FALSE
    BY <1>2 DEF Capture, vmVars, cacheVars
  <2>2. \/ target'.truth = Tramp /\ target'.pc = 0
        \/ \E b \in zone : /\ b.header = "full" /\ b.name = target'.truth
                           /\ b.start < target'.pc /\ target'.pc < b.end
    <3>1. ASSUME NEW b \in zone, NEW pc \in b.start + 1 .. b.end - 1
          PROVE  b.start < pc /\ pc < b.end
      BY BlockFacts DEF JitInv
    <3> QED
      BY <1>2, <3>1 DEF Capture
  <2>3. TargetThere' /\ NeverAnotherMethod'
    BY <2>1, <2>2 DEF TargetThere, NeverAnotherMethod
  <2>4. ZoneOK' /\ RangesMirrorZone' /\ CacheMirrorsZone' /\ WalkInv' /\ SeenThere'
    BY <2>1 DEF JitInv, ZoneOK, RangesMirrorZone, CacheMirrorsZone, WalkInv, ReadUpTo, Walking,
                SeenThere
  <2> QED
    BY <1>1, <2>3, <2>4 DEF JitInv
<1>3. CASE Vm
  <2>1. JitInv'
    BY <1>3, InvVm
  <2>2. UNCHANGED <<answer, target>> /\ (UNCHANGED <<moved, stale>> \/ moved' = TRUE)
    BY <1>3 DEF Vm, Allocate, FillHeader, Discard, askVars
  <2>3. NeverAnotherMethod'
    BY <2>2 DEF NeverAnotherMethod
  <2> QED
    BY <1>1, <2>1, <2>3
<1>4. CASE Resolve
  <2>1. JitInv' /\ (answer' = answer \/ NeverAnotherMethod')
    BY <1>4, InvKnown, InvRefresh, InvWalk, InvFallback DEF Resolve
  <2>2. at # "idle"
    BY <1>4 DEF Resolve, AnswerKnown, SkipRefresh, RefreshSame, RefreshGrown, RefreshAnew,
                RefreshNow, Unknown, WalkSize, WalkName, WalkDone, LookAgain, Fallback,
                ScanName
  <2>3. answer = None
    BY <2>2 DEF JitInv, TargetThere
  <2> QED
    BY <1>1, <2>1, <2>3 DEF NeverAnotherMethod
<1>5. CASE UNCHANGED vars
  <2>1. ZoneOK' /\ TargetThere' /\ RangesMirrorZone' /\ CacheMirrorsZone' /\ WalkInv'
        /\ SeenThere' /\ NeverAnotherMethod'
    BY <1>5 DEF vars, vmVars, cacheVars, askVars, JitInv, ZoneOK, TargetThere,
                RangesMirrorZone, CacheMirrorsZone, WalkInv, ReadUpTo, SeenThere, NeverAnotherMethod
  <2> QED
    BY <1>1, <2>1 DEF JitInv
<1> QED
  BY <1>2, <1>3, <1>4, <1>5 DEF Next

\* The inductive invariant holds always.
LEMMA ResolverAlways == Spec => []ResolverInv
<1>1. Init => ResolverInv
  BY ResolverInit
<1>2. ResolverInv /\ [Next]_vars => ResolverInv'
  BY ResolverNext
<1> QED
  BY <1>1, <1>2, PTL DEF Spec

-----------------------------------------------------------------------------
(***************************************************************************)
(* A VM that only appends methods.                                         *)
(***************************************************************************)

\* A block whose range was read answers for its pcs.
LEMMA RangeAnswers ==
  ASSUME TypeOK, JitInv, ~ stale, NEW b \in zone, NEW r \in ranges, Mirrors(r, b),
         NEW pc \in Addr, b.start <= pc, pc < b.end
  PROVE  LookupRange(pc) # None
<1>1. pc \in Nat /\ b.start \in Nat /\ b.end \in Nat  BY BlockFacts DEF JitInv, Addr
<1>2. ASSUME NEW s \in ranges, s.start <= pc  PROVE s.start <= r.start
  <2>1. PICK c \in zone : Mirrors(s, c)  BY DEF JitInv, RangesMirrorZone
  <2>2. c.start \in Nat /\ c.end \in Nat /\ c.start < c.end  BY BlockFacts DEF JitInv
  <2>3. b = c \/ b.end <= c.start \/ c.end <= b.start  BY DEF JitInv, ZoneOK
  <2>4. c.start <= pc /\ s.start = c.start /\ r.start = b.start  BY <1>2, <2>1 DEF Mirrors
  <2>5. QED  BY <1>1, <2>2, <2>3, <2>4
<1>3. r \in Covering(pc)  BY <1>2 DEF Covering, Mirrors
<1>4. \A s \in Covering(pc) : s.name \in Methods \cup {Generic}
  BY DEF Covering, TypeOK, Ranges
<1>5. (CHOOSE s \in Covering(pc) : TRUE) \in Covering(pc)  BY <1>3
<1>6. None \notin Methods \cup {Generic}  BY DEF None, Generic
<1>7. QED  BY <1>3, <1>4, <1>5, <1>6 DEF LookupRange

\* Where all below the cursor was read, so was the block of a pc below it.
LEMMA ReadAnswers ==
  ASSUME TypeOK, JitInv, AppendInv, AppendOnly, at \notin Walking, cursor # -1,
         at # "idle", target.truth # Tramp, target.pc < cursor
  PROVE  LookupRange(target.pc) # None
<1>1. PICK b \in zone : b.start < target.pc /\ target.pc < b.end
  BY DEF JitInv, TargetThere, AppendInv
<1>2. cursor \in Nat /\ target.pc \in Addr /\ target.pc \in Nat
  BY DEF TypeOK, Addr
<1>3. /\ b.start \in Nat /\ b.end \in Nat
  BY BlockFacts DEF JitInv
<1>4. b.end <= cursor
  <2>1. Border(cursor)
    <3>1. cursor = bounds  BY DEF AppendInv
    <3>2. QED  BY <3>1 DEF AppendInv
  <2>2. b.end <= cursor \/ cursor <= b.start  BY <2>1 DEF Border
  <2>3. QED  BY <1>1, <1>2, <1>3, <2>2
<1>5. PICK r \in ranges : Mirrors(r, b)
  BY <1>4 DEF JitInv, WalkInv, ReadUpTo, AppendInv
<1>6. b.start <= target.pc  BY <1>1, <1>2, <1>3
<1>7. ~ stale  BY DEF AppendInv
<1>8. QED  BY <1>1, <1>2, <1>5, <1>6, <1>7, RangeAnswers

\* The block the sample was taken in lies below the free start, above the base.
LEMMA TargetInZone ==
  ASSUME TypeOK, JitInv, AppendInv, AppendOnly, at # "idle"
  PROVE  IF target.truth = Tramp THEN target.pc = 0
         ELSE Base < target.pc /\ target.pc < free
<1>1. \/ target.truth = Tramp /\ target.pc = 0
      \/ \E b \in zone : /\ b.name = target.truth /\ b.start < target.pc /\ target.pc < b.end
  BY DEF JitInv, TargetThere, AppendInv
<1>2. ASSUME NEW b \in zone, b.name = target.truth, b.start < target.pc, target.pc < b.end
      PROVE  target.truth # Tramp /\ Base < target.pc /\ target.pc < free
  <2>1. /\ b.start \in Nat /\ b.end \in Nat /\ free \in Nat /\ target.pc \in Nat
        /\ Base <= b.start /\ b.end <= free /\ b.name \in Methods
    BY BlockFacts DEF JitInv, TypeOK, Addr
  <2>2. QED  BY <1>2, <2>1
<1>3. QED  BY <1>1, <1>2

\* The VM appends: no border is crossed, no address left out.
LEMMA AppendVm ==
  ASSUME TypeOK, JitInv, AppendInv, Vm
  PROVE  AppendInv'
<1> SUFFICES ASSUME AppendOnly'  PROVE AppendInv'
  BY DEF AppendInv
<1>0. kind' = kind /\ AppendOnly
  BY DEF Vm, Allocate, FillHeader, Discard, AppendOnly
<1>1. ~ \E b \in zone : FillHeader(b) \/ Discard(b)
  BY <1>0 DEF FillHeader, Discard, AppendInv, AppendOnly
<1>2. PICK m \in Methods : Allocate(m)
  BY <1>1 DEF Vm
<1> DEFINE n == Block(free, m, "full")
<1>3. /\ zone' = zone \cup {n} /\ free' = free + LenOf[m]
      /\ UNCHANGED <<kind, cacheVars, askVars, moved, stale>>
  BY <1>0, <1>2 DEF Allocate, AppendOnly
<1>4. n.start = free /\ n.end = free' /\ n.header = "full" /\ LenOf[m] \in Nat /\ free \in Nat
      /\ free <= free' /\ free' \in Nat
  BY <1>3 DEF Block, TypeOK
<1> HIDE DEF n
<1>5. ASSUME NEW a \in Base .. free, Border(a)  PROVE Border(a)'
  <2>1. a \in Base .. free'  BY <1>4
  <2>2. a <= n.start  BY <1>4
  <2>3. QED  BY <1>3, <1>5, <2>1, <2>2 DEF Border
<1>6. \A b \in zone' : b.header = "full"  BY <1>0, <1>3, <1>4 DEF AppendInv
<1>7. ASSUME NEW pc \in Addr, Base <= pc, pc < free'
      PROVE  \E b \in zone' : b.start <= pc /\ pc < b.end
  <2>0. pc \in Nat  BY DEF Addr
  <2>1. CASE pc < free
    BY <1>0, <1>3, <1>7, <2>1 DEF AppendInv
  <2>2. CASE free <= pc
    <3>1. n \in zone' /\ n.start <= pc /\ pc < n.end  BY <1>3, <1>4, <1>7, <2>2
    <3>2. QED  BY <3>1
  <2>3. QED  BY <1>4, <2>0, <2>1, <2>2
<1>8. /\ UNCHANGED <<bounds, cursor, blocked, ranges, resolved, at, target, walk, end, moved, stale>>
  BY <1>3 DEF cacheVars, askVars
<1>9. bounds' # -1 => Border(bounds)'
  <2>1. ASSUME bounds # -1  PROVE Border(bounds) /\ bounds \in Base .. free
    BY <1>0, <2>1 DEF AppendInv, Border
  <2>2. QED  BY <1>5, <1>8, <2>1 DEF Border
<1>10. at' \in Walking => Border(walk)'
  <2>1. ASSUME at \in Walking  PROVE Border(walk) /\ walk \in Base .. free
    BY <1>0, <2>1 DEF AppendInv, Border
  <2>2. QED  BY <1>5, <1>8, <2>1 DEF Border
<1>11. /\ at' \in Walking => walk' <= end' /\ end' = bounds'
       /\ at' = "sized" => walk' < end'
       /\ at' \notin Walking => cursor' = bounds'
       /\ at' = "look" => bounds' # -1
       /\ at' \in Walking \cup {"look"} => target'.pc < bounds'
       /\ at' = "fallback" => target'.truth = Tramp
       /\ at' # "scanned" /\ ~ stale' /\ ~ moved' /\ blocked' = -1
       /\ \A r \in ranges' : r.name # Generic
       /\ \A pc \in Addr \ {0} : resolved'[pc] \in Methods \cup {None}
  BY <1>0, <1>8 DEF AppendInv
<1>12. QED  BY <1>6, <1>7, <1>9, <1>10, <1>11 DEF AppendInv

\* A header that is there gives a name.
LEMMA NoneGeneric ==
  ASSUME TypeOK, JitInv, AppendInv, AppendOnly, at = "sized"
  PROVE  /\ seen.start = walk /\ \A r \in RangesRead : r.name # Generic
         /\ \E b \in zone : b.start = walk /\ b.end = seen.end
<1>1. PICK b \in zone : b.start = seen.start /\ b.end = seen.end /\ b.start = walk
  BY DEF JitInv, SeenThere, AppendInv
<1>2. b.header = "full"  BY DEF AppendInv
<1>3. b.name \in NamesAt(seen.start)  BY <1>1, <1>2 DEF NamesAt
<1>4. \A n \in NamesAt(seen.start) : n \in Methods  BY BlockFacts DEF NamesAt, JitInv
<1>5. QED  BY <1>1, <1>3, <1>4 DEF RangesRead

\* What holds of the zone, when neither it nor the caches' bounds change.
LEMMA AppendZone ==
  ASSUME AppendInv, AppendOnly, UNCHANGED <<zone, free>>
  PROVE  /\ \A b \in zone' : b.header = "full"
         /\ \A pc \in Addr : Base <= pc /\ pc < free' => \E b \in zone' : b.start <= pc /\ pc < b.end
         /\ \A a : Border(a)' = Border(a)
<1>1. \A a : Border(a)' = Border(a)  BY DEF Border
<1>2. /\ \A b \in zone : b.header = "full"
      /\ \A pc \in Addr : Base <= pc /\ pc < free => \E b \in zone : b.start <= pc /\ pc < b.end
  BY DEF AppendInv
<1>3. QED  BY <1>1, <1>2

\* A name that was remembered or is that of a range is a method's.
LEMMA AppendKnown ==
  ASSUME TypeOK, JitInv, AppendInv, AppendOnly, AnswerKnown \/ LookAgain
  PROVE  AppendInv' /\ (answer' # None /\ target.truth # Tramp => answer' \in Methods)
<1>1. /\ UNCHANGED <<kind, zone, free, ranges, bounds, cursor, blocked, target, walk, end, moved, stale>>
      /\ at \in {"ask", "look"} /\ at' \in {"idle", "fallback"}
  BY DEF AnswerKnown, LookAgain, Return, vmVars
<1>2. target.pc \in Addr /\ answer = None /\ resolved \in [Addr -> Names \cup {None}]
  BY <1>1 DEF TypeOK, JitInv, TargetThere
<1>3. target.truth # Tramp => target.pc # 0
  BY <1>1, TargetInZone DEF TypeOK, Addr
<1>4. /\ \A b \in zone' : b.header = "full"
      /\ \A pc \in Addr : Base <= pc /\ pc < free' => \E b \in zone' : b.start <= pc /\ pc < b.end
      /\ \A a : Border(a)' = Border(a)
  BY <1>1, AppendZone
<1>5. cursor = bounds /\ ~ stale /\ ~ moved /\ blocked = -1 /\ (bounds # -1 => Border(bounds))
      /\ \A r \in ranges : r.name # Generic
  BY <1>1 DEF AppendInv, Walking
<1>6. \A pc \in Addr \ {0} : resolved[pc] \in Methods \cup {None}
  BY DEF AppendInv
<1>7. LookupRange(target.pc) # None => LookupRange(target.pc) \in Methods
  <2>1. ASSUME LookupRange(target.pc) # None  PROVE LookupRange(target.pc) # Generic
    BY <1>2, <1>5, <2>1, LookupIsRange
  <2>2. QED  BY <1>2, <2>1, LookupName
<1>8. ASSUME at' = "fallback"  PROVE target.truth = Tramp /\ UNCHANGED <<answer, resolved>>
  <2>1. at = "look" /\ LookupRange(target.pc) = None /\ UNCHANGED <<answer, resolved>>
    BY <1>8 DEF AnswerKnown, LookAgain, Return
  <2>2. cursor # -1 /\ target.pc < cursor
    BY <1>5, <2>1 DEF AppendInv
  <2>3. QED  BY <2>1, <2>2, ReadAnswers DEF Walking
<1>9. \/ UNCHANGED <<answer, resolved>>
      \/ /\ answer' \in Methods \/ target.pc = 0
         /\ resolved' = [resolved EXCEPT ![target.pc] = answer']
  <2>1. CASE Return(resolved[target.pc]) /\ resolved[target.pc] # None
    BY <1>2, <1>6, <2>1 DEF Return
  <2>2. CASE Return(LookupRange(target.pc)) /\ LookupRange(target.pc) # None
    BY <1>7, <2>2 DEF Return
  <2>3. CASE UNCHANGED <<answer, resolved>>
    BY <2>3
  <2>4. QED  BY <2>1, <2>2, <2>3 DEF AnswerKnown, LookAgain
<1>10. \A pc \in Addr \ {0} : resolved'[pc] \in Methods \cup {None}
  BY <1>2, <1>6, <1>9
<1>11. AppendInv'
  BY <1>1, <1>4, <1>5, <1>8, <1>10 DEF AppendInv, Walking
<1>12. QED  BY <1>2, <1>3, <1>9, <1>11

\* A name is looked for in the zone only where it was not read.
LEMMA AppendRefresh ==
  ASSUME TypeOK, JitInv, AppendInv, AppendOnly,
         SkipRefresh \/ RefreshSame \/ RefreshGrown \/ RefreshAnew
  PROVE  AppendInv'
<1>1. /\ at = "ask" /\ at' \in {"fallback", "walk"} /\ Unknown
      /\ UNCHANGED <<kind, zone, free, cursor, target, answer, moved>>
  BY DEF SkipRefresh, RefreshSame, RefreshGrown, RefreshAnew, RefreshNow, Unknown, StartWalk,
         vmVars, cacheVars
<1>2. cursor = bounds /\ ~ stale /\ ~ moved /\ blocked = -1 /\ (bounds # -1 => Border(bounds))
      /\ \A r \in ranges : r.name # Generic
  BY <1>1 DEF AppendInv, Walking
<1>3. /\ Base \in Nat /\ free \in Nat /\ Base <= free /\ bounds \in Nat \cup {-1}
      /\ target.pc \in Nat
  BY DEF TypeOK, JitInv, ZoneOK, Addr
<1>4. bounds # -1 => bounds <= free /\ Base <= bounds
  BY <1>2, <1>3 DEF Border
<1>5. /\ \A b \in zone' : b.header = "full"
      /\ \A pc \in Addr : Base <= pc /\ pc < free' => \E b \in zone' : b.start <= pc /\ pc < b.end
      /\ \A a : Border(a)' = Border(a)
  BY <1>1, AppendZone
<1>6. Border(free) /\ Border(Base)
  <2>1. \A b \in zone : b.end <= free /\ Base <= b.start  BY BlockFacts DEF JitInv
  <2>2. QED  BY <1>3, <2>1 DEF Border
<1>7. target.truth # Tramp => Base < target.pc /\ target.pc < free
  BY <1>1, TargetInZone
<1>8. target.truth = Tramp => target.pc = 0
  BY <1>1, TargetInZone
<1>9. target.truth # Tramp => bounds = -1 \/ bounds <= target.pc
  <2>1. ASSUME target.truth # Tramp, bounds # -1, target.pc < bounds  PROVE FALSE
    <3>1. LookupRange(target.pc) # None
      BY <1>1, <1>2, <2>1, ReadAnswers DEF Walking
    <3>2. QED  BY <1>1, <3>1 DEF Unknown
  <2>2. QED  BY <1>3, <2>1
<1>10. CASE at' = "fallback"
  <2>1. target.truth = Tramp
    <3>1. ASSUME target.truth # Tramp  PROVE at' # "fallback"
      <4>1. ~ SkipRefresh
        BY <1>3, <1>7, <1>9, <3>1 DEF SkipRefresh, ShouldRefresh, BoundsUnreadable
      <4>2. ASSUME RefreshSame  PROVE FALSE
        BY <1>3, <1>7, <1>9, <3>1, <4>2 DEF RefreshSame
      <4>3. ASSUME RefreshGrown  PROVE at' # "fallback"
        BY <1>2, <1>3, <4>3 DEF RefreshGrown, StartWalk
      <4>4. ASSUME RefreshAnew  PROVE at' # "fallback"
        BY <1>3, <1>7, <3>1, <4>4 DEF RefreshAnew, StartWalk
      <4>5. QED  BY <4>1, <4>2, <4>3, <4>4
    <3>2. QED  BY <1>10, <3>1
  <2>2. /\ UNCHANGED <<ranges, resolved, blocked, stale>>
        /\ bounds' = bounds
    <3>1. CASE SkipRefresh  BY <3>1 DEF SkipRefresh, cacheVars
    <3>2. CASE RefreshSame  BY <1>10, <3>2 DEF RefreshSame, StartWalk
    <3>3. ~ RefreshGrown
      BY <1>2, <1>3, <1>10 DEF RefreshGrown, StartWalk
    <3>4. ~ RefreshAnew
      BY <1>3, <1>10 DEF RefreshAnew, StartWalk, RefreshNow, BoundsUnreadable
    <3>5. QED  BY <3>1, <3>2, <3>3, <3>4
  <2>3. QED  BY <1>1, <1>2, <1>5, <1>10, <2>1, <2>2 DEF AppendInv, Walking
<1>11. CASE at' = "walk"
  <2>1. /\ bounds' = free /\ end' = free /\ walk' \in {Base, bounds} /\ walk' # -1 /\ walk' < free
        /\ blocked' = -1 /\ stale' = FALSE
        /\ ranges' \in {ranges, {}} /\ resolved' \in {resolved, [pc \in Addr |-> None]}
    <3>1. CASE RefreshSame
      BY <1>2, <1>3, <1>11, <3>1 DEF RefreshSame, StartWalk, ScanCursor
    <3>2. CASE RefreshGrown
      BY <1>2, <1>3, <1>11, <3>2 DEF RefreshGrown, StartWalk
    <3>3. CASE RefreshAnew
      BY <1>3, <1>11, <3>3 DEF RefreshAnew, StartWalk
    <3>4. QED  BY <1>11, <3>1, <3>2, <3>3 DEF SkipRefresh
  <2>2. Border(walk') /\ Border(bounds')
    BY <1>2, <1>6, <2>1
  <2>3. Border(walk)' /\ Border(bounds)'
    BY <1>1, <2>2 DEF Border
  <2>4. target'.pc < bounds'
    BY <1>1, <1>3, <1>4, <1>7, <1>8, <2>1
  <2>5. walk' <= end'  BY <1>3, <1>4, <2>1
  <2>6. \A r \in ranges' : r.name # Generic  BY <1>2, <2>1
  <2>7. \A pc \in Addr \ {0} : resolved'[pc] \in Methods \cup {None}
    BY <2>1 DEF AppendInv
  <2>8. QED
    BY <1>1, <1>2, <1>5, <1>11, <2>1, <2>3, <2>4, <2>5, <2>6, <2>7 DEF AppendInv, Walking
<1>12. QED  BY <1>1, <1>10, <1>11

\* The walk goes from block to block, up to its end.
LEMMA AppendWalk ==
  ASSUME TypeOK, JitInv, AppendInv, AppendOnly, WalkSize \/ WalkName \/ WalkDone
  PROVE  AppendInv'
<1>1. /\ at \in Walking /\ at' \in {"walk", "sized", "look"}
      /\ UNCHANGED <<kind, zone, free, resolved, bounds, target, answer, moved, stale>>
  BY DEF WalkSize, WalkName, WalkDone, EndWalk, vmVars, Walking
<1>2. /\ Border(walk) /\ walk <= end /\ end = bounds /\ target.pc < bounds
      /\ ~ stale /\ ~ moved /\ blocked = -1 /\ (bounds # -1 => Border(bounds))
      /\ \A r \in ranges : r.name # Generic
      /\ \A pc \in Addr \ {0} : resolved[pc] \in Methods \cup {None}
  BY <1>1 DEF AppendInv
<1>3. /\ walk \in Nat /\ end \in Nat /\ bounds \in Nat /\ bounds # -1 /\ free \in Nat
      /\ Base <= walk /\ walk <= end /\ end <= free /\ free <= Limit
  <2>1. walk \in Nat /\ end \in Nat /\ free \in Nat /\ free <= Limit
    BY DEF TypeOK, JitInv, ZoneOK
  <2>2. bounds \in Nat /\ bounds # -1  BY <1>2, <2>1
  <2>3. QED  BY <1>2, <2>1, <2>2 DEF Border
<1>4. /\ \A b \in zone' : b.header = "full"
      /\ \A pc \in Addr : Base <= pc /\ pc < free' => \E b \in zone' : b.start <= pc /\ pc < b.end
      /\ \A a : Border(a)' = Border(a)
  BY <1>1, AppendZone
<1>5. CASE WalkSize
  <2>1. PICK b \in zone : b.start <= walk /\ walk < b.end
    <3>1. walk \in Addr /\ walk < free  BY <1>3, <1>5 DEF WalkSize, Addr
    <3>2. QED  BY <1>3, <3>1 DEF AppendInv
  <2>2. b.start = walk
    <3>1. b.start \in Nat /\ b.end \in Nat  BY BlockFacts DEF JitInv
    <3>2. b.end <= walk \/ walk <= b.start  BY <1>2 DEF Border
    <3>3. QED  BY <1>3, <2>1, <3>1, <3>2
  <2>3. b.header = "full"  BY DEF AppendInv
  <2>4. b \in Readable(walk)  BY <2>2, <2>3 DEF Readable
  <2>5. at' = "sized" /\ UNCHANGED <<cursor, blocked, walk, end, ranges>>
    BY <1>5, <2>4 DEF WalkSize
  <2>6. Border(walk)' /\ Border(bounds)'
    BY <1>1, <1>2, <1>3, <2>5 DEF Border
  <2>7. walk' < end'  BY <1>3, <1>5, <2>5 DEF WalkSize
  <2>8. QED  BY <1>1, <1>2, <1>4, <2>5, <2>6, <2>7 DEF AppendInv, Walking
<1>6. CASE WalkName
  <2>1. PICK b \in zone : b.start = walk /\ b.end = seen.end
    BY <1>6, NoneGeneric DEF WalkName
  <2>2. b.start \in Nat /\ b.end \in Nat /\ b.start < b.end /\ b.end <= free
    BY BlockFacts DEF JitInv
  <2>3. walk < end  BY <1>6 DEF WalkName, AppendInv
  <2>4. b.end <= end
    <3>1. Border(end)  BY <1>2, <1>3
    <3>2. b.end <= end \/ end <= b.start  BY <3>1 DEF Border
    <3>3. QED  BY <1>3, <2>1, <2>2, <2>3, <3>2
  <2>5. /\ at' = "walk" /\ walk' = b.end /\ blocked' = -1 /\ UNCHANGED <<cursor, end>>
        /\ \E r \in RangesRead : ranges' = InsertRange(r)
    <3>1. seen.end <= end + 1  BY <1>3, <2>1, <2>2, <2>4
    <3>2. QED  BY <1>6, <2>1, <3>1 DEF WalkName
  <2>6. \A r \in ranges' : r.name # Generic
    <3>1. at = "sized"  BY <1>6 DEF WalkName
    <3>2. QED  BY <1>2, <2>5, <3>1, NoneGeneric DEF InsertRange
  <2>7. Border(b.end)
    <3>1. ASSUME NEW c \in zone  PROVE c.end <= b.end \/ b.end <= c.start
      <4>1. c.start \in Nat /\ c.end \in Nat  BY BlockFacts DEF JitInv
      <4>2. b = c \/ b.end <= c.start \/ c.end <= b.start  BY DEF JitInv, ZoneOK
      <4>3. QED  BY <2>2, <4>1, <4>2
    <3>2. b.end \in Base .. free  BY <1>3, <2>1, <2>2
    <3>3. QED  BY <3>1, <3>2 DEF Border
  <2>8. Border(walk)' /\ Border(bounds)'
    BY <1>1, <1>2, <1>3, <2>5, <2>7 DEF Border
  <2>9. QED
    BY <1>1, <1>2, <1>3, <1>4, <2>4, <2>5, <2>6, <2>8 DEF AppendInv, Walking
<1>7. CASE WalkDone
  <2>1. walk = end  BY <1>3, <1>7 DEF WalkDone
  <2>2. at' = "look" /\ cursor' = bounds /\ UNCHANGED <<ranges, blocked>>
    BY <1>2, <1>7, <2>1 DEF WalkDone, EndWalk
  <2>3. Border(bounds)'  BY <1>1, <1>2, <1>3 DEF Border
  <2>4. QED  BY <1>1, <1>2, <1>3, <1>4, <2>2, <2>3 DEF AppendInv, Walking
<1>8. QED  BY <1>5, <1>6, <1>7

\* Only what is no method's is left to the fallback.
LEMMA AppendFallback ==
  ASSUME TypeOK, JitInv, AppendInv, AppendOnly, Fallback \/ ScanName
  PROVE  AppendInv' /\ target.truth = Tramp /\ UNCHANGED target
<1>1. Fallback /\ at = "fallback"
  BY DEF Fallback, ScanName, AppendInv
<1>2. target.truth = Tramp /\ target.pc = 0
  BY <1>1, TargetInZone DEF AppendInv
<1>3. Scanned(target.pc) = {}
  <2>1. \A b \in zone : b.start \in Nat  BY BlockFacts DEF JitInv
  <2>2. QED  BY <1>2, <2>1 DEF Scanned
<1>4. /\ UNCHANGED <<kind, zone, free, ranges, bounds, cursor, blocked, target, walk, end, moved, stale>>
      /\ at' = "idle" /\ \E name : resolved' = [resolved EXCEPT ![target.pc] = name]
  BY <1>1, <1>3 DEF Fallback, Return, vmVars
<1>5. cursor = bounds /\ ~ stale /\ ~ moved /\ blocked = -1 /\ (bounds # -1 => Border(bounds))
      /\ \A r \in ranges : r.name # Generic
  BY <1>1 DEF AppendInv, Walking
<1>6. \A pc \in Addr \ {0} : resolved'[pc] \in Methods \cup {None}
  BY <1>2, <1>4 DEF AppendInv, TypeOK
<1>7. /\ \A b \in zone' : b.header = "full"
      /\ \A pc \in Addr : Base <= pc /\ pc < free' => \E b \in zone' : b.start <= pc /\ pc < b.end
      /\ \A a : Border(a)' = Border(a)
  BY <1>4, AppendZone
<1>8. AppendInv'  BY <1>4, <1>5, <1>6, <1>7 DEF AppendInv, Walking
<1>9. QED  BY <1>2, <1>4, <1>8

AppendAll == AppendInv /\ (AppendOnly /\ answer # None /\ target.truth # Tramp => answer \in Methods)

LEMMA AppendInit == Init => AppendAll
<1> SUFFICES ASSUME Init  PROVE AppendAll
  OBVIOUS
<1>1. \A pc \in Addr : ~ (Base <= pc /\ pc < Base)
  BY DEF Addr
<1>2. QED  BY <1>1 DEF Init, AppendAll, AppendInv, Walking

LEMMA AppendNext ==
  ASSUME ResolverInv, AppendAll, [Next]_vars
  PROVE  AppendAll'
<1>0. TypeOK /\ JitInv /\ AppendInv  BY DEF ResolverInv, AppendAll
<1>1. kind' = kind /\ AppendOnly' = AppendOnly
  BY DEF Next, Vm, Allocate, FillHeader, Discard, Capture, Resolve, AnswerKnown, SkipRefresh, RefreshSame,
         RefreshGrown, RefreshAnew, WalkSize, WalkName, WalkDone, LookAgain, Fallback, ScanName, vars,
         vmVars, AppendOnly
<1> SUFFICES ASSUME AppendOnly  PROVE AppendAll'
  BY <1>1 DEF AppendAll, AppendInv
<1>2. CASE Vm
  <2>1. UNCHANGED <<answer, target>>  BY <1>2 DEF Vm, Allocate, FillHeader, Discard, askVars
  <2>2. QED  BY <1>0, <1>2, <2>1, AppendVm DEF AppendAll
<1>3. CASE Capture
  <2>1. /\ UNCHANGED <<zone, free, ranges, resolved, bounds, cursor, blocked, walk, end, stale>>
        /\ at = "idle" /\ at' = "ask" /\ answer' = None /\ moved' = FALSE
    BY <1>3 DEF Capture, vmVars, cacheVars
  <2>2. /\ \A b \in zone' : b.header = "full"
        /\ \A pc \in Addr : Base <= pc /\ pc < free' => \E b \in zone' : b.start <= pc /\ pc < b.end
        /\ \A a : Border(a)' = Border(a)
    BY <1>0, <2>1, AppendZone
  <2>3. AppendInv'  BY <1>0, <2>1, <2>2 DEF AppendInv, Walking
  <2>4. QED  BY <2>1, <2>3 DEF AppendAll
<1>4. CASE Resolve
  <2>1. CASE AnswerKnown \/ LookAgain
    <3>1. UNCHANGED target  BY <2>1 DEF AnswerKnown, LookAgain
    <3>2. QED  BY <1>0, <2>1, <3>1, AppendKnown DEF AppendAll
  <2>2. CASE SkipRefresh \/ RefreshSame \/ RefreshGrown \/ RefreshAnew
    <3>1. UNCHANGED <<answer, target>>
      BY <2>2 DEF SkipRefresh, RefreshSame, RefreshGrown, RefreshAnew
    <3>2. QED  BY <1>0, <2>2, <3>1, AppendRefresh DEF AppendAll
  <2>3. CASE WalkSize \/ WalkName \/ WalkDone
    <3>1. UNCHANGED <<answer, target>>
      BY <2>3 DEF WalkSize, WalkName, WalkDone
    <3>2. QED  BY <1>0, <2>3, <3>1, AppendWalk DEF AppendAll
  <2>4. CASE Fallback \/ ScanName
    BY <1>0, <2>4, AppendFallback DEF AppendAll
  <2>5. QED  BY <1>4, <2>1, <2>2, <2>3, <2>4 DEF Resolve
<1>5. CASE UNCHANGED vars
  <2>1. UNCHANGED <<zone, free, ranges, resolved, bounds, cursor, blocked, at, target, walk, end,
                    answer, moved, stale>>
    BY <1>5 DEF vars, vmVars, cacheVars, askVars
  <2>2. /\ \A b \in zone' : b.header = "full"
        /\ \A pc \in Addr : Base <= pc /\ pc < free' => \E b \in zone' : b.start <= pc /\ pc < b.end
        /\ \A a : Border(a)' = Border(a)
    BY <1>0, <2>1, AppendZone
  <2>3. AppendInv'  BY <1>0, <2>1, <2>2 DEF AppendInv
  <2>4. QED  BY <2>1, <2>3 DEF AppendAll
<1>6. QED  BY <1>2, <1>3, <1>4, <1>5 DEF Next

LEMMA AppendAlways == Spec => []AppendAll
<1>1. ResolverInv /\ AppendAll /\ [Next]_vars => AppendAll'
  BY AppendNext
<1>2. QED  BY <1>1, AppendInit, ResolverAlways, PTL DEF Spec

-----------------------------------------------------------------------------
(***************************************************************************)
(* The theorems.                                                           *)
(***************************************************************************)

\* Every reachable state of the resolver is well typed; until a compaction, and
\* again once it has been noticed, the ranges and the remembered names are those
\* of the VM's zone; with a VM that only appends, no walk gets stuck.
THEOREM KnowledgeMirrorsZone == Spec => []ResolverOK
<1>1. ResolverInv /\ AppendAll => ResolverOK
  BY DEF ResolverInv, AppendAll, ResolverOK
<1> QED
  BY <1>1, ResolverAlways, AppendAlways, PTL

\* refresh_method_zone leaves no gap below the scan cursor.
THEOREM WalksAreComplete == Spec => []WalkComplete
<1>1. ResolverInv => WalkComplete
  BY DEF ResolverInv, JitInv, WalkInv, ReadUpTo, WalkComplete
<1> QED
  BY <1>1, ResolverAlways, PTL

\* resolve_jit_pc gives no pc the name of another method, unless the zone was
\* compacted since the ranges were cleared or the pc was captured.
THEOREM NoMisattribution == Spec => []NeverAnotherMethod
<1>1. ResolverInv => NeverAnotherMethod
  BY DEF ResolverInv
<1> QED
  BY <1>1, ResolverAlways, PTL

\* A VM that appends whole methods to its zone and moves none has every pc of a
\* method named, for any methods and any order of compiling and sampling.
THEOREM EveryMethodNamed == Spec => []AlwaysNamed
<1>1. ResolverInv /\ AppendAll => AlwaysNamed
  <2> SUFFICES ASSUME ResolverInv, AppendAll, AppendOnly, answer # None, target.truth # Tramp
               PROVE  answer = target.truth
    BY DEF AlwaysNamed, AppendOnly
  <2>1. answer \in Methods /\ ~ stale /\ ~ moved  BY DEF AppendAll, AppendInv
  <2>2. QED  BY <2>1 DEF ResolverInv, NeverAnotherMethod
<1> QED
  BY <1>1, ResolverAlways, AppendAlways, PTL
=============================================================================
