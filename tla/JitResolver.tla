----------------------------- MODULE JitResolver -----------------------------
(***************************************************************************)
(* resolve_jit_pc and the bookkeeping under it                             *)
(* (src/src/smalltalk_symbolizer.rs): naming a program counter in the VM's *)
(* method zone while the VM goes on running.                               *)
(*                                                                         *)
(* The zone is a run of blocks from Base to the VM's mzFreeStart, each a   *)
(* header followed by code.  The VM appends methods and compacts the zone, *)
(* which moves code.  The profiler keeps the ranges of the blocks it has   *)
(* read, the names it has given to pcs, and how far it has read; a new     *)
(* name is looked for only as far as those do not answer.  It reads the    *)
(* zone one block at a time and the VM runs between two reads.             *)
(*                                                                         *)
(* Addresses count the granules of 8 bytes the profiler moves in; a header *)
(* is one of them here.  The size and the name of a block are read in two  *)
(* steps; a call made while the VM is suspended is a run of steps with     *)
(* none of the VM's among them.  The VM is the assumed part: a compaction  *)
(* is one step, and what it leaves above the free start is overwritten, as *)
(* Cog does.  Not modelled: a word of code that happens to decode as a     *)
(* header, a base that moves, and how a selector and a class become a name *)
(* (ObjectMemory).                                                         *)
(*                                                                         *)
(* An operator whose comment says "Fault" is a changed form of the         *)
(* operator after it.                                                      *)
(***************************************************************************)
EXTENDS Integers

CONSTANTS
  Methods,      \* methods the VM may compile
  LenOf,        \* the length of each method's block, header included
  Base,         \* start of the method zone; trampolines lie below it
  Limit,        \* end of the memory of the zone
  EntrySpan,    \* how far the last trampoline is taken to reach (MAX_JIT_ENTRY_SPAN)
  Kinds         \* what the VM may be like: whether it compacts the zone, and
                \* whether a new method's header appears with its block

ASSUME ZoneAssumption == /\ Base \in Nat \ {0} /\ Limit \in Nat /\ EntrySpan \in Nat
                         /\ Base <= Limit
                         /\ LenOf \in [Methods -> Nat \ {0, 1}]
ASSUME VmAssumption == Kinds \subseteq [compacts : BOOLEAN, atomic : BOOLEAN]

None    == "none"        \* Option::None
Generic == "JIT frame"
Tramp   == "Cog"         \* the name of the last trampoline
ASSUME NameAssumption == Methods \cap {None, Generic, Tramp} = {}

Addr == 0 .. Limit
Names == Methods \cup {Generic, Tramp}

VARIABLES
  kind,     \* the kind of VM, which never changes
  zone,     \* the blocks of the zone
  free,     \* the VM's mzFreeStart
  ranges,   \* method_ranges
  resolved, \* resolved_pcs, None where there is no entry
  bounds,   \* method_zone_bounds: the mzFreeStart seen, -1 for Option::None
  cursor,   \* method_zone_scan_cursor, -1 for Option::None
  blocked,  \* method_zone_blocked_cursor, -1 for Option::None
  entries,  \* jit_entry_symbols were read
  at,       \* what resolve_jit_pc is doing
  target,   \* the pc it was asked about, and what ran there
  walk,     \* the address the walk over the zone has come to
  end,      \* the mzFreeStart this walk goes up to
  seen,     \* the header whose size was read, and where its block ends by that
  answer,   \* the name it returned last
  moved,    \* the zone was compacted since target was captured
  stale     \* the zone was compacted since method_ranges was cleared

vmVars    == <<kind, zone, free>>
cacheVars == <<ranges, resolved, bounds, cursor, blocked, entries>>
askVars   == <<at, target, walk, end, seen, answer>>
vars == <<vmVars, cacheVars, askVars, moved, stale>>

\* Of a block's header the profiler can read nothing, its size, or all.
Headers == {"none", "sized", "full"}
Block(s, m, h) == [start |-> s, end |-> s + LenOf[m], name |-> m, header |-> h]

\* No header is being read.
NotSeen == [start |-> 0, end |-> 0]

\* The first half of read_cog_method_at: the size of a block.
SeeSize(b) == seen' = [start |-> b.start, end |-> b.end]

\* What the second half makes of it: a header whose selector cannot be read is
\* a frame without a name.
NamesAt(a) == {b.name : b \in {c \in zone : c.start = a /\ c.header = "full"}}
RangesRead ==
  {[start |-> seen.start, end |-> seen.end, name |-> n] :
     n \in IF NamesAt(seen.start) = {} THEN {Generic} ELSE NamesAt(seen.start)}

-----------------------------------------------------------------------------
(***************************************************************************)
(* The VM.                                                                 *)
(***************************************************************************)

\* A method is compiled: the zone grows over it; its header may be written
\* only afterwards, the size first.
Allocate(m) ==
  /\ \A b \in zone : b.name # m /\ b.header = "full"
  /\ free + LenOf[m] <= Limit
  /\ zone' = zone \cup {Block(free, m, IF kind.atomic THEN "full" ELSE "none")}
  /\ free' = free + LenOf[m]
  /\ UNCHANGED <<kind, cacheVars, askVars, moved, stale>>

FillHeader(b) ==
  /\ b \in zone /\ b.header # "full"
  /\ zone' = (zone \ {b}) \cup
                {[b EXCEPT !.header = IF @ = "none" THEN "sized" ELSE "full"]}
  /\ UNCHANGED <<kind, free, cacheVars, askVars, moved, stale>>

\* Compaction discards a method and slides the later ones down.  A compaction
\* that discards several is several of these steps.
Discard(b) ==
  /\ kind.compacts
  /\ b \in zone
  /\ \A c \in zone : c.header = "full"
  /\ LET gap == b.end - b.start
         Slide(c) == IF c.start > b.start
                       THEN [c EXCEPT !.start = @ - gap, !.end = @ - gap] ELSE c
     IN /\ zone' = {Slide(c) : c \in zone \ {b}}
        /\ free' = free - gap
  /\ moved' = TRUE
  /\ stale' = TRUE
  /\ UNCHANGED <<kind, cacheVars, askVars>>

-----------------------------------------------------------------------------
(***************************************************************************)
(* The profiler.                                                           *)
(***************************************************************************)

\* Fault: the end of the range is not looked at.
CoveringOpen(pc) == {r \in ranges : /\ r.start <= pc
                                    /\ \A s \in ranges : s.start <= pc => s.start <= r.start}

\* lookup_method_range: the range with the last start up to the pc, if the
\* pc is before its end.
Covering(pc) == {r \in ranges : /\ r.start <= pc
                                /\ \A s \in ranges : s.start <= pc => s.start <= r.start
                                /\ pc < r.end}
LookupRange(pc) == IF Covering(pc) = {} THEN None ELSE (CHOOSE r \in Covering(pc) : TRUE).name

\* insert_method_range: the list is sorted by start, one range for each.
InsertRange(r) == {s \in ranges : s.start # r.start} \cup {r}

\* read_cog_method_at: the blocks with a readable header at an address.
Readable(a) == {b \in zone : b.start = a /\ b.header # "none"}

\* scan_for_cog_method: going down from the pc, the first header whose code
\* reaches over it.
Scanned(pc) == {b \in zone : b.header # "none" /\ b.start < pc /\ pc < b.end}

\* A sample stops the VM in a method, or in the last trampoline.
Capture ==
  /\ at = "idle"
  /\ \/ \E b \in zone : \E pc \in b.start + 1 .. b.end - 1 :
          b.header = "full" /\ target' = [pc |-> pc, truth |-> b.name]
     \/ target' = [pc |-> 0, truth |-> Tramp]
  /\ at' = "ask"
  /\ answer' = None
  /\ moved' = FALSE
  /\ UNCHANGED <<vmVars, cacheVars, walk, end, seen, stale>>

\* resolve_jit_pc returns a name, and remembers it.
Return(name) ==
  /\ answer' = name
  /\ at' = "idle"
  /\ resolved' = [resolved EXCEPT ![target.pc] = name]

\* The pc was named before, or lies in a range that was read before.
AnswerKnown ==
  /\ at = "ask"
  /\ \/ resolved[target.pc] # None /\ Return(resolved[target.pc])
     \/ /\ resolved[target.pc] = None
        /\ LookupRange(target.pc) # None
        /\ Return(LookupRange(target.pc))
  /\ UNCHANGED <<vmVars, ranges, bounds, cursor, blocked, entries, target, walk, end, seen, moved,
                 stale>>

Unknown == at = "ask" /\ resolved[target.pc] = None /\ LookupRange(target.pc) = None

ScanCursor == IF cursor = -1 THEN Base ELSE cursor

\* Fault: a pc beyond the bounds is taken to lie outside the zone.
RefreshIfUnread == bounds = -1 \/ (target.pc >= ScanCursor /\ ScanCursor < bounds)

\* A known zone is read again only for a pc beyond what was read of it.
ShouldRefresh ==
  \/ bounds = -1
  \/ target.pc >= bounds
  \/ (target.pc >= ScanCursor /\ ScanCursor < bounds)

\* The zone's bounds make no sense yet.
BoundsUnreadable == free <= Base

SkipRefresh ==
  /\ Unknown
  /\ ~ ShouldRefresh \/ BoundsUnreadable
  /\ at' = "fallback"
  /\ UNCHANGED <<vmVars, cacheVars, target, walk, end, seen, answer, moved, stale>>

\* refresh_method_zone starts to walk at an address.
StartWalk(a) ==
  IF a >= free
    THEN at' = "fallback" /\ UNCHANGED <<walk, end, bounds, entries>>
    ELSE /\ at' = "walk"
         /\ walk' = a
         /\ end' = free
         /\ bounds' = free
         /\ entries' = TRUE

RefreshNow == Unknown /\ ShouldRefresh /\ ~ BoundsUnreadable

\* The bounds are those seen before: go on where the last walk ended, unless
\* it got stuck there.
RefreshSame ==
  /\ RefreshNow
  /\ bounds = free
  /\ IF ScanCursor >= free \/ blocked = ScanCursor
       THEN at' = "fallback" /\ UNCHANGED <<walk, end, bounds, entries>>
       ELSE StartWalk(ScanCursor)
  /\ UNCHANGED <<vmVars, ranges, resolved, cursor, blocked, target, seen, answer, moved, stale>>

\* Fault: the walk goes on at the old bounds, not where the last one stopped.
RefreshFromBounds ==
  /\ RefreshNow
  /\ bounds # -1 /\ bounds < free
  /\ StartWalk(bounds)
  /\ UNCHANGED <<vmVars, ranges, resolved, cursor, blocked, target, seen, answer, moved, stale>>

\* The zone has grown: what was read is kept, and only the rest is read.
RefreshGrown ==
  /\ RefreshNow
  /\ bounds # -1 /\ bounds < free
  /\ LET from == IF cursor = -1 THEN bounds ELSE cursor
     IN IF blocked = from
          THEN /\ at' = "fallback"
               /\ bounds' = free
               /\ entries' = TRUE
               /\ UNCHANGED <<walk, end>>
          ELSE StartWalk(from)
  /\ UNCHANGED <<vmVars, ranges, resolved, cursor, blocked, target, seen, answer, moved, stale>>

\* It is seen for the first time or has shrunk: everything is read anew.
RefreshAnew ==
  /\ RefreshNow
  /\ bounds = -1 \/ bounds > free
  /\ ranges' = {}
  /\ resolved' = [pc \in Addr |-> None]
  /\ blocked' = -1
  /\ stale' = FALSE
  /\ StartWalk(Base)
  /\ UNCHANGED <<vmVars, cursor, target, seen, answer, moved>>

\* The walk is over: what it went by is forgotten.
EndWalk == at' = "look" /\ cursor' = walk /\ walk' = Base /\ end' = Base /\ seen' = NotSeen

\* Fault: the walk waits for a header it cannot read.
WalkSizeWait ==
  /\ at = "walk"
  /\ walk < end
  /\ \E b \in Readable(walk) : SeeSize(b)
  /\ at' = "sized"
  /\ UNCHANGED <<vmVars, cacheVars, target, walk, end, answer, moved, stale>>

\* One turn of the walk: the header at the address is read, or stops it.
WalkSize ==
  /\ at = "walk"
  /\ walk < end
  /\ \/ /\ \E b \in Readable(walk) : SeeSize(b)
        /\ at' = "sized"
        /\ UNCHANGED <<cursor, blocked, walk, end>>
     \/ /\ Readable(walk) = {}
        /\ blocked' = walk
        /\ EndWalk
  /\ UNCHANGED <<vmVars, ranges, resolved, bounds, entries, target, answer, moved, stale>>

\* It makes a range, unless its block is beyond the end.
WalkName ==
  /\ at = "sized"
  /\ IF seen.end <= end + 1
     THEN /\ \E r \in RangesRead : ranges' = InsertRange(r)
          /\ at' = "walk" /\ walk' = seen.end
          /\ blocked' = -1 /\ seen' = NotSeen
          /\ UNCHANGED <<cursor, end>>
     ELSE blocked' = walk /\ EndWalk /\ UNCHANGED ranges
  /\ UNCHANGED <<vmVars, resolved, bounds, entries, target, answer, moved, stale>>

WalkDone ==
  /\ at = "walk"
  /\ walk >= end
  /\ EndWalk
  /\ UNCHANGED <<vmVars, ranges, resolved, bounds, blocked, entries, target, answer, moved, stale>>

\* The ranges just read may answer.
LookAgain ==
  /\ at = "look"
  /\ IF LookupRange(target.pc) # None
       THEN Return(LookupRange(target.pc))
       ELSE at' = "fallback" /\ UNCHANGED <<answer, resolved>>
  /\ UNCHANGED <<vmVars, ranges, bounds, cursor, blocked, entries, target, walk, end, seen, moved,
                 stale>>

\* No range: a trampoline that is near enough, else a header found by scanning
\* back from the pc, else a generic name.
Fallback ==
  /\ at = "fallback"
  /\ LET pc      == target.pc
         isEntry == entries /\ pc < EntrySpan
         inZone  == bounds = -1 \/ (Base <= pc /\ pc < bounds)
     IN \/ isEntry /\ Return(Tramp) /\ UNCHANGED seen
        \/ /\ ~ isEntry /\ inZone
           /\ \E b \in Scanned(pc) : SeeSize(b)
           /\ at' = "scanned" /\ UNCHANGED <<answer, resolved>>
        \/ ~ isEntry /\ (~ inZone \/ Scanned(pc) = {}) /\ Return(Generic) /\ UNCHANGED seen
  /\ UNCHANGED <<vmVars, ranges, bounds, cursor, blocked, entries, target, walk, end, moved, stale>>

\* ... which then gets its name.
ScanName ==
  /\ at = "scanned"
  /\ \E r \in RangesRead : Return(r.name) /\ ranges' = InsertRange(r)
  /\ seen' = NotSeen
  /\ UNCHANGED <<vmVars, bounds, cursor, blocked, entries, target, walk, end, moved, stale>>

-----------------------------------------------------------------------------
Init ==
  /\ kind \in Kinds /\ zone = {} /\ free = Base
  /\ ranges = {} /\ resolved = [pc \in Addr |-> None]
  /\ bounds = -1 /\ cursor = -1 /\ blocked = -1 /\ entries = FALSE
  /\ at = "idle" /\ target = [pc |-> 0, truth |-> Tramp]
  /\ walk = Base /\ end = Base /\ seen = NotSeen /\ answer = None
  /\ moved = FALSE /\ stale = FALSE

Vm == \/ \E m \in Methods : Allocate(m)
      \/ \E b \in zone : FillHeader(b) \/ Discard(b)

Resolve == \/ AnswerKnown \/ SkipRefresh
           \/ RefreshSame \/ RefreshGrown \/ RefreshAnew
           \/ WalkSize \/ WalkName \/ WalkDone \/ LookAgain \/ Fallback \/ ScanName

Next == Vm \/ Capture \/ Resolve

Spec == Init /\ [][Next]_vars

\* The profiler does not stop in the middle; the VM may do as it likes.
FairSpec == Spec /\ WF_vars(Resolve)

-----------------------------------------------------------------------------
(***************************************************************************)
(* Properties.                                                             *)
(***************************************************************************)

Blocks == [start : Nat, end : Nat, name : Methods, header : Headers]
Ranges == [start : Nat, end : Nat, name : Methods \cup {Generic}]

TypeOK ==
  /\ kind \in Kinds /\ zone \subseteq Blocks /\ free \in Nat
  /\ ranges \subseteq Ranges
  /\ resolved \in [Addr -> Names \cup {None}]
  /\ bounds \in Nat \cup {-1} /\ cursor \in Nat \cup {-1} /\ blocked \in Nat \cup {-1}
  /\ entries \in BOOLEAN
  /\ at \in {"idle", "ask", "walk", "sized", "look", "fallback", "scanned"}
  /\ target \in [pc : Addr, truth : Methods \cup {Tramp}]
  /\ walk \in Nat /\ end \in Nat /\ seen \in [start : Nat, end : Nat]
  /\ answer \in Names \cup {None}
  /\ moved \in BOOLEAN /\ stale \in BOOLEAN

\* The blocks of the zone lie side by side between its base and its free
\* start.
ZoneOK ==
  /\ Base <= free /\ free <= Limit
  /\ \A b \in zone : Base <= b.start /\ b.start < b.end /\ b.end <= free
  /\ \A b, c \in zone : b = c \/ b.end <= c.start \/ c.end <= b.start

\* The block the sample was taken in is where it was.
TargetThere ==
  at # "idle" =>
    /\ answer = None
    /\ ~ moved => \/ target.truth = Tramp /\ target.pc = 0
                  \/ \E b \in zone : /\ b.header = "full" /\ b.name = target.truth
                                     /\ b.start < target.pc /\ target.pc < b.end

\* A range is that of a block, and has its name or none.
Mirrors(r, b) ==
  /\ b.header # "none"
  /\ r.start = b.start /\ r.end = b.end
  /\ r.name = Generic \/ (b.header = "full" /\ r.name = b.name)

\* Unless the zone was compacted since the ranges were cleared, every range
\* is that of a block of the zone.
RangesMirrorZone == ~ stale => \A r \in ranges : \E b \in zone : Mirrors(r, b)

\* ... and every remembered method name is that of the block around the pc.
CacheMirrorsZone ==
  ~ stale => \A pc \in Addr : resolved[pc] \in Methods =>
    \E b \in zone : /\ b.header = "full" /\ b.name = resolved[pc]
                    /\ b.start <= pc /\ pc < b.end

\* Everything below an address has been read.
ReadUpTo(a) ==
  a <= free /\ \A b \in zone : b.end <= a => \E r \in ranges : Mirrors(r, b)

\* ... namely what lies below the walk, or below the cursor when none is on.
Walking == {"walk", "sized"}
WalkInv ==
  ~ stale => /\ at \in Walking => ReadUpTo(walk)
             /\ at \notin Walking /\ cursor # -1 => ReadUpTo(cursor)
             /\ at \notin Walking /\ cursor = -1 => bounds = -1

\* The header whose size was read is still there when its name is read.
SeenThere ==
  ~ stale /\ at \in {"sized", "scanned"} =>
    \E b \in zone : /\ b.header # "none" /\ b.start = seen.start /\ b.end = seen.end
                    /\ IF at = "sized" THEN b.start = walk
                       ELSE b.start < target.pc /\ target.pc < b.end

\* The VM only appends methods to the zone, and each whole.
AppendOnly == ~ kind.compacts /\ kind.atomic

\* No block lies across an address.
Border(a) ==
  a \in Base .. free /\ \A b \in zone : b.end <= a \/ a <= b.start

\* Then there is a block at every address below the free start, a walk goes
\* from block to block and gets stuck nowhere, and up to where the target
\* lies; nothing in the zone is left to the fallback.
AppendInv ==
  AppendOnly =>
    /\ ~ stale /\ ~ moved /\ blocked = -1
    /\ \A b \in zone : b.header = "full"
    /\ \A pc \in Addr : Base <= pc /\ pc < free => \E b \in zone : b.start <= pc /\ pc < b.end
    /\ bounds # -1 => Border(bounds)
    /\ at \in Walking => Border(walk) /\ walk <= end /\ end = bounds
    /\ at = "sized" => walk < end
    /\ at \notin Walking => cursor = bounds
    /\ at = "look" => bounds # -1
    /\ at \in Walking \cup {"look"} => target.pc < bounds
    /\ at = "fallback" => target.truth = Tramp
    /\ at # "scanned"
    /\ \A r \in ranges : r.name # Generic
    /\ \A pc \in Addr \ {0} : resolved[pc] \in Methods \cup {None}

\* What the profiler remembers of the zone is true of it until the VM
\* compacts it, and becomes true again when the compaction is noticed.
JitInv == ZoneOK /\ TargetThere /\ RangesMirrorZone /\ CacheMirrorsZone /\ WalkInv /\ SeenThere
ResolverOK == TypeOK /\ JitInv /\ AppendInv

\* A walk leaves no gap: what lies below the scan cursor has its range, also
\* when the walk had stopped at a block that could not be read and went on
\* in a zone that had grown.
WalkComplete ==
  ~ stale /\ cursor # -1 /\ at \notin Walking =>
    \A b \in zone : b.end <= cursor => \E r \in ranges : Mirrors(r, b)

\* A pc is never given the name of another method, unless the zone was
\* compacted since the ranges were cleared or the pc was captured.
NeverAnotherMethod ==
  ~ stale /\ ~ moved /\ answer \in Methods => answer = target.truth

\* "Resume the VM: everything below reads only frozen/disk data.": what the VM
\* does after the stacks were copied does not change the names their pcs get.
NamedAsFrozen == ~ stale /\ answer \in Methods => answer = target.truth

\* When methods appear whole and are never moved, every pc of a method gets
\* its name, and is not taken for a trampoline or an anonymous frame.
AlwaysNamed ==
  ~ kind.compacts /\ kind.atomic /\ answer # None /\ target.truth # Tramp => answer = target.truth

\* Every question is answered, however the VM changes the zone meanwhile.
Answers == at # "idle" ~> at = "idle"
=============================================================================
