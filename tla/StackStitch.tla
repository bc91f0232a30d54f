---------------------------- MODULE StackStitch ----------------------------
(***************************************************************************)
(* What SmalltalkSpy::get_stack_traces (src/src/smalltalk_spy.rs) does to  *)
(* the frames of one thread once they have names: when the native stack    *)
(* shows that the VM called out of Smalltalk, the frames beyond that       *)
(* boundary are replaced by the VM's own chain of Cog frames, and at last  *)
(* the native frames at the root are trimmed.                              *)
(*                                                                         *)
(* Frames are listed innermost first, as in the code, and a frame is its   *)
(* name; which kind it is, the code tells by the name and the file.        *)
(*                                                                         *)
(* An operator whose comment says "Fault" is a changed form of the         *)
(* definition after it; no specification uses it.                          *)
(***************************************************************************)
EXTENDS Naturals, SequencesExt

CONSTANTS
  Methods,    \* Smalltalk methods, Class>>selector
  CogEntries, \* "Cog ce..." and "Cog methodAbort..."
  Generics,   \* other "Cog ..." and "JIT ..." frames
  VmEntries,  \* VM primitives, interpret, ceSend..., ceReturn...
  Natives,    \* all other C frames
  Root,       \* "Cog ceBaseFrameReturn"
  Deep,       \* methods on a native stack that is complete (more than 3)
  MaxNative,  \* bound: frames on the native stack
  MaxChain    \* bound: frames in the Cog chain

Smalltalk == Methods \cup CogEntries \cup Generics  \* filename == "Smalltalk"
Frames    == Smalltalk \cup VmEntries \cup Natives

ASSUME StitchAssumption ==
  /\ Root \in CogEntries
  /\ Methods \cap (CogEntries \cup Generics) = {} /\ CogEntries \cap Generics = {}
  /\ Smalltalk \cap (VmEntries \cup Natives) = {} /\ VmEntries \cap Natives = {}
  /\ Deep \in Nat /\ MaxNative \in Nat /\ MaxChain \in Nat

VARIABLES
  native, \* the frames as they came from the unwinder, named
  chain,  \* cog_frames_snapshot
  hide,   \* config.hide_native_roots
  frames, \* the frames of the trace
  at      \* the pass that comes next

vars == <<native, chain, hide, frames, at>>

-----------------------------------------------------------------------------
\* The frames of s that are in S, in their order: SelectSeq, but by a function
\* that proofs can unfold.
Only(s, S) ==
  LET only[n \in 0 .. Len(s)] ==
        IF n = 0 THEN <<>>
        ELSE IF s[n] \in S THEN Append(only[n - 1], s[n]) ELSE only[n - 1]
  IN  only[Len(s)]

IsMethod(f) == f \in Methods

\* Fault: primitives are taken for C code.
IsCogEntry(f) == f \in CogEntries

IsBoundary(f) == f \in CogEntries \cup VmEntries

\* The native unwinder already caught a good Smalltalk stack.
HasDeepSmalltalk(s) == Len(Only(s, Methods)) > Deep

\* Fault: the first boundary, not the deepest.
BoundaryFirst(s) == IF HasDeepSmalltalk(s) THEN 0 ELSE SelectInSeq(s, IsBoundary)

\* The number of frames up to the deepest boundary, 0 if there is none.
Boundary(s) == IF HasDeepSmalltalk(s) THEN 0 ELSE SelectLastInSeq(s, IsBoundary)

ExistingNames(s) == ToSet(s) \cap Methods

\* Fault: the chain is taken as it is.
NotDeduped(s, c) == c

\* The chain without the methods the native stack shows.
Deduped(s, c) == Only(c, ToSet(c) \ ExistingNames(s))

\* Fault: the chain is put in, nothing is cut off.
SplicedIn(s, c) ==
  LET b == Boundary(s)
  IN  IF b = 0 \/ c = <<>> THEN s
      ELSE SubSeq(s, 1, b) \o Deduped(s, c) \o SubSeq(s, b + 1, Len(s)) \o <<Root>>

Spliced(s, c) ==
  LET b == Boundary(s)
  IN  IF b = 0 \/ c = <<>> THEN s ELSE SubSeq(s, 1, b) \o Deduped(s, c) \o <<Root>>

\* Fault: the last method goes too.
TrimmedShort(s) ==
  LET last == SelectLastInSeq(s, IsMethod)
  IN  IF last = 0 THEN s ELSE SubSeq(s, 1, last - 1)

\* trim_native_roots
Trimmed(s) ==
  LET last == SelectLastInSeq(s, IsMethod)
  IN  IF last = 0 THEN s ELSE SubSeq(s, 1, last)

-----------------------------------------------------------------------------
Init ==
  /\ native \in BoundedSeq(Frames, MaxNative)
  /\ chain \in BoundedSeq(Methods \cup Generics, MaxChain)
  /\ hide \in BOOLEAN
  /\ frames = native
  /\ at = "splice"

Splice ==
  /\ at = "splice"
  /\ frames' = Spliced(frames, chain)
  /\ at' = "trim"
  /\ UNCHANGED <<native, chain, hide>>

Trim ==
  /\ at = "trim"
  /\ frames' = IF hide THEN Trimmed(frames) ELSE frames
  /\ at' = "done"
  /\ UNCHANGED <<native, chain, hide>>

Next == Splice \/ Trim

Spec == Init /\ [][Next]_vars

-----------------------------------------------------------------------------
(***************************************************************************)
(* Properties.                                                             *)
(***************************************************************************)
Times(f, s) == Len(Only(s, {f}))

\* Where f comes next in s after position i; past the end if nowhere.
NextIn(s, i, f) ==
  LET places == {j \in i + 1 .. Len(s) : s[j] = f}
  IN  IF places = {} THEN Len(s) + 1 ELSE CHOOSE j \in places : \A k \in places : j <= k

\* s is t with some of its frames left out.
PartOf(s, t) ==
  LET place[i \in 0 .. Len(s)] == IF i = 0 THEN 0 ELSE NextIn(t, place[i - 1], s[i])
  IN  place[Len(s)] <= Len(t)

Cut == frames # native

\* A trace has its callers in the order of the native stack and of the chain,
\* the native part first, and nothing else but the root.
InOrder == PartOf(frames, native \o chain \o <<Root>>)

\* Stitching makes no method called more often than the stack or the chain
\* shows it.
NoMethodTwice ==
  \A f \in Methods : Times(f, frames) <= Times(f, native) \/ Times(f, frames) <= Times(f, chain)

\* When a chain is put in, no method of it is missing, but those the native
\* stack shows only beyond every boundary.
Beyond(f) == /\ f \in ToSet(native)
             /\ \A i \in 1 .. Len(native) : native[i] = f =>
                  \A j \in i + 1 .. Len(native) : ~ IsBoundary(native[j])
NothingElseLost ==
  Cut /\ at = "trim" => \A f \in ToSet(chain) : f \in ToSet(frames) \/ Beyond(f)

\* Trimming takes away no method, and leaves one at the root unless there is
\* none.
RootedInSmalltalk ==
  [][at = "trim" =>
       /\ Only(frames', Methods) = Only(frames, Methods)
       /\ hide => IF Only(frames, Methods) = <<>> THEN frames' = frames
                  ELSE Last(frames') \in Methods]_vars

\* "Skip Cog frames that the native unwinder already caught (they appear
\* before the splice point)."
SkippedAppear == Cut /\ at = "trim" => ToSet(chain) \subseteq ToSet(frames)
=============================================================================
