------------------------------ MODULE CogFrames ------------------------------
(***************************************************************************)
(* walk_cog_frames (src/src/smalltalk_symbolizer.rs): following the VM's   *)
(* frame pointers from the innermost frame outwards, through memory that   *)
(* may end, or come back to itself, anywhere.  The VM is suspended.        *)
(*                                                                         *)
(* A frame has two words: the caller's frame pointer, and what runs in it, *)
(* a method of the JIT's zone or the context of an interpreted one.        *)
(*                                                                         *)
(* An operator whose comment says "Fault" is a changed form of the         *)
(* definition after it; no specification uses it.                          *)
(***************************************************************************)
EXTENDS ObjectMemory

CONSTANTS
  MemoryIds,  \* names of the memories the VM may have
  Memory(_),  \* such a memory: frames, methods of the JIT's zone, heap, and first,
              \* the VM's framePointer
  FrameLimit, \* COG_FRAME_WALK_LIMIT
  Null,       \* the word 0
  Lost        \* a word that cannot be read

ASSUME FrameAssumption == FrameLimit \in Nat /\ Null # Lost /\ None # Lost

VARIABLES
  memory,  \* which of the memories it is
  fp,      \* current_fp
  visited, \* the frames walked over; as many as iterations
  walked,  \* frames
  origin,  \* for each of these, the place in visited of the frame it names
  walking  \* the loop goes on

walkVars == <<memory, fp, visited, walked, origin, walking>>

Mem == Memory(memory)

\* The word at FP[-8] or FP[0]; memory that is not mapped cannot be read.
MethodAt(p) == IF p \in DOMAIN Mem.frames THEN Mem.frames[p].method ELSE Lost
CallerAt(p) == IF p \in DOMAIN Mem.frames THEN Mem.frames[p].caller ELSE Lost

\* resolve_frame_method; resolve_jit_pc is taken to find what is at the address.
FrameName(mem, word) ==
  IF word = Null THEN None
  ELSE IF word \in DOMAIN mem.zone THEN CogMethodName(mem.heap, mem.zone[word])
  ELSE ContextName(mem.heap, word)

\* For the words there are in the frames of each memory; the memory does not
\* change during a walk.
FrameNames ==
  [id \in MemoryIds |->
    LET mem == Memory(id)
    IN  [word \in {mem.frames[p].method : p \in DOMAIN mem.frames} |-> FrameName(mem, word)]]

NameOfFrame(word) == FrameNames[memory][word]

\* The frame is named, if it can be, and the walk goes on from its caller, if
\* that can be read and is another frame.
Push(word) ==
  /\ visited' = Append(visited, fp)
  /\ IF NameOfFrame(word) # None
     THEN walked' = Append(walked, NameOfFrame(word)) /\ origin' = Append(origin, Len(visited'))
     ELSE UNCHANGED <<walked, origin>>
  /\ walking' = (CallerAt(fp) \notin {Lost, Null, fp})

\* Fault: the frames are not counted.
GoesOnForever == walking

GoesOn == walking /\ Len(visited) < FrameLimit

\* One turn of the loop.
WalkFrame ==
  /\ GoesOn
  /\ IF MethodAt(fp) = Lost
     THEN walking' = FALSE /\ UNCHANGED <<fp, visited, walked, origin>>
     ELSE /\ Push(MethodAt(fp))
          /\ fp' = IF walking' THEN CallerAt(fp) ELSE fp
  /\ UNCHANGED memory

\* framePointer and heapBase were read, or there is nothing to walk.
WalkInit ==
  /\ fp = Mem.first
  /\ walking = (Mem.first \notin {Null, Lost})
  /\ visited = <<>> /\ walked = <<>> /\ origin = <<>>

-----------------------------------------------------------------------------
(***************************************************************************)
(* Properties.                                                             *)
(***************************************************************************)

\* What was walked over is a stretch of the chain of callers that begins at
\* the VM's frame pointer.
OnChain ==
  /\ Len(visited) <= FrameLimit
  /\ visited # <<>> => visited[1] = Mem.first
  /\ \A i \in 1 .. Len(visited) - 1 : CallerAt(visited[i]) = visited[i + 1]

\* The names are those of the frames walked over, in their order and one for
\* each; only a frame without a name is passed over.
NamesInOrder ==
  /\ Len(origin) = Len(walked)
  /\ \A i \in 1 .. Len(walked) :
       origin[i] \in 1 .. Len(visited) /\ walked[i] = NameOfFrame(MethodAt(visited[origin[i]]))
  /\ \A i, j \in 1 .. Len(origin) : i < j => origin[i] < origin[j]
  /\ \A k \in 1 .. Len(visited) : NameOfFrame(MethodAt(visited[k])) # None =>
       \E i \in 1 .. Len(origin) : origin[i] = k

\* A walk shows the VM's frames from the innermost outwards, each in its place,
\* and ends at FrameLimit however the memory is linked (walk_cog_frames).
WalkOK == OnChain /\ NamesInOrder
=============================================================================
