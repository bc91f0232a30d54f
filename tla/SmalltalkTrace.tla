--------------------------- MODULE SmalltalkTrace ---------------------------
(***************************************************************************)
(* The trace of one thread of a sample: CogFrames reads the VM's chain of  *)
(* frames out of its memory, and after the VM has been resumed StackStitch *)
(* joins it to the thread's native stack                                   *)
(* (get_stack_traces, src/src/smalltalk_spy.rs).                           *)
(***************************************************************************)
EXTENDS StackStitch, CogFrames

CONSTANTS
  NativeFrames, \* the frames native stacks are made of
  ManyNative,   \* memories that meet every native stack; the others, short ones
  TrueName(_, _), \* for a memory and the word of a frame of it, what the frame
                 \* really runs, or None: the class and the selector of a method,
                 \* and the codes, from the one that runs, which is the method
                 \* or a block in it, outwards to the method
  FewNative     \* bound: frames on the native stack with those

traceVars == <<vars, walkVars>>

NativeDepth == IF memory \in ManyNative THEN MaxNative ELSE FewNative

-----------------------------------------------------------------------------
(***************************************************************************)
(* How the VM lays out what it runs, which the symbolizer relies on.       *)
(***************************************************************************)
\* Objects refer to words.
IsHeap(h) ==
  /\ DOMAIN h \subseteq Words
  /\ \A o \in DOMAIN h : h[o].format \in {"method", "pointers"} => h[o].slots \in Seq(Words)

HasSlots(h, oop, n) == IsPointerObject(h, oop) /\ Len(h[oop].slots) >= n

IsCode(h, m) == IsCompiledMethod(h, m) /\ h[m].headed /\ Len(h[m].slots) >= 2

\* The last literal but one is the selector, or the method's state, which has it.
IsCalled(h, m, selector) ==
  LET last2 == Field(h, m, Len(h[m].slots) - 2)
  IN  \/ ReadByteObject(h, last2) = selector
      \/ HasSlots(h, last2, 2) /\ Field(h, last2, 0) = m /\ ReadByteObject(h, Field(h, last2, 1)) = selector

\* A metaclass ends with the class it is the class of.
IsMetaclass(h, oop, name) ==
  /\ IsPointerObject(h, oop) /\ Len(h[oop].slots) = 6
  /\ HasSlots(h, Field(h, oop, 5), 7) /\ ReadByteObject(h, Field(h, Field(h, oop, 5), 6)) = name

\* A class is bound to its name, a metaclass to none.
IsBinding(h, oop, class) ==
  /\ IsPointerObject(h, oop) /\ Len(h[oop].slots) = 2
  /\ IF class.metas = 0 THEN ReadByteObject(h, Field(h, oop, 0)) = class.class
     ELSE ClassText(h, Field(h, oop, 0)) = None /\ IsMetaclass(h, Field(h, oop, 1), class.class)

\* The last literal of a block is the code around it, that of a method its class.
AreCodes(h, true) ==
  /\ true.class \in [class : ClassTexts, metas : 0 .. 1] /\ true.selector \in SelectorTexts
  /\ true.codes \in Seq(Words) /\ true.codes # <<>>
  /\ \A i \in 1 .. Len(true.codes) :
       /\ IsCode(h, true.codes[i])
       /\ LET last == Field(h, true.codes[i], Len(h[true.codes[i]].slots) - 1)
          IN  IF i < Len(true.codes) THEN last = true.codes[i + 1]
              ELSE IsCalled(h, true.codes[i], true.selector) /\ IsBinding(h, last, true.class)

\* A frame's word is the compiled form of the code, or a context of it.
Runs(mem, word, true) ==
  IF word \in DOMAIN mem.zone
  THEN /\ mem.zone[word].type = "method" /\ mem.zone[word].method = true.codes[1]
       /\ ReadByteObject(mem.heap, mem.zone[word].selector) \in {None, true.selector}
  ELSE HasSlots(mem.heap, word, 4) /\ Field(mem.heap, word, 3) = true.codes[1]

ASSUME TrueAssumption ==
  \A id \in MemoryIds :
    LET mem == Memory(id)
    IN  /\ IsHeap(mem.heap)
        /\ \A p \in DOMAIN mem.frames :
             LET word == mem.frames[p].method
                 true == TrueName(id, word)
             IN  true # None => word # Null /\ AreCodes(mem.heap, true) /\ Runs(mem, word, true)

-----------------------------------------------------------------------------
TraceInit ==
  /\ memory \in MemoryIds
  /\ WalkInit
  /\ native = <<>> /\ chain = <<>> /\ frames = <<>>
  /\ hide \in BOOLEAN
  /\ at = "walk"

Walk == at = "walk" /\ WalkFrame /\ UNCHANGED vars

\* The chain is there and the VM goes on; the copy of the native stack is
\* unwound and its frames get their names.
ResolveNative ==
  /\ at = "walk" /\ ~ GoesOn
  /\ chain' = walked
  /\ \E n \in 0 .. NativeDepth : native' \in [1 .. n -> NativeFrames]
  /\ frames' = native'
  /\ at' = "splice"
  /\ UNCHANGED <<hide, walkVars>>

Stitch == (Splice \/ Trim) /\ UNCHANGED walkVars

TraceNext == Walk \/ ResolveNative \/ Stitch

TraceSpec == TraceInit /\ [][TraceNext]_traceVars

-----------------------------------------------------------------------------
(***************************************************************************)
(* Properties.                                                             *)
(***************************************************************************)

\* While the VM is walked over, the walk is right (CogFrames).
WalkTrue == at = "walk" => WalkOK

\* A frame is given the class and the selector of the method it runs, whatever
\* else the method's literals refer to: in a method, in a block up to MaxDepth - 1
\* blocks deep, or up to MaxDepth - 3 on the class side, where the way from the
\* literal to the name is longer (class_name_of_method and its depth).
NamesTrue ==
  at = "walk" => \A i \in 1 .. Len(walked) :
    LET true == TrueName(memory, MethodAt(visited[origin[i]]))
    IN  true # None /\ Len(true.codes) <= (IF true.class.metas = 0 THEN MaxDepth ELSE MaxDepth - 2) =>
          walked[i] = [kind |-> "method", class |-> true.class, selector |-> true.selector]

\* When the native stack shows that Smalltalk was left and none of its methods,
\* the trace has the methods of the VM's chain, all of them in their order.
CallersShown ==
  at = "done" /\ ToSet(native) \cap Methods = {}
    /\ ToSet(native) \cap (CogEntries \cup VmEntries) # {} =>
    Only(frames, Methods) = Only(walked, Methods)
=============================================================================
