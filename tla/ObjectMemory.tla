---------------------------- MODULE ObjectMemory ----------------------------
(***************************************************************************)
(* How SmalltalkSymbolizer (src/src/smalltalk_symbolizer.rs) reads the     *)
(* selector and the class of a method out of the VM's object memory, a     *)
(* graph it cannot trust: any word may be unreadable, literals form        *)
(* cycles, and which literal is the class is known by its looks only.      *)
(*                                                                         *)
(* A heap is a function from the words that are addresses of objects to    *)
(* the objects; all other words, nil and small integers among them, are    *)
(* not in its domain.  An object is its format and its slots, those of a   *)
(* method being its literals; `headed` says that a method's header can be  *)
(* read.  A byte object is its text, None if it cannot be read.            *)
(*                                                                         *)
(* An operator whose comment says "Fault" is a changed form of the         *)
(* definition after it.                                                    *)
(***************************************************************************)
EXTENDS Naturals, SequencesExt

CONSTANTS
  Words,         \* words of the VM's memory
  SelectorTexts, \* texts that look like a selector
  ClassTexts,    \* texts that look like the name of a class
  MaxDepth,      \* MAX_CLASS_NAME_DEPTH, and the same for selectors
  None           \* Option::None

Formats    == {"method", "pointers", "words", "bytes"}
ClassNames == [class : ClassTexts, metas : Nat]  \* metas: how often " class" is appended

ASSUME TextAssumption ==
  ClassTexts \subseteq SelectorTexts /\ None \notin SelectorTexts \cup ClassNames \cup Formats
ASSUME DepthAssumption == MaxDepth \in Nat

\* or_else, for two candidates and for a sequence of them: the first that is there.
OrElse(a, b) == IF a # None THEN a ELSE b

FirstOf(candidates) ==
  LET there == {i \in DOMAIN candidates : candidates[i] # None}
  IN  IF there = {} THEN None ELSE candidates[Min(there)]

FormatOf(h, oop) == IF oop \in DOMAIN h THEN h[oop].format ELSE None

IsCompiledMethod(h, oop) == FormatOf(h, oop) = "method"
IsWordsOrBytes(h, oop)   == FormatOf(h, oop) \in {"words", "bytes"}
IsPointerObject(h, oop)  == FormatOf(h, oop) = "pointers"

ReadByteObject(h, oop) == IF FormatOf(h, oop) = "bytes" THEN h[oop].text ELSE None

ClassText(h, oop) ==
  LET text == ReadByteObject(h, oop) IN IF text \in ClassTexts THEN [class |-> text, metas |-> 0] ELSE None

Field(h, oop, i) == h[oop].slots[i + 1]

-----------------------------------------------------------------------------
(***************************************************************************)
(* The four functions that call themselves and each other, one level of    *)
(* the recursion each: what they give for a word, from what all four give  *)
(* one level `deeper`.                                                     *)
(***************************************************************************)
\* The last literal but one, unless the last is an outer method that has a selector.
MaybeSelectorOfMethod(h, deeper, method) ==
  IF ~ IsCompiledMethod(h, method) \/ Len(h[method].slots) < 2 THEN None
  ELSE LET last  == Field(h, method, Len(h[method].slots) - 1)
           last2 == Field(h, method, Len(h[method].slots) - 2)
           outer == IF IsCompiledMethod(h, last) /\ h[last].headed THEN deeper.selector[last] ELSE None
       IN  IF IsCompiledMethod(h, last) /\ ~ h[last].headed THEN None
           ELSE IF outer # None THEN outer
           ELSE IF IsWordsOrBytes(h, last2) THEN ReadByteObject(h, last2)
           ELSE IF /\ IsPointerObject(h, last2) /\ Len(h[last2].slots) >= 2
                   /\ Field(h, last2, 0) = method
                   /\ IsWordsOrBytes(h, Field(h, last2, 1))
           THEN ReadByteObject(h, Field(h, last2, 1))
           ELSE None

\* Of a class object: its name, or that of the class it is the metaclass of.
ClassNameFromClassObject(h, deeper, oop) ==
  IF ~ IsPointerObject(h, oop) THEN None
  ELSE LET n == Len(h[oop].slots)
           Named(i) == IF i < n THEN ClassText(h, Field(h, oop, i)) ELSE None
           this == IF n > 5 /\ Field(h, oop, 5) # oop THEN deeper.class[Field(h, oop, 5)] ELSE None
       IN  OrElse(Named(6),
             OrElse(IF this = None THEN None ELSE [class |-> this.class, metas |-> this.metas + 1],
               FirstOf([i \in 1 .. Min({n, 8}) |-> IF i - 1 \in {5, 6} THEN None ELSE Named(i - 1)])))

\* Of a literal: a name, a class, a binding of a class, or what its fields lead to.
ClassNameFromMethodLiteral(h, deeper, oop) ==
  IF IsWordsOrBytes(h, oop) THEN ClassText(h, oop)
  ELSE IF ~ IsPointerObject(h, oop) THEN None
  ELSE LET n == Len(h[oop].slots)
       IN  OrElse(deeper.class[oop],
             OrElse(IF n < 2 THEN None
                    ELSE OrElse(deeper.class[Field(h, oop, 1)], ClassText(h, Field(h, oop, 0))),
               FirstOf([i \in 1 .. Min({n, 8}) |-> deeper.literal[Field(h, oop, i - 1)]])))

\* Fault: the literals in the order they have in the method.
LiteralsForward(slots) == SubSeq(slots, IF Len(slots) > 4 THEN Len(slots) - 3 ELSE 1, Len(slots))

\* The literals that are looked at, in their order: the last four, from the end.
LiteralsTried(slots) ==
  Reverse(SubSeq(slots, IF Len(slots) > 4 THEN Len(slots) - 3 ELSE 1, Len(slots)))

\* Of a method: the first class that one of these leads to.
ClassNameOfMethod(h, deeper, method) ==
  IF ~ IsCompiledMethod(h, method) THEN None
  ELSE LET tried == LiteralsTried(h[method].slots)
       IN  FirstOf([i \in DOMAIN tried |->
             IF ~ IsCompiledMethod(h, tried[i]) THEN deeper.literal[tried[i]]
             ELSE IF h[tried[i]].headed THEN deeper.name[tried[i]] ELSE None])

\* What the four give for every word: nothing beyond MaxDepth, and at a level
\* what follows from the one deeper.
TooDeep ==
  LET nothing == [w \in Words |-> None]
  IN  [selector |-> nothing, class |-> nothing, literal |-> nothing, name |-> nothing]

Level(h, deeper) ==
  [selector |-> [w \in Words |-> MaybeSelectorOfMethod(h, deeper, w)],
   class    |-> [w \in Words |-> ClassNameFromClassObject(h, deeper, w)],
   literal  |-> [w \in Words |-> ClassNameFromMethodLiteral(h, deeper, w)],
   name     |-> [w \in Words |-> ClassNameOfMethod(h, deeper, w)]]

\* By the number of levels left, which is MaxDepth + 1 at depth 0.
Readings(h) ==
  LET read[left \in 0 .. MaxDepth + 1] == IF left = 0 THEN TooDeep ELSE Level(h, read[left - 1])
  IN  read

SelectorOf(h, m) == Readings(h)[MaxDepth + 1].selector[m]
ClassOf(h, m)    == Readings(h)[MaxDepth + 1].name[m]

-----------------------------------------------------------------------------
(***************************************************************************)
(* Names of frames.                                                        *)
(***************************************************************************)
Generic == [kind |-> "JIT"]  \* "JIT frame"

Selected(text) == IF text \in SelectorTexts THEN text ELSE None

\* read_cog_method_at: the name of a method in the JIT's zone, by its own
\* selector or else that of its method object.
CogMethodName(h, cog) ==
  LET own      == ReadByteObject(h, cog.selector)
      selector == Selected(IF own # None \/ cog.type # "method" THEN own
                           ELSE SelectorOf(h, cog.method))
      class    == ClassOf(h, cog.method)
  IN  IF selector = None THEN Generic
      ELSE IF cog.type = "method" /\ class # None
      THEN [kind |-> "method", class |-> class, selector |-> selector]
      ELSE [kind |-> "JIT", type |-> cog.type, selector |-> selector]

\* resolve_frame_method, for a frame the interpreter runs: the method of its context.
ContextName(h, context) ==
  LET method   == IF context \in DOMAIN h THEN Field(h, context, 3) ELSE None
      selector == Selected(SelectorOf(h, method))
  IN  IF ~ IsCompiledMethod(h, method) \/ ~ h[method].headed \/ selector = None THEN None
      ELSE [kind |-> "method", class |-> ClassOf(h, method), selector |-> selector]
=============================================================================
