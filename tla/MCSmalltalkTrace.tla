-------------------------- MODULE MCSmalltalkTrace --------------------------
(***************************************************************************)
(* Three families of memories.  "stitch": chains of up to two frames with  *)
(* every native stack of up to five.  "walk": three frames linked in every *)
(* way, cycles and unmapped words included.  "name": one frame that runs a *)
(* method of Foo or of Foo class, or a block in it, in each form in which  *)
(* the VM has them, with up to two literals that may be taken for a class. *)
(***************************************************************************)
EXTENDS SmalltalkTrace

CONSTANTS p1, p2, p3, base, primitive, native1

Ptrs == {p1, p2, p3}

Method(slots)   == [format |-> "method", slots |-> slots, headed |-> TRUE]
Pointers(slots) == [format |-> "pointers", slots |-> slots]
Text(t)         == [format |-> "bytes", text |-> t]

MCSelectorTexts == {"bar", "baz", "do:", "Foo", "Bar", "Baz"}
MCClassTexts    == {"Foo", "Bar", "Baz"}

Blocks  == <<"block1", "block2", "block3", "block4">>
MCWords == {"nil", "bar", "baz", "do:", "Foo", "Bar", "Baz", "FooBinding", "BarBinding", "method",
            "FooClass", "FooMeta", "MetaBinding", "state", "inner", "unread", "other", "context", "lost"}
           \cup ToSet(Blocks)

Class(name) == Pointers(<<"nil", "nil", "nil", "nil", "nil", "nil", name, "nil">>)

\* What does not depend on the method.
Objects == [w \in MCSelectorTexts |-> Text(w)] @@ [
  FooBinding  |-> Pointers(<<"Foo", "FooClass">>),
  BarBinding  |-> Pointers(<<"Bar", "nil">>),
  MetaBinding |-> Pointers(<<"nil", "FooMeta">>),
  FooClass    |-> Class("Foo"),
  FooMeta     |-> Pointers(<<"nil", "nil", "nil", "nil", "nil", "FooClass">>),
  state       |-> Pointers(<<"method", "bar">>),
  inner       |-> Method(<<"nil", "method">>),
  unread      |-> [Method(<<"bar", "BarBinding">>) EXCEPT !.headed = FALSE],
  other       |-> Method(<<"baz", "FooBinding">>)]

Context(method) == Pointers(<<"nil", "nil", "nil", method>>)

\* The heap with a method, what runs of it, and blocks nested in it.
Heap(lits, selector, binding, nested) ==
  Objects @@ [w \in {"method"} |-> Method(lits \o <<selector, binding>>)]
          @@ [b \in {Blocks[i] : i \in 1 .. nested} |->
               LET i == CHOOSE j \in 1 .. nested : Blocks[j] = b
               IN  Method((IF i = nested THEN lits ELSE <<>>)
                          \o <<"nil", IF i = 1 THEN "method" ELSE Blocks[i - 1]>>)]
          @@ [w \in {"context"} |-> Context(IF nested = 0 THEN "method" ELSE Blocks[nested])]
          @@ [w \in {"lost"} |-> Context("nil")]

Cog(type, method, selector) == [type |-> type, method |-> method, selector |-> selector]
Zone(method) == [cogBar |-> Cog("method", method, "bar"), cogBare |-> Cog("method", method, "nil"),
                 cogBaz |-> Cog("method", "other", "baz"), cogPic |-> Cog("open PIC", "nil", "bar")]

PlainHeap == Heap(<<>>, "bar", "FooBinding", 0)

-----------------------------------------------------------------------------
StitchKeys == {<<"stitch", c>> : c \in BoundedSeq({"cogBar", "cogBaz", "cogPic"}, MaxChain)}
StitchMemory(k) ==
  LET ptrs == <<p1, p2>>
  IN  [frames |-> [p \in {ptrs[i] : i \in DOMAIN k[2]} |->
                    IF p = p1 THEN [method |-> k[2][1], caller |-> IF Len(k[2]) = 2 THEN p2 ELSE Null]
                    ELSE [method |-> k[2][2], caller |-> Null]],
       first |-> IF k[2] = <<>> THEN Null ELSE p1, zone |-> Zone("method"), heap |-> PlainHeap]

Contents == [method : {"cogBar", "lost"}, caller : Ptrs \cup {Null, Lost}]
WalkKeys == UNION {{<<"walk", f, first>> : f \in [ptrs -> Contents], first \in {p1, Null, Lost}} :
                     ptrs \in SUBSET Ptrs}
WalkMemory(k) == [frames |-> k[2], first |-> k[3], zone |-> Zone("method"), heap |-> PlainHeap]

NameKeys == {<<"name", f, s, b, n, l>> :
               f \in {"cogBar", "cogBare", "context"}, s \in {"bar", "state"},
               b \in {"FooBinding", "MetaBinding"}, n \in 0 .. 4,
               l \in BoundedSeq({"do:", "Baz", "BarBinding", "inner", "unread"}, 2)}
NameMemory(k) ==
  [frames |-> [p \in {p1} |-> [method |-> k[2], caller |-> Null]], first |-> p1,
   zone |-> Zone(IF k[5] = 0 THEN "method" ELSE Blocks[k[5]]), heap |-> Heap(k[6], k[3], k[4], k[5])]

MCMemoryIds == StitchKeys \cup WalkKeys \cup NameKeys

MCMemory(k) == CASE k[1] = "stitch" -> StitchMemory(k)
                 [] k[1] = "walk"   -> WalkMemory(k)
                 [] k[1] = "name"   -> NameMemory(k)
Truth(class, metas, selector, codes) ==
  [class |-> [class |-> class, metas |-> metas], selector |-> selector, codes |-> codes]
MCTrueName(k, word) ==
  CASE word = "cogBaz" -> Truth("Foo", 0, "baz", <<"other">>)
    [] word = "cogBar" /\ k[1] # "name" -> Truth("Foo", 0, "bar", <<"method">>)
    [] word \in {"cogBar", "cogBare", "context"} /\ k[1] = "name" ->
         Truth("Foo", IF k[4] = "FooBinding" THEN 0 ELSE 1, "bar",
               [i \in 1 .. k[5] |-> Blocks[k[5] + 1 - i]] \o <<"method">>)
    [] OTHER -> None

-----------------------------------------------------------------------------
Named(class, selector) == [kind |-> "method", class |-> class, selector |-> selector]
JIT(type, selector)    == [kind |-> "JIT", type |-> type, selector |-> selector]

FooBar == Named([class |-> "Foo", metas |-> 0], "bar")
FooBaz == Named([class |-> "Foo", metas |-> 0], "baz")

MCMethods  == {Named(c, s) : c \in [class : MCClassTexts, metas : 0 .. 1] \cup {None}, s \in {"bar", "baz"}}
MCGenerics == {Generic, JIT("method", "bar"), JIT("open PIC", "bar")}
MCNativeFrames == {FooBar, FooBaz, base, JIT("open PIC", "bar"), primitive, native1}
=============================================================================
