---------------------------- MODULE NativeUnwind ----------------------------
(***************************************************************************)
(* NativeStack (src/src/native_stack_trace.rs) with its framehop backend   *)
(* (src/src/framehop_unwind.rs): what is known of the VM's address space   *)
(* and how it gets out of date.                                            *)
(*                                                                         *)
(* Three things are remembered.  The writable mappings bound the copy of a *)
(* stack; they, and the unwind info of libraries, are read again every     *)
(* Interval captures.  The symbolicator's binaries name addresses; they    *)
(* are read again after an address that had no binary.  Names are cached.  *)
(*                                                                         *)
(* A thread has its stack in an area of its own, with addresses from 0 to  *)
(* Top; what is above the mapping cannot be read.  A library is mapped at  *)
(* one of several places, each standing for its start and its code.  The   *)
(* VM is suspended from the first capture of a sample to the last.  That   *)
(* its mappings cannot be read, because it is gone, is not modelled.       *)
(*                                                                         *)
(* An operator whose comment says "Fault" is a changed form of the         *)
(* definition after it; no specification uses it.                          *)
(***************************************************************************)
EXTENDS Naturals, FiniteSetsExt

CONSTANTS
  Threads,    \* areas for the stack of a thread
  Places,     \* where libraries are mapped
  Libs,       \* libraries
  Usable,     \* libraries that have unwind info
  Jit,        \* code that no file is mapped to
  Top,        \* bound: the highest stack address
  Window,     \* STACK_COPY_WINDOW
  Interval,   \* FRAMEHOP_REFRESH_INTERVAL
  MaxChanges, \* bound: changes of the mappings
  Nothing     \* an absent entry

Mappings == {m \in [lo : 0 .. Top, hi : 0 .. Top] : m.lo < m.hi}
Stacks   == {s \in [lo : 0 .. Top, hi : 0 .. Top, rsp : 0 .. Top] : s.lo <= s.rsp /\ s.rsp < s.hi}

ASSUME UnwindAssumption ==
  /\ Usable \subseteq Libs /\ Jit \notin Places
  /\ Top \in Nat /\ Window \in Nat \ {0} /\ Interval \in Nat \ {0} /\ MaxChanges \in Nat
  /\ Nothing \notin Libs \cup Mappings \cup Stacks \cup Places \cup {Jit}

VARIABLES
  stack,        \* the stack mapping of each thread and its rsp
  mapped,       \* the library at each place
  changes,      \* how often these have changed
  reused,       \* places a library was unmapped from
  at,           \* what the spy is doing
  todo,         \* threads still to be captured
  captured,     \* the return address in the snapshot of each thread
  sinceReload,  \* captures_since_reload
  ranges,       \* writable_ranges
  loaded,       \* loaded: the start addresses of modules
  info,         \* unwinder: the library whose unwind info is used at a place
  binaries,     \* symbolicator
  shouldReload, \* should_reload
  symbolCache,  \* symbol_cache
  missed        \* how often the library at a place was left without a name, up to twice

vmVars   == <<stack, mapped, changes, reused>>
loadVars == <<ranges, loaded, info>>
nameVars == <<binaries, shouldReload, symbolCache, missed>>
vars     == <<vmVars, at, todo, captured, sinceReload, loadVars, nameVars>>

Live == {t \in Threads : stack[t] # Nothing}

-----------------------------------------------------------------------------
(***************************************************************************)
(* The VM.                                                                 *)
(***************************************************************************)
Run(t) ==
  /\ t \in Live
  /\ \E r \in stack[t].lo .. stack[t].hi - 1 : stack' = [stack EXCEPT ![t].rsp = r]
  /\ UNCHANGED <<mapped, changes, reused, missed>>

\* A stack grows downwards; a thread starts, or ends.
Remap(t) ==
  /\ \E s \in Stacks \cup {Nothing} :
       /\ \/ stack[t] = Nothing /\ s # Nothing
          \/ stack[t] # Nothing /\ s = Nothing
          \/ stack[t] # Nothing /\ s # Nothing /\ s.hi = stack[t].hi /\ s.lo < stack[t].lo
       /\ stack' = [stack EXCEPT ![t] = s]
  /\ UNCHANGED <<mapped, reused, missed>>

\* dlopen and dlclose
Dl(p) ==
  /\ \/ /\ mapped[p] = Nothing
        /\ \E l \in Libs : mapped' = [mapped EXCEPT ![p] = l]
        /\ UNCHANGED <<reused, missed>>
     \/ /\ mapped[p] # Nothing
        /\ mapped' = [mapped EXCEPT ![p] = Nothing]
        /\ reused' = reused \cup {p} /\ missed' = [missed EXCEPT ![p] = 0]
  /\ UNCHANGED stack

Vm ==
  /\ at # "capture"
  /\ \/ \E t \in Threads : Run(t)
     \/ /\ changes < MaxChanges
        /\ changes' = changes + 1
        /\ (\E t \in Threads : Remap(t)) \/ (\E p \in Places : Dl(p))
  /\ UNCHANGED <<at, todo, captured, sinceReload, loadVars, binaries, shouldReload, symbolCache>>

-----------------------------------------------------------------------------
(***************************************************************************)
(* Capture.                                                                *)
(***************************************************************************)
MappingOf(t) == IF stack[t] = Nothing THEN Nothing ELSE [lo |-> stack[t].lo, hi |-> stack[t].hi]

\* Modules are known by their start address, whether or not their file gave
\* any unwind info.
LoadModules ==
  LET new == {p \in Places : mapped[p] # Nothing} \ loaded
  IN  /\ ranges' = [t \in Threads |-> MappingOf(t)]
      /\ loaded' = loaded \cup new
      /\ info' = [p \in Places |-> IF p \in new /\ mapped[p] \in Usable THEN mapped[p] ELSE info[p]]

\* The end of the copy, given the range that was found for rsp.
CopyEnd(s, known) ==
  IF known # Nothing /\ s.rsp \in known.lo .. known.hi - 1
    THEN Min({s.rsp + Window, known.hi})
    ELSE s.rsp + Window

\* process.copy fails if it runs past the mapping.
Copied(t, known) == CopyEnd(stack[t], known) <= stack[t].hi

StartSample ==
  /\ at = "idle"
  /\ at' = "capture" /\ todo' = Live
  /\ UNCHANGED <<vmVars, captured, sinceReload, loadVars, nameVars>>

\* Fault: the counter is compared for equality and never reset.
RefreshOnce ==
  IF sinceReload + 1 = Interval
    THEN sinceReload' = Interval /\ LoadModules
    ELSE sinceReload' = Min({sinceReload + 1, Interval}) /\ UNCHANGED loadVars

\* Every capture counts, one that fails as well.
Refresh ==
  IF sinceReload + 1 >= Interval
    THEN sinceReload' = 0 /\ LoadModules
    ELSE sinceReload' = sinceReload + 1 /\ UNCHANGED loadVars

\* Fault: a capture that fails is not counted, nor is it a reason to refresh.
CaptureUncounted(t) ==
  /\ at = "capture" /\ t \in todo
  /\ IF Copied(t, ranges[t])
       THEN /\ Refresh
            /\ todo' = todo \ {t}
            /\ \E a \in {p \in Places : mapped[p] # Nothing} \cup {Jit} :
                 captured' = [captured EXCEPT ![t] = a]
            /\ UNCHANGED at
       ELSE /\ at' = "idle" /\ todo' = {}
            /\ captured' = [u \in Threads |-> Nothing]
            /\ UNCHANGED <<sinceReload, loadVars>>
  /\ UNCHANGED <<vmVars, nameVars>>

\* NativeStack::capture; an error ends the sample.
Capture(t) ==
  /\ at = "capture" /\ t \in todo
  /\ Refresh
  /\ IF Copied(t, ranges'[t])
       THEN /\ todo' = todo \ {t}
            /\ \E a \in {p \in Places : mapped[p] # Nothing} \cup {Jit} :
                 captured' = [captured EXCEPT ![t] = a]
            /\ UNCHANGED at
       ELSE /\ at' = "idle" /\ todo' = {}
            /\ captured' = [u \in Threads |-> Nothing]
  /\ UNCHANGED <<vmVars, nameVars>>

EndCapture ==
  /\ at = "capture" /\ todo = {}
  /\ at' = "resolve"
  /\ UNCHANGED <<vmVars, todo, captured, sinceReload, loadVars, nameVars>>

-----------------------------------------------------------------------------
(***************************************************************************)
(* Resolve.                                                                *)
(***************************************************************************)

\* Symbolicator::reload, when an address was unknown.
ReloadBinaries == binaries' = IF shouldReload THEN mapped ELSE binaries

\* The library an address is named after: of the cache, or of the binaries.
Answer(a) ==
  IF a = Jit THEN Nothing
  ELSE IF symbolCache[a] # Nothing THEN symbolCache[a] ELSE binaries'[a]

\* An address that was looked up is cached if it stands for one function, with no
\* other inlined; for that, another entry may have to go.
CacheSymbol(a) ==
  \/ UNCHANGED symbolCache
  \/ /\ Answer(a) # Nothing /\ symbolCache[a] = Nothing
     /\ \E gone \in Places : symbolCache' = [symbolCache EXCEPT ![gone] = Nothing, ![a] = Answer(a)]

CountMissed(a) ==
  missed' = IF a # Jit /\ Answer(a) = Nothing /\ mapped[a] # Nothing
              THEN [missed EXCEPT ![a] = Min({@ + 1, 2})] ELSE missed

\* Fault: an address without a binary is not asked about again.
SymbolizeOnce(a) == CacheSymbol(a) /\ shouldReload' = FALSE /\ CountMissed(a)

\* symbolize_addresses of one address.
Symbolize(a) == CacheSymbol(a) /\ shouldReload' = (Answer(a) = Nothing) /\ CountMissed(a)

Resolve(t) ==
  /\ at = "resolve" /\ captured[t] # Nothing
  /\ ReloadBinaries
  /\ Symbolize(captured[t])
  /\ captured' = [captured EXCEPT ![t] = Nothing]
  /\ UNCHANGED <<vmVars, at, todo, sinceReload, loadVars>>

EndSample ==
  /\ at = "resolve" /\ \A t \in Threads : captured[t] = Nothing
  /\ at' = "idle"
  /\ UNCHANGED <<vmVars, todo, captured, sinceReload, loadVars, nameVars>>

-----------------------------------------------------------------------------
Init ==
  /\ stack \in [Threads -> Stacks \cup {Nothing}]
  /\ mapped \in [Places -> Libs \cup {Nothing}]
  /\ changes = 0 /\ reused = {}
  /\ at = "idle" /\ todo = {} /\ captured = [t \in Threads |-> Nothing]
  /\ sinceReload = 0
  /\ ranges = [t \in Threads |-> MappingOf(t)]
  /\ loaded = {p \in Places : mapped[p] # Nothing}
  /\ info = [p \in Places |-> IF mapped[p] \in Usable THEN mapped[p] ELSE Nothing]
  /\ binaries = mapped /\ shouldReload = FALSE
  /\ symbolCache = [p \in Places |-> Nothing]
  /\ missed = [p \in Places |-> 0]

Sample == \/ StartSample \/ EndCapture \/ EndSample
          \/ \E t \in Threads : Capture(t) \/ Resolve(t)

Next == Vm \/ Sample

Spec == Init /\ [][Next]_vars

\* The sampler asks for samples again and again.
FairSpec == Spec /\ WF_vars(Sample)

-----------------------------------------------------------------------------
(***************************************************************************)
(* Properties.                                                             *)
(***************************************************************************)
TypeOK ==
  /\ stack \in [Threads -> Stacks \cup {Nothing}]
  /\ mapped \in [Places -> Libs \cup {Nothing}] /\ changes \in 0 .. MaxChanges
  /\ reused \subseteq Places
  /\ at \in {"idle", "capture", "resolve"}
  /\ todo \subseteq Live
  /\ captured \in [Threads -> Places \cup {Jit, Nothing}]
  /\ sinceReload \in 0 .. Interval - 1
  /\ ranges \in [Threads -> Mappings \cup {Nothing}]
  /\ loaded \subseteq Places /\ info \in [Places -> Usable \cup {Nothing}]
  /\ binaries \in [Places -> Libs \cup {Nothing}] /\ shouldReload \in BOOLEAN
  /\ symbolCache \in [Places -> Libs \cup {Nothing}]
  /\ missed \in [Places -> 0 .. 2]

\* Once the VM maps nothing any more, the copies of its stacks are in the end
\* all there is to copy of them, and no sample fails for one.
WholeCopy(t) == CopyEnd(stack[t], ranges[t]) = Min({stack[t].rsp + Window, stack[t].hi})
CopiesRecover == <>[](\A t \in Live : WholeCopy(t))

\* A library that was mapped where none had been before gets its unwind info
\* in the end, as long as there is something to capture.
HasInfo(p) == mapped[p] \in Usable => info[p] = mapped[p]
NewPlacesGetInfo == <>[](Live # {}) => <>[](\A p \in Places \ reused : HasInfo(p))

\* Threads are to be captured only while the VM is suspended for it.
CapturesSuspended == at # "capture" => todo = {}

\* An address of a library is left without a name once; whatever happens to
\* other addresses in between, the next time there is a binary to name it.
MissedOnce ==
  \A p \in Places :
    /\ missed[p] <= 1
    /\ missed[p] = 1 => /\ mapped[p] # Nothing
                        /\ shouldReload \/ binaries[p] # Nothing

\* Whatever is remembered of a place, and whenever it was read, is about the
\* library mapped there, unless one was unmapped from it.
KnownTrue ==
  \A p \in Places \ reused :
    /\ p \in loaded => mapped[p] # Nothing /\ HasInfo(p)
    /\ {info[p], binaries[p], symbolCache[p]} \subseteq {mapped[p], Nothing}

\* The invariant, which is inductive as it stands.
UnwindOK == TypeOK /\ CapturesSuspended /\ MissedOnce /\ KnownTrue
=============================================================================
