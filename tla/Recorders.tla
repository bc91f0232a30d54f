----------------------------- MODULE Recorders -----------------------------
(***************************************************************************)
(* What record_samples (src/src/main.rs) hands to its recorder, and the    *)
(* three recorders: chrometrace.rs, speedscope.rs and flamegraph.rs (which *)
(* the raw format shares).  A recording has one of them; here all three    *)
(* are given the same traces, so that they can be compared.                *)
(*                                                                         *)
(* A frame is a name, a file name, a module and a line, 0 when there is    *)
(* none; its short file name is a function of the file name (shorten_-     *)
(* filename in smalltalk_spy.rs).  A thread belongs to one process         *)
(* throughout.  Times, and the layout of the files, are left out.          *)
(*                                                                         *)
(* An operator whose comment says "Fault" is a changed form of the         *)
(* definition after it; no specification uses it.                          *)
(***************************************************************************)
EXTENDS Naturals, SequencesExt

CONSTANTS
  Frames,       \* of traces, line 0 when none is known
  NoFile,       \* the empty file name
  NoModule,     \* the module of a frame that has none
  Short,        \* of a file name: what a flame graph shows of it
  Configs,      \* command lines
  Threads,      \* thread ids
  Chain,        \* of a thread: its process and that process's parents
  MaxDepth,     \* bound: frames of a trace
  MaxTraces,    \* bound: traces of a recording
  Unmatched     \* a slice that was ended without having begun

Frame(name, filename, module, line) ==
  [name |-> name, filename |-> filename, module |-> module, line |-> line]

\* A thread or a process as a frame.
Marker(name) == Frame(name, NoFile, NoModule, 0)

ASSUME RecordersAssumption ==
  /\ \A frame \in Frames :
       /\ frame = Frame(frame.name, frame.filename, frame.module, frame.line)
       /\ frame.line \in Nat
       /\ frame.filename \in DOMAIN Short
  /\ NoFile \in DOMAIN Short
  /\ Configs \subseteq [lines : BOOLEAN, threads : BOOLEAN, processes : BOOLEAN]
  /\ MaxDepth \in Nat /\ MaxTraces \in Nat
  /\ \A t \in Threads : Chain[t] \in Seq(Range(Chain[t]))

VARIABLES
  settings,    \* show_line_numbers, include_thread_ids, subprocesses
  events,      \* Chrometrace::events
  prev_traces, \* Chrometrace::prev_traces, the frames of them
  profiles,    \* speedscope Stats::samples
  table,       \* speedscope Stats::frames and frame_to_index
  counts,      \* Flamegraph::counts
  samples,     \* record_samples, samples
  file,        \* the events write has written
  written,     \* whether it has
  log          \* each thread's traces recorded so far, for the properties

recorderVars == <<settings, events, prev_traces, profiles, table, counts, samples, file, written, log>>

Stacks == SeqOf(Frames, MaxDepth)

\* trace.frames once record_samples has pushed the thread and the processes.
Decorated(t, frames) ==
  frames
    \o (IF settings.threads THEN <<Marker(t)>> ELSE <<>>)
    \o (IF settings.processes THEN [i \in DOMAIN Chain[t] |-> Marker(Chain[t][i])] ELSE <<>>)

\* A frame as an event or an entry shows it: without its module, and without its
\* line unless lines are shown.
Shown(frame) ==
  Frame(frame.name, frame.filename, NoModule, IF settings.lines THEN frame.line ELSE 0)

\* A trace as it is shown, outermost first.
ShownStack(frames) == [i \in DOMAIN frames |-> Shown(Reverse(frames)[i])]

-----------------------------------------------------------------------------
(***************************************************************************)
(* chrometrace.rs                                                          *)
(***************************************************************************)
ShouldMergeFrames(a, b) ==
  a.name = b.name /\ a.filename = b.filename /\ (settings.lines => a.line = b.line)

\* Fault: a deeper trace begins all its frames again.
NewIndexAnew(prev, frames) == 0

\* How many of the outermost frames go on from the previous trace.
NewIndex(prev, frames) ==
  LET shorter   == Min({Len(prev), Len(frames)})
      differing == {i \in 1..shorter : ~ ShouldMergeFrames(Reverse(prev)[i], Reverse(frames)[i])}
  IN  IF differing = {} THEN shorter ELSE Min(differing) - 1

Events(t, ph, frames) ==
  [i \in DOMAIN frames |-> [tid |-> t, ph |-> ph, frame |-> Shown(frames[i])]]

\* The frames of a trace that do not go on, innermost first.
Inner(frames, index) == SubSeq(frames, 1, Len(frames) - index)

ChromeIncrement(t, frames) ==
  LET prev == prev_traces[t]
      idx  == NewIndex(prev, frames)
  IN  /\ events' = events \o Events(t, "E", Inner(prev, idx))
                          \o Events(t, "B", Reverse(Inner(frames, idx)))
      /\ prev_traces' = [prev_traces EXCEPT ![t] = frames]

\* Fault: the frames still open are ended outermost first.
EndsOutermost(t) == Events(t, "E", Reverse(prev_traces[t]))

\* write: the frames of a thread that are still open, and those of all threads.
Ends(t) == Events(t, "E", prev_traces[t])

Unfinished(order) ==
  LET ended[i \in 0 .. Len(order)] ==
        IF i = 0 THEN <<>> ELSE ended[i - 1] \o Ends(order[i])
  IN  ended[Len(order)]

-----------------------------------------------------------------------------
(***************************************************************************)
(* speedscope.rs                                                           *)
(***************************************************************************)

\* A map with one more key, or another value for it.
Insert(map, key, value) ==
  [k \in DOMAIN map \cup {key} |-> IF k = key THEN value ELSE map[k]]

\* Fault: frame_to_index is looked up with the line, though lines are not shown.
KeyWithLine(frame) == frame

\* The key of frame_to_index: the whole frame, of which its entry shows a part.
Key(frame) == IF settings.lines THEN frame ELSE [frame EXCEPT !.line = 0]

\* The index of a frame, entered if it is new.
Enter(found, frame) ==
  IF Key(frame) \in DOMAIN found.index
  THEN [found EXCEPT !.indices = Append(@, found.index[Key(frame)])]
  ELSE [frames  |-> Append(found.frames, Shown(frame)),
        index   |-> Insert(found.index, Key(frame), Len(found.frames)),
        indices |-> Append(found.indices, Len(found.frames))]

\* Every frame of a trace, entered one after the other.
EnterAll(frames) ==
  LET entered[i \in 0 .. Len(frames)] ==
        IF i = 0 THEN [frames |-> table.frames, index |-> table.index, indices |-> <<>>]
        ELSE Enter(entered[i - 1], frames[i])
  IN  entered[Len(frames)]

SpeedscopeRecord(t, frames) ==
  LET found == EnterAll(frames)
  IN  /\ table' = [frames |-> found.frames, index |-> found.index]
      /\ profiles' = [profiles EXCEPT ![t] = Append(@, Reverse(found.indices))]

-----------------------------------------------------------------------------
(***************************************************************************)
(* flamegraph.rs                                                           *)
(***************************************************************************)

\* A stack with short file names.
Shortened(stack) == [i \in DOMAIN stack |-> [stack[i] EXCEPT !.filename = Short[@]]]

\* Fault: a stack is counted by its functions, though lines are shown.
LineOfNames(frames) == [i \in DOMAIN frames |-> Marker(Reverse(frames)[i].name)]

\* The frames joined to one line of the raw format.
LineOf(frames) == Shortened(ShownStack(frames))

FlamegraphIncrement(frames) ==
  LET line == LineOf(frames)
  IN  counts' = IF line \in DOMAIN counts
                THEN [counts EXCEPT ![line] = @ + 1]
                ELSE Insert(counts, line, 1)

-----------------------------------------------------------------------------
(***************************************************************************)
(* record_samples                                                          *)
(***************************************************************************)

\* One trace of a sample that is to be recorded.
RecordTrace(t) ==
  /\ samples < MaxTraces /\ ~ written
  /\ \E stack \in Stacks :
       LET frames == Decorated(t, stack)
       IN  /\ ChromeIncrement(t, frames)
           /\ SpeedscopeRecord(t, frames)
           /\ FlamegraphIncrement(frames)
           /\ log' = [log EXCEPT ![t] = Append(@, frames)]
  /\ samples' = samples + 1
  /\ UNCHANGED <<settings, file, written>>

\* output.write once the loop has ended.
WriteFile ==
  /\ ~ written
  /\ written' = TRUE
  /\ \E order \in SetToSeqs({t \in Threads : prev_traces[t] # <<>>}) :
       file' = events \o Unfinished(order)
  /\ UNCHANGED <<settings, events, prev_traces, profiles, table, counts, samples, log>>

Init ==
  /\ settings \in Configs
  /\ events = <<>>
  /\ prev_traces = [t \in Threads |-> <<>>]
  /\ profiles = [t \in Threads |-> <<>>]
  /\ table = [frames |-> <<>>, index |-> <<>>]
  /\ counts = <<>>
  /\ samples = 0
  /\ file = <<>>
  /\ written = FALSE
  /\ log = [t \in Threads |-> <<>>]

Next == (\E t \in Threads : RecordTrace(t)) \/ WriteFile

Spec == Init /\ [][Next]_recorderVars

-----------------------------------------------------------------------------
(***************************************************************************)
(* Properties.                                                             *)
(***************************************************************************)

\* A viewer of the events: a stack of open slices, outermost first, in which an
\* end event ends the innermost, if it has its name.
Apply(open, e) ==
  CASE e.ph = "B" -> Append(open, e.frame)
    [] e.ph = "E" /\ open # <<>> /\ Last(open) = e.frame -> Front(open)
    [] OTHER -> Append(open, Unmatched)

\* An event as the viewer of a thread takes it, and what a sequence of events
\* leaves open, of the slices open before.
Seen(open, e, t) == IF e.tid = t THEN Apply(open, e) ELSE open

Replay(open, evs, t) ==
  LET after[i \in 0 .. Len(evs)] == IF i = 0 THEN open ELSE Seen(after[i - 1], evs[i], t)
  IN  after[Len(evs)]

OpenSlices(evs, t) == Replay(<<>>, evs, t)

\* The thread's last trace, as shown, outermost first.
LastTrace(t) == IF log[t] = <<>> THEN <<>> ELSE ShownStack(Last(log[t]))

\* The begin and end events of a thread nest: after every sample the open slices
\* are the frames of its last trace, from the outermost to the innermost, and in
\* the file each is ended by its own end event, in whatever order the threads come
\* out of the map (chrometrace.rs, increment and write).
SlicesAreStacks ==
  \A t \in Threads : /\ OpenSlices(events, t) = LastTrace(t)
                     /\ written => OpenSlices(file, t) = <<>>

\* A frame that stays on the stack stays one slice: a sample ends and begins no
\* more slices than the trace and the one before it differ in
\* (chrometrace.rs, increment).
SlicesGoOn ==
  [][\A t \in Threads :
       LET common == LongestCommonPrefix({LastTrace(t), LastTrace(t)'})
       IN  log'[t] # log[t] =>
             Len(events') - Len(events) = Len(LastTrace(t)) + Len(LastTrace(t)') - 2 * Len(common)]_recorderVars

Decoded(indices) == [i \in DOMAIN indices |-> table.frames[indices[i] + 1]]

RecordedFrames == UNION {UNION {Range(log[t][i]) : i \in DOMAIN log[t]} : t \in Threads}

\* The samples of a speedscope profile, looked up in the table of frames, are the
\* traces of that thread in order, and every index is one of the table's.  The table
\* has one entry for each frame that was recorded, as it is shown, and module it was
\* recorded from: no more, though what two entries show may be the same, and no
\* fewer (speedscope.rs, record).
ProfilesDecode ==
  /\ Len(table.frames) = Cardinality({<<Shown(frame), frame.module>> : frame \in RecordedFrames})
  /\ \A t \in Threads : \A i \in DOMAIN profiles[t] :
       \A j \in DOMAIN profiles[t][i] : profiles[t][i][j] \in 0 .. Len(table.frames) - 1
  /\ \A t \in Threads :
       [i \in DOMAIN profiles[t] |-> Decoded(profiles[t][i])]
         = [i \in DOMAIN log[t] |-> ShownStack(log[t][i])]

\* The places of the samples in the profiles of all threads, and what they read as
\* with short file names.
Recorded == UNION {{<<t, i>> : i \in DOMAIN profiles[t]} : t \in Threads}
ReadsAs(p) == Shortened(Decoded(profiles[p[1]][p[2]]))

\* The formats agree, as far as a flame graph's short file names go: it counts a line
\* as often as the speedscope profiles of all threads hold a stack that reads as that
\* line, stacks of same-named files in two directories counted as one
\* (flamegraph.rs, increment).
FormatsAgree ==
  counts = [line \in {ReadsAs(p) : p \in Recorded} |->
              Cardinality({p \in Recorded : ReadsAs(p) = line})]
=============================================================================
