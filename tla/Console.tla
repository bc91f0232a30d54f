------------------------------ MODULE Console ------------------------------
(***************************************************************************)
(* sample_console (src/src/main.rs) and the ConsoleViewer it feeds         *)
(* (console_viewer.rs), with the thread that reads the keyboard: the two   *)
(* share the options under a mutex, which an increment takes up to three   *)
(* times and display holds while it draws.                                 *)
(*                                                                         *)
(* A frame is a name and a line, 0 when there is none.  The elapsed time   *)
(* is current_samples over the sampling rate.  The order of the table, the *)
(* number of threads and processes, and the layout are left out.           *)
(*                                                                         *)
(* An operator whose comment says "Fault" is a changed form of the         *)
(* definition after it; no specification uses it.                          *)
(***************************************************************************)
EXTENDS Naturals, SequencesExt

CONSTANTS
  Frames,      \* of traces: [name, line], line 0 when none is known
  Inputs,      \* samples of the sampler
  Terminals,   \* [height, narrow]: at most 50 columns wide
  Quick,       \* overall_samples at which the table is drawn at once
  Refresh,     \* refresh_seconds times the sampling rate
  IncludeIdle, \* include_idle
  MaxInputs    \* bound: samples received

Traces == [active : BOOLEAN, frames : Seq(Frames)]

ASSUME ConsoleAssumption ==
  /\ Inputs \subseteq [errors : Nat, late : BOOLEAN, traces : Seq(Traces)]
  /\ Quick \subseteq Nat /\ Refresh \in Nat \ {0} /\ MaxInputs \in Nat
  /\ IncludeIdle \in BOOLEAN
  /\ Terminals \subseteq [height : Nat, narrow : BOOLEAN]

VARIABLES
  terminal, \* the terminal
  options,  \* dirty, usage, lines (show_linenumbers), reset
  stats,    \* Stats
  viewer,   \* what the main thread is doing
  todo,     \* the increments the present sample still asks for
  received, \* samples received
  seen,     \* traces received since the last reset, for the properties
  fresh,    \* how many of them since the table was last drawn
  asked,    \* R was pressed since the last increment began
  pressed,  \* some key was pressed since the table was last drawn
  waiting   \* one of them before the present increment began

ghosts      == <<seen, fresh, asked, pressed, waiting>>
consoleVars == <<terminal, options, stats, viewer, todo, received, ghosts>>

-----------------------------------------------------------------------------
(***************************************************************************)
(* Statistics.                                                             *)
(***************************************************************************)
NoCounts == [current_own |-> 0, current_total |-> 0, overall_own |-> 0, overall_total |-> 0]

NewStats == [current_samples |-> 0, overall_samples |-> 0, errors |-> 0, late_samples |-> 0,
             delayed |-> FALSE, active |-> 0, function_counts |-> <<>>, line_counts |-> <<>>]

\* key_func of the lines and of the functions.
Key(frame, byLine) == <<frame.name, IF byLine THEN frame.line ELSE 0>>

Keys(frames, byLine) == [i \in DOMAIN frames |-> Key(frames[i], byLine)]

\* update_function_statistics, given key_func of every frame: a trace counts once
\* for each of its keys, and once as own for that of the innermost frame.
UpdateFunctionStatistics(counts, keys) ==
  LET One(b) == IF b THEN 1 ELSE 0
      Own(key) == One(keys # <<>> /\ keys[1] = key)
      Total(key) == One(key \in ToSet(keys))
      Old(key) == IF key \in DOMAIN counts THEN counts[key] ELSE NoCounts
  IN  [key \in DOMAIN counts \cup ToSet(keys) |->
         [current_own   |-> Old(key).current_own + Own(key),
          current_total |-> Old(key).current_total + Total(key),
          overall_own   |-> Old(key).overall_own + Own(key),
          overall_total |-> Old(key).overall_total + Total(key)]]

\* Fault: idle traces are counted.
IdleToo(trace) == TRUE

\* The traces increment does not pass over.
Counted(trace) == IncludeIdle \/ trace.active

CountTrace(st, trace) ==
  [st EXCEPT !.active = IF trace.active THEN @ + 1 ELSE @,
             !.line_counts = UpdateFunctionStatistics(@, Keys(trace.frames, TRUE)),
             !.function_counts = UpdateFunctionStatistics(@, Keys(trace.frames, FALSE))]

CountTraces(st, traces) ==
  LET after[n \in 0 .. Len(traces)] ==
        IF n = 0 THEN st
        ELSE IF Counted(traces[n]) THEN CountTrace(after[n - 1], traces[n])
        ELSE after[n - 1]
  IN  after[Len(traces)]

ResetCurrent(st) ==
  LET Cleared(counts) == [key \in DOMAIN counts |->
        [counts[key] EXCEPT !.current_own = 0, !.current_total = 0]]
  IN  [st EXCEPT !.line_counts = Cleared(@), !.function_counts = Cleared(@),
                 !.active = 0, !.current_samples = 0]

-----------------------------------------------------------------------------
(***************************************************************************)
(* The keyboard.  A key takes the mutex; display holds it throughout.      *)
(***************************************************************************)
Press(changed) ==
  /\ viewer \notin {"stuck", "ended"}
  /\ options' = [changed EXCEPT !.dirty = TRUE]
  /\ pressed' = TRUE
  /\ UNCHANGED <<terminal, stats, viewer, todo, received, seen, fresh, waiting>>

KeyReset == Press([options EXCEPT !.reset = TRUE]) /\ asked' = TRUE

KeyLines == Press([options EXCEPT !.lines = ~ @]) /\ UNCHANGED asked

KeyHelp == \E u \in BOOLEAN : Press([options EXCEPT !.usage = u]) /\ UNCHANGED asked

\* Another column to sort by, or a key without a meaning.
KeyOther == Press(options) /\ UNCHANGED asked

-----------------------------------------------------------------------------
(***************************************************************************)
(* The main thread.                                                        *)
(***************************************************************************)

\* One round of `for sample in sampler`: increment_late_sample, an increment_error
\* for each error, and increment with the traces.
Receive ==
  /\ viewer = "next" /\ received < MaxInputs
  /\ received' = received + 1
  /\ \E s \in Inputs :
       /\ stats' = IF s.late
                   THEN [stats EXCEPT !.late_samples = @ + 1, !.delayed = TRUE]
                   ELSE stats
       /\ todo' = [i \in 1..s.errors |-> [error |-> TRUE, traces |-> <<>>]]
                    \o <<[error |-> FALSE, traces |-> s.traces]>>
  /\ viewer' = "reset"
  /\ UNCHANGED <<terminal, options, ghosts>>

\* The sampler's iterator ends with the process.
End ==
  /\ viewer = "next"
  /\ viewer' = "ended"
  /\ UNCHANGED <<terminal, options, stats, todo, received, ghosts>>

\* maybe_reset
MaybeReset ==
  /\ viewer = "reset"
  /\ IF options.reset
     THEN /\ stats' = NewStats
          /\ options' = [options EXCEPT !.reset = FALSE]
     ELSE UNCHANGED <<stats, options>>
  /\ viewer' = "count"
  /\ seen' = IF asked THEN <<>> ELSE seen
  /\ fresh' = IF asked THEN 0 ELSE fresh
  /\ asked' = FALSE /\ waiting' = pressed
  /\ UNCHANGED <<terminal, todo, received, pressed>>

\* The rest of increment or increment_error, with the counters of increment_common.
Count ==
  /\ viewer = "count"
  /\ LET traces == Head(todo).traces
         st     == CountTraces(stats, traces)
     IN  /\ stats' = [st EXCEPT !.errors = IF Head(todo).error THEN @ + 1 ELSE @,
                                !.current_samples = @ + 1,
                                !.overall_samples = @ + 1]
         /\ seen' = seen \o traces
         /\ fresh' = fresh + Len(traces)
  /\ viewer' = "check"
  /\ UNCHANGED <<terminal, options, todo, received, asked, pressed, waiting>>

\* The increment returns; the next one of the sample, or the next sample.
Return ==
  /\ todo' = Tail(todo)
  /\ viewer' = IF Tail(todo) = <<>> THEN "next" ELSE "reset"

\* Fault: the time that has elapsed decides alone.
ElapsedOnly == stats.overall_samples \in Quick \/ stats.current_samples >= Refresh

ShouldRefresh ==
  \/ stats.overall_samples \in Quick
  \/ options.dirty \/ stats.current_samples >= Refresh

CheckRefresh ==
  /\ viewer = "check"
  /\ IF ShouldRefresh
     THEN viewer' = "display" /\ UNCHANGED todo
     ELSE Return
  /\ UNCHANGED <<terminal, options, stats, received, ghosts>>

\* Fault: half the height is rounded up, and one line more.
HeaderLinesRoundedUp ==
  (IF options.usage THEN 18 ELSE 8)
    + (IF stats.delayed /\ stats.late_samples * 10 > stats.overall_samples THEN 1 ELSE 0)
    + (IF terminal.narrow THEN (terminal.height + 2) \div 2 ELSE 0)

\* Lines of the terminal that are not the table's.
HeaderLines ==
  (IF options.usage THEN 18 ELSE 8)
    + (IF stats.delayed /\ stats.late_samples * 10 > stats.overall_samples THEN 1 ELSE 0)
    + (IF terminal.narrow THEN terminal.height \div 2 ELSE 0)

\* Fault: what was pressed meanwhile is thrown away with the mark.
DisplayForgets ==
  /\ viewer = "display"
  /\ HeaderLines <= terminal.height
  /\ options' = [options EXCEPT !.dirty = FALSE, !.reset = FALSE]
  /\ stats' = ResetCurrent(stats)
  /\ fresh' = 0 /\ pressed' = FALSE /\ waiting' = FALSE
  /\ Return
  /\ UNCHANGED <<terminal, received, seen, asked>>

\* display and reset_current
Display ==
  /\ viewer = "display"
  /\ HeaderLines <= terminal.height
  /\ options' = [options EXCEPT !.dirty = FALSE]
  /\ stats' = ResetCurrent(stats)
  /\ fresh' = 0 /\ pressed' = FALSE /\ waiting' = FALSE
  /\ Return
  /\ UNCHANGED <<terminal, received, seen, asked>>

\* `height as usize - header_lines` is below zero: a panic, or with overflow
\* unchecked, empty lines without end; the mutex is held.
DisplayUnderflow ==
  /\ viewer = "display"
  /\ HeaderLines > terminal.height
  /\ options' = [options EXCEPT !.dirty = FALSE]
  /\ viewer' = "stuck"
  /\ UNCHANGED <<terminal, stats, todo, received, ghosts>>

\* The terminal is gone: display()? ends sample_console.
DisplayFails ==
  /\ viewer = "display"
  /\ options' = [options EXCEPT !.dirty = FALSE]
  /\ viewer' = "ended"
  /\ UNCHANGED <<terminal, stats, todo, received, ghosts>>

-----------------------------------------------------------------------------
Init ==
  /\ terminal \in Terminals
  /\ options \in [dirty : {FALSE}, usage : {FALSE}, lines : BOOLEAN, reset : {FALSE}]
  /\ stats = NewStats
  /\ viewer = "next"
  /\ todo = <<>>
  /\ received = 0
  /\ seen = <<>> /\ fresh = 0
  /\ asked = FALSE /\ pressed = FALSE /\ waiting = FALSE

Input == KeyReset \/ KeyLines \/ KeyHelp \/ KeyOther

Next ==
  \/ Input
  \/ Receive \/ End \/ MaybeReset \/ Count \/ CheckRefresh
  \/ Display \/ DisplayUnderflow \/ DisplayFails

Spec == Init /\ [][Next]_consoleVars

-----------------------------------------------------------------------------
(***************************************************************************)
(* Properties.                                                             *)
(***************************************************************************)

\* Every variable has its type; the table is drawn before more than a refresh
\* interval's samples are current (increment_common).
TypeOK ==
  /\ terminal \in Terminals
  /\ options \in [dirty : BOOLEAN, usage : BOOLEAN, lines : BOOLEAN, reset : BOOLEAN]
  /\ stats.current_samples \in 0 .. Refresh
  /\ stats.current_samples <= stats.overall_samples
  /\ stats.errors <= stats.overall_samples
  /\ viewer \in {"next", "reset", "count", "check", "display", "stuck", "ended"}
  /\ received \in 0 .. MaxInputs
  /\ fresh \in 0 .. Len(seen)
  /\ asked \in BOOLEAN /\ pressed \in BOOLEAN /\ waiting \in BOOLEAN

\* What a trace is to be counted for, and what as own.
KeysOf(tr, byLine) ==
  IF IncludeIdle \/ tr.active THEN {Key(tr.frames[i], byLine) : i \in DOMAIN tr.frames} ELSE {}
OwnKeys(tr, byLine) ==
  IF (IncludeIdle \/ tr.active) /\ tr.frames # <<>> THEN {Key(tr.frames[1], byLine)} ELSE {}

Times(traces, key, byLine) == Cardinality({i \in DOMAIN traces : key \in KeysOf(traces[i], byLine)})
OwnTimes(traces, key, byLine) ==
  Cardinality({i \in DOMAIN traces : key \in OwnKeys(traces[i], byLine)})

\* The table of all traces, of which some are current.
Table(all, current, byLine) ==
  [key \in UNION {KeysOf(all[i], byLine) : i \in DOMAIN all} |->
     [current_own   |-> OwnTimes(current, key, byLine),
      current_total |-> Times(current, key, byLine),
      overall_own   |-> OwnTimes(all, key, byLine),
      overall_total |-> Times(all, key, byLine)]]

Current == SubSeq(seen, Len(seen) - fresh + 1, Len(seen))

\* Both tables count, for each function or line, the traces it is in and those it
\* is innermost in, once each however often it recurs: the current columns since
\* the table was last drawn, the overall ones since the increment after the last
\* R (update_function_statistics, reset_current, maybe_reset).
TablesTrue ==
  /\ stats.line_counts = Table(seen, Current, TRUE)
  /\ stats.function_counts = Table(seen, Current, FALSE)
ConsoleOK == TypeOK /\ TablesTrue

\* A key pressed before an increment begins is shown by the time it returns,
\* though display clears `dirty` and keys are pressed meanwhile
\* (should_refresh, display, the input thread).
KeysShown == viewer \in {"next", "reset"} => ~ waiting

\* Drawing comes to an end on a terminal of at least 19 lines, or of 37 if it is
\* at most 50 columns wide: room for the header with the help and a warning, and
\* for half the height (display).
DrawnIfLargeEnough ==
  viewer = "stuck" =>
    \/ terminal.height < 19
    \/ terminal.narrow /\ terminal.height < 37
=============================================================================
