# A verification project for st-spy

st-spy samples OpenSmalltalk VMs from outside: it suspends the VM's process for
a moment, copies what it needs, resumes it, and turns the copy into Smalltalk
stack traces.  This directory holds TLA+ models of it, the configurations that
check them with TLC, and proofs checked by TLAPS.

## 1. The system

| Part | Source | State it keeps | Talks to |
|---|---|---|---|
| Subprocess sampler | `sampler.rs` (`new_subprocess_sampler`, `SmalltalkSpyThread`) | table of spies under a mutex, three channels per spy, cached process info | OS process table, spies, consumer |
| Single-process sampler | `sampler.rs` (`new_sampler`), `timer.rs` | one channel of samples, the timer's next deadline | spy, consumer |
| Spy | `smalltalk_spy.rs` (`get_stack_traces`) | unwinder, symbolizer, previous OS thread activity | VM process, unwinder, symbolizer |
| Stack stitching | `smalltalk_spy.rs` (splice, boundary, `trim_native_roots`) | none (pure) | spy |
| Smalltalk symbolizer | `smalltalk_symbolizer.rs` | method ranges, resolved pcs, scanned bounds of the method zone, caches of names | VM memory |
| Native unwinder | `native_stack_trace.rs`, `framehop_unwind.rs` | loaded modules, writable ranges, symbol cache | VM memory and registers, symbol files |
| Command | `main.rs` (`stspy_main`), `smalltalk_process_info.rs` | the target, the program it started | OS process table, user, recording loop, dump |
| Recording loop | `main.rs` (`record_samples`, `sample_console`, `run_spy_command`) | counters, Ctrl-C flag | sampler, recorders |
| Recorders | `flamegraph.rs`, `speedscope.rs`, `chrometrace.rs` | counts, frame index, previous frames | recording loop |
| Console viewer | `console_viewer.rs` | current and overall statistics, options shared with the input thread | recording loop, terminal |
| Binary parser | `binary_parser.rs`, `utils.rs` | symbols of one binary | symbolizer, spy |
| Dump | `dump.rs` | its calls, one for each process on the way down | spy, OS process table |
| Configuration | `config.rs` | the command line | all |

### Operations, interactions, hard behaviours, and what makes each part correct

**Subprocess sampler.** The main thread lists the descendants of a process,
creates a `SmalltalkSpyThread` for each and waits for one to attach, in up to
ten attempts; then it starts a monitor (adds an entry for every new child) and a
sampling thread (each tick: ask every initialised spy, gather the answers, send
one sample). A spy's thread attaches, reports that, and answers requests. The
table of spies is under a mutex; each spy has three channels. Hard: four kinds
of threads, a panic that poisons the mutex, processes that start and exit
between any two steps, answers that must not spill into the next round, threads
that must end. Correct: an answer belongs to the round that asked for it; a
sample has one result of every process that runs; the cached process chain is
the right one; no live spy is replaced; everything ends when it should.

**Single-process sampler and recording loop.** A thread attaches, then samples
on a timer into a channel until the receiver is gone or the process is; the main
thread takes samples until Control-C, the limit, or the end of the channel, then
drops the receiver, joins the thread and writes the file. Hard: Control-C and
exits at any time, samples waiting in the channel, which of the limit and the
recording comes first. Correct: nothing taken before an exit is lost, nothing
that waits is recorded after Control-C, and the recording ends.

**Spy.** `retry_new` attaches; `get_stack_traces` reads which threads are busy,
suspends the VM, copies each stack and the VM's frame chain, resumes it and
resolves the copies. Hard: every call may fail while the VM is suspended, and
the VM runs on between all other calls. Correct: the VM is left running whatever
fails, and a sample is of one instant.

**Stack stitching.** Finds where the native stack left Smalltalk, cuts it there,
appends the VM's frame chain without methods already shown, and trims C frames
from the root. Correct: callers in order, no method twice, none lost.

**Smalltalk symbolizer.** Names a pc in JIT code from ranges it keeps of the
VM's method zone, which it reads incrementally while the VM compiles into it and
compacts it; walks the VM's frame chain; reads selectors and class names out of
methods. Hard: every remembered fact goes stale, a header is read field by field
while the VM writes, reads may fail half way, and memory may be linked in any
way. Correct: no pc gets the name of another method, walks leave no gaps and
end, a frame has the class and selector of the method it runs.

**Native unwinder.** Bounds the copy of a stack by the writable mappings it
read some captures ago, keeps unwind info per library and names per address.
Hard: mappings change under it, one failed capture fails the sample. Correct: it
recovers once the mappings stay.

**Recorders.** Fold the traces of a recording into the events of a Chrome trace,
indexed speedscope profiles, or counts of a flame graph. Correct: the file can
be decoded to the traces that were recorded.

**Console viewer.** Counts functions and lines, overall and since the last
drawing; a second thread reads keys and shares the options under a mutex. Hard:
keys between any two uses of the mutex, and terminal sizes. Correct: tables are
true, keys are not lost, drawing ends.

**Command and dump.** `stspy_main` takes the VM's pid from the command line,
looks for the only VM that runs, or starts a program; it records, and then ends
the program it started. A dump attaches to a process, prints it and calls itself
for each child. Hard: processes start and exit during the search and during the
dump, the program may have exited before st-spy looks after it, the list of
children is of the whole tree at every level. Correct: st-spy decides by itself only
for the one process that passes for a VM, no program is left behind that it may
kill, and a dump prints once each process that was there when it began and stays.

**The rest.** The binary parser turns a file into symbols; configuration parses
the command line once. They keep no state over several steps.

## 2. Modules

| Module | Models | Extended by |
|---|---|---|
| `SubprocessSampler` | `sampler.rs`, the sampler with subprocesses | `MCSubprocessSampler`, `SubprocessSamplerProofs` |
| `SamplingRound` | abstract: rounds of requests and answers | instantiated by `SubprocessSampler` |
| `JitResolver` | `smalltalk_symbolizer.rs`, `resolve_jit_pc` | `MCJitResolver`, `JitResolverProofs` |
| `StackSpy` | `smalltalk_spy.rs`, attaching and sampling | `MCStackSpy`, `StackSpyProofs` |
| `AtomicSample` | abstract: a sample is taken at one instant | instantiated by `StackSpy` |
| `StackStitch` | `smalltalk_spy.rs`, splice and trim | `SmalltalkTrace`, `MCStackStitch` (for `stitch_skipped`) |
| `ObjectMemory` | `smalltalk_symbolizer.rs`, selector and class of a method | `CogFrames` |
| `CogFrames` | `smalltalk_symbolizer.rs`, `walk_cog_frames` | `SmalltalkTrace` |
| `SmalltalkTrace` | composition: one thread's trace, `CogFrames` then `StackStitch` | `MCSmalltalkTrace`, `SmalltalkTraceProofs` |
| `NativeUnwind` | `native_stack_trace.rs`, `framehop_unwind.rs`, what they remember | `MCNativeUnwind`, `NativeUnwindProofs` |
| `Recording` | `main.rs`, `sampler.rs`, `timer.rs`, one process recorded | `Command` |
| `Command` | composition: `main.rs` (`stspy_main`) and `dump.rs` around `Recording` | `MCCommand`, `CommandProofs` |
| `Recorders` | `chrometrace.rs`, `speedscope.rs`, `flamegraph.rs`, and the frames `main.rs` adds | `MCRecorders`, `RecordersProofs` |
| `Console` | `console_viewer.rs` and `sample_console` | `MCConsole`, `ConsoleProofs` |

Definitions keep the names of the functions and fields they stand for;
`PROJECT.json` gives the lines. In the modules of threads a variable such as
`main`, `samp`, `mon`, `at` or `viewer` says where a thread is, and an action is
what the code does from one point where others can interfere to the next: a lock
or unlock, a send or receive, one read of the VM's memory. Each module also has
a few operators marked "Fault": plausible bugs, unused by any specification,
with which a definition can be replaced to see that a property notices.

*SubprocessSampler.* Entries of the table are the functions `spies`, `parent`,
`initialized`, `running`, `notified`; a spy's channels are `initQ`, `notifyQ`,
`sampleQ`, its thread `thread`. The queue of finished samples is left out except
for its being open. The map's iteration order is any order. `listed` holds the parents
a listing named until the loop over it has come to each child: an entry gets the
parent of the listing, which may have exited meanwhile, and may even have an entry
of its own. `Protected`, `DeadOpens` and `ListingFails` are what the operating
system may do. The start loop and the monitor never list at the same time, since the
monitor starts after that loop, so one `listed` serves both.

*JitResolver.* The VM's zone is a set of blocks up to `free`; it allocates, fills
in headers, and compacts. The caches are the fields of `SmalltalkSymbolizer`.
One step of the loop of `refresh_method_zone` is two actions, `WalkSize` for the
size in a header and `WalkName` for the name it leads to, and so is the scan for
one header; the VM acts in between, so that the size may be of one block and the
name of another. `seen` holds the size that was read. `kind` is the sort of VM:
one that only appends whole methods, for which every method must be named, and
one that does anything.

*StackSpy.* A stack, and the frame chain, is one value that the VM changes;
suspended, it changes nothing. Any call may fail (`Fail`), which drops the guard.
A thread that has ended between a listing and the look at it may have no id:
before the suspension that ends the sample (`ReadActivity`), after it the thread is
passed over (`Capture`).

*StackStitch.* A pure function in two steps, over every stack of frames of five
kinds.

*ObjectMemory, CogFrames.* A heap is a function from words to objects, which may
lie in each other in any way; a word outside it cannot be read. The selector and
the class of a method are read by four functions that call each other, as
`class_name_of_method` does; `Level` is what they give at one depth, from what they
give one level deeper, and `Readings` what they give with so many levels left, which
are `MaxDepth` + 1 at `depth` 0. A frame has two words, the caller's frame pointer
and what runs in it.

*SmalltalkTrace.* The walk goes on while the VM is suspended; when it has ended
and the VM goes on, the native stack is there too (`ResolveNative`), and the two
are spliced and trimmed. `TrueName` says of some frames what they run, and
`TrueAssumption` how the VM lays that out; TLC checks it of every memory of the run.

*NativeUnwind.* Each thread's stack is a mapping with an `rsp` in it; libraries
come and go at places. `ranges`, `loaded`, `info`, `binaries`, `shouldReload` and
`symbolCache` are the fields of the two structs. An address is cached only if it
stands for one function (whether it does is open), and another may be evicted
for it (`CacheSymbol`).

*Recording.* Two threads and a bounded channel. One sample of a recording may be
marked, to follow it from the moment it is taken.

*Command.* A world is a command line with processes of five kinds, by what there is
to see of them in the two checks of a search: `name_looks_like_vm`, which looks at names
(`Named`), and `SmalltalkProcessInfo::new`, which succeeds if the executable has a
VM's symbols *or* a VM's name in its path (`Accepted`). A `vm` passes both; so does a
`namesake`, which has the name in its path and none of the symbols; a `hidden` one
passes only the second and a `lookalike` only the first. A process given by its pid,
or dumped as a child, has to pass the second only. Processes start during the search
and during a dump; `fresh` are those that were not there when the dump began.
`refused` notes that the OS has refused to kill the program, an error that `stspy_main`
does not look at. `calls` is the stack of calls of `write_traces`. A recording is
a command of `Command`, step by step; what `dump` reads of a process is one sample.

*Recorders.* All three recorders are given the same traces, so that their
results can be compared; `log` keeps those of each thread, for the properties. An event
has no time stamp. A frame has a name, a file name, a module and a line. `Shown` is
the part of it that an event or an entry of speedscope shows, which is not the module;
`Key`, by which speedscope looks it up, is the whole frame but for a line that is not
shown. The flame graph shows the short file name, `Short` of the file name: a function
that may give two files one name, or be the identity (`full_filenames`).

*Console.* `todo` holds the increments one sample asks for: one for each error
and one for its traces. `seen`, `fresh`, `asked`, `pressed` and `waiting` are
history, for the properties.

## 3. What TLC checks

Runs that pass:

| Run | Checks | Instance and bounds |
|---|---|---|
| `sampler_safety` | `SamplerInv` (with `TypeOK` and `NoStaleAnswer`), `SampleComplete`, `InfoCurrent` | root and two children, symmetric; `Retries = 1`. Two children give lineages, orders of asking and gathering, and one that starts while another answers. The consumer stays until sampling is over (`LeavesEarly = FALSE`): leaving early is in the next run |
| `sampler_threads` | `NoStaleAnswer`, `RefinesRounds`, `NoSpyReplaced`, `DropReturnsUnlessPanic`, `EndsWithProcesses`, `NoThreadLeft` | root and one child, `Retries = 2`, listings may fail. One child reaches every state of a spy, and two attempts make a retry |
| `jit_names` | `ResolverOK`, `NeverAnotherMethod`, `AlwaysNamed`, `Answers` | two methods of lengths 3 and 2 in a zone of 5 granules (`Base = 1`, `Limit = 6`), so that after a compaction a method lies across the border of two old blocks; `EntrySpan = 3` reaches beyond the base |
| `spy_sample` | `SpyOK`, `SampleAtOneInstant`, `Returns` | two threads, two contents, `MaxRetries = 2` |
| `stitch_traces` | `InOrder`, `NoMethodTwice`, `NothingElseLost`, `RootedInSmalltalk`, `WalkTrue`, `NamesTrue`, `CallersShown` | three families of memories. *Stitching:* every native stack of up to five frames (`MaxNative`) with every chain of up to two (`MaxChain`); a stack of four methods is deep (`Deep = 3`, as in the code). *Walking:* three frames linked in every way, cycles and unreadable words included; the walk ends at `FrameLimit = 4`, in the code 200, which a cycle reaches. *Naming:* a method or a block up to four deep, of a class or its metaclass, with every two literals that could be taken for a class; `MaxDepth = 4`, as in the code. The last two meet native stacks of one frame (`FewNative`) |
| `unwind_mappings` | `UnwindOK`, `CopiesRecover`, `NewPlacesGetInfo` | two threads, one place, two libraries, of which one has unwind info; stacks within `Top = 3`, copies of `Window = 2`, a refresh every `Interval = 2` captures, `MaxChanges = 2` changes |
| `record` | `RecordingOK`, `AtMostOneAfterControlC`, `NothingLost`, `OnlyVm`, `ProgramEnded`, `CommandOK` (with `DumpWhole`), `Ends` | a program recorded without a limit and with one of three intervals (`Limits`), `MaxQueue = 2`, idle threads recorded or not; the search among three processes, two of them of any of the five kinds, which start and exit meanwhile; the dump, in both formats, of trees of up to three processes, one of which may be no VM or start meanwhile. Three are a child with a child, and two of one process |
| `recorders` | `SlicesAreStacks`, `ProfilesDecode`, `FormatsAgree`, `SlicesGoOn` | two threads, three traces (`MaxTraces`) of up to two frames (`MaxDepth`) and up to three added ones; one function seen on two lines, in two modules, and in two files of the same short name, of which one has no line |
| `console` | `ConsoleOK`, `KeysShown`, `DrawnIfLargeEnough` | three samples (`MaxInputs`) of five kinds, a refresh after three counts or at the second (`Refresh`, `Quick`, in the code `refresh_seconds` and 10, 100, 500), terminals on both sides of the two limits |

Deadlock is checked where the system never stops by design: in the sampler,
`jit_names` and `unwind_mappings`, whose bound on changes stops the VM and not
the profiler. A command, a spy without a VM, a trace once stitched, a file once
written and a console that has ended do stop.

Of these runs `unwind_mappings` (about 930,000 distinct states), `recorders`
(780,000) and `record` (680,000) are the largest; `spy_sample` has 260,000.

*What the less obvious properties say.* Names that end in `OK` or `Inv` are
conjunctions: the types of the variables, and the invariants of the module that
are named in it. `RefinesRounds`: with its threads, mutex
and channels, the sampler does what `SamplingRound` says: no round ends with a
request or answer under way. `SampleAtOneInstant`: a sample implements
`AtomicSample`, so all stacks and the chain in it were there at one moment. `NeverAnotherMethod`
holds unless the zone was compacted since the ranges were last cleared or
the pc was captured; what happens then is in section 6. `NamesTrue` holds for
blocks up to `MaxDepth - 1` deep, or `MaxDepth - 3` on the class side, three and one
in the code; see section 6 too.
`InfoCurrent` says that a cached process chain is the one `get_process_info` would
compute now. It does not say that the parents in it are alive: the parent in an entry
is that of a listing, and may have exited between the listing and the insertion; what
holds is that such a parent has an entry already or will never get one.
`OnlyVm` is about what passes both checks, not about what is a VM: of a lone `namesake`
st-spy decides that it is the only VM (section 6). What it promises is that no other
process that passes them was there for all of the search.
`ProgramEnded` is about the ends `stspy_main` comes to itself. It does not cover a
Control-C that kills st-spy before the recording has its handler (phase `killed`), nor a
kill that the OS refuses, which the code ignores.
`DumpWhole`, in `CommandOK`, says that a dump with subprocesses that ends well has printed
every process that was there when it began and is still below the target; one that
starts during the dump is printed or not, as its parent's children were listed after or before. `KnownTrue`, in `UnwindOK`, says that what is remembered of a
place, however long ago it was read, is of the library that lies there. `SlicesAreStacks`
replays the events as a viewer does. `ProfilesDecode` says that profiles decode to the
traces, and counts the table: one entry for each frame as it is shown *and* module it
came from. Two entries may show the same, then, when a function of one file is in two
modules. `FormatsAgree` compares a flame graph with the decoded speedscope profiles,
read with short file names: stacks that differ only in the directories of their files
are one line of the flame graph and several stacks of a profile. `TablesTrue`, in `ConsoleOK`,
compares both tables with a count over all traces since the last reset.

Runs that find a disagreement between the code and what it says:

| Run | Property | What TLC shows |
|---|---|---|
| `sampler_poisoned` | `DropReturns` | A failed listing of children panics the monitor with the mutex held (`expect`); the sampling thread then spins on a poisoned mutex and dropping the sampler never returns |
| `stitch_skipped` | `SkippedAppear` | A method caught by the unwinder beyond the splice point is cut off with the native frames and left out of the chain because it "already" appears |
| `jit_thaw` | `NamedAsFrozen` | Names are read out of the running VM for pcs copied while it was suspended, which is not frozen data: after a compaction in between, a frame gets the name of the method that lies there now |

### Fairness

Weak fairness is given to threads, never to the operating system, the VM, the
user or the consumer: `WF` of each spy, of the start loop, of the monitor and of
the sampling thread's round; of both threads of a recording and of `stspy_main` around them; of the spy's
calls and of `resolve_jit_pc`; of the sampling in `NativeUnwind`, since the sampler
asks again each tick. A thread that can run does so in the end: what it waits for
is a channel, a timer or a system call that returns. Strong fairness is given in
one place, the sampling thread's taking of the mutex (`SamplerLock`): the mutex
is not fair, but the monitor lets go of it every tick for the length of a sleep,
so a thread that tries again and again gets it. The monitor gets no such promise. `SmalltalkTrace` and `Recorders`' invariants need
none: that a walk ends is `OnChain`, a bound.

## 4. What is proved

TLAPS checks these for all values of the constants that satisfy the named
assumptions (every set of processes, threads, methods, libraries or keys, every
zone and memory, traces of every length, every bound); the assumptions are the
ones TLC evaluates in the runs.

| Module | Theorem | States |
|---|---|---|
| `SubprocessSamplerProofs` | `SamplerTypeCorrect`, `SamplerInvariant`, `AnswersAreFresh` | `[]TypeOK`, `[]SamplerInv`, `[]NoStaleAnswer` |
| | `NobodyWaitsInVain` | `[]WaitsEnd`, a part of `SamplerInv` |
| | `SamplesAreComplete`, `InfoStaysCurrent`, `NoSpyIsCutOff` | `[]SampleComplete`, `[]InfoCurrent`, `NoSpyReplaced` |
| | `SamplerImplementsRounds` | `RefinesRounds` |
| `JitResolverProofs` | `KnowledgeMirrorsZone`, `WalksAreComplete` | `[]ResolverOK`, `[]WalkComplete` |
| | `NoMisattribution`, `EveryMethodNamed` | `[]NeverAnotherMethod`, `[]AlwaysNamed` |
| `StackSpyProofs` | `SpyInvariant`, `SamplesAreAtomic` | `[]SpyOK`, and, for the blocking strategy, `SampleAtOneInstant` |
| `SmalltalkTraceProofs` | `StitchesRight` | the five properties of stitching below, of `StackStitch` by itself |
| | `WalksAreTrue`, `FramesAreNamed` | `[]WalkTrue`, `[]NamesTrue` |
| | `TracesAreInOrder`, `TracesRepeatNothing`, `TracesLoseNothingElse` | `[]InOrder`, `[]NoMethodTwice`, `[]NothingElseLost` |
| | `TracesShowCallers`, `TracesAreRooted` | `[]CallersShown`, `[]RootedInSmalltalk` |
| `NativeUnwindProofs` | `UnwindInvariant` | `[]UnwindOK` |
| `CommandProofs` | `RecordingCorrect`, `ExitLosesNothing`, `ControlCStops` | `[]RecordingOK`, `[]NothingLost`, `AtMostOneAfterControlC` |
| | `CommandCorrect`, `FindsTheOnlyVm`, `NoDanglingProgram` | `[]CommandOK`, `[]OnlyVm`, `[]ProgramEnded` |
| | `CommandRecords`, `CommandRecordsAll` | a command's steps are steps of `Recording` or leave it alone, so the first three hold in it |
| `RecordersProofs` | `EventsNest`, `ProfilesAreTraces`, `FormatsCountAlike` | `[]SlicesAreStacks`, `[]ProfilesDecode`, `[]FormatsAgree` |
| | `FramesStayOneSlice` | `SlicesGoOn` |
| `ConsoleProofs` | `TablesAreTrue`, `KeysAreShown`, `LargeTerminalsAreDrawn` | `[]ConsoleOK`, `[]KeysShown`, `[]DrawnIfLargeEnough` |

Each proof is of an inductive invariant, one step for each action.

*SubprocessSampler.* `NoStaleAnswer` alone is not inductive: an answer is fresh
because requests exist only between `notify` and `collect` for entries still to
be collected (`RequestsOfRound`); that these entries are the sampling thread's
alone needs the mutex (`MutexHeld`) and that the two threads start after the
table is built (`ThreadsStarted`); and that a new thread finds empty channels
needs `AttachedFirst`. A sample is complete because an entry that runs was
either asked or has answered at each point of the round (`Gathered`). A spy
is replaced only by the start loop, which comes back to entries that have given
up (`OldEntries`). That a cached process chain stays right is about what is
*not* going to happen: no ancestor of an entry gets an entry later. A parent that a
listing names may exit before its child gets its entry. But it is in the listing
too, and was born, so outside the loops over a listing every parent has an entry,
or has been passed over and never gets one (`TreeKnown`); the same then holds
along the chain (`InfoSettled`). `SamplerInv` is the conjunction of all these,
and of `WaitsEnd`, which says of states what freedom from deadlock is: each thing
a thread blocks on is there, or is owed by a thread with work to do, or was lost
with the thread that owed it, whose channel is then closed. It rests on
`AttachedFirst` (a request goes only to a spy that reads them), on `OldEntries` (a
spy that reported its failure has ended) and on `MutexHeld`. That the blocked
thread does move on is liveness, and stays with TLC.
Refinement maps each action to a step of `SamplingRound` or a stutter under it.

*JitResolver.* `NeverAnotherMethod` needs that ranges and remembered names mirror
blocks (`RangesMirrorZone`, `CacheMirrorsZone`), that two blocks never overlap
(`ZoneOK`), and that the block sampled stays (`TargetThere`). `WalkComplete`
needs `WalkInv`: all below the walk, or the cursor when no walk is on, has been
read, also after a walk that got stuck. Between the two reads of a header,
`SeenThere` says what is still true of the size that was read. `AlwaysNamed`
rests on `AppendInv`, what holds for a VM that only appends: its blocks lie
without gaps, each cursor is on the border of two, no walk gets stuck, and a pc
below the bound that was scanned is never taken for a trampoline.

*StackSpy.* While the VM is suspended copies are true and complete (`CopiesTrue`);
it is suspended only between the listing under the lock and the resume
(`SuspendedOnlyWithin`); what is resolved is what was copied (`TracesOfCopies`).
`SamplesAreAtomic` maps the resume to the moment the abstract sample is taken,
and assumes `Blocking`: without the lock the theorem is false.

*SmalltalkTrace.* A walk stays on the chain of callers and names its frames in
their order, for every memory, every chain and every limit. `WalkTrue` needs, to
be inductive, where the walk stands: while it goes on, `fp` is the caller of the
last frame walked over (`AtCaller`). How a frame gets its name does not matter
to it, so nothing is assumed of the heap.

`NamesTrue` is about the heap, and about nothing else of the walk but that frames
walked over could be read (`Mapped`). The four functions that read selector and class
call themselves and each other one level deeper each time, so what they give is one
recursive function of the number of levels left (`Readings`); that it exists, and
what it is at a level, is by induction on the numbers (`ReadingsUnfold`). By
induction along the codes from the method inwards (`CodesAreNamed`), a code that is
*j* blocks inside its method has the selector as soon as *j* + 1 levels are left, and
the class with *j* + 2, or *j* + 4 on the class side (`Way`), because the last literal
is looked at first and what it leads to is there. The other literals may be anything.
What is assumed of the VM's objects is `TrueAssumption`, of the frames for which
`TrueName` says what they run: a method ends with its selector, or with its state
that has it, and the binding of its class, of a class with the class's name, of a
metaclass with a metaclass that has its class in the sixth and last slot; a class has
its name in the seventh; a block ends with the code around it. These are the places
where the code looks (`smalltalk_symbolizer.rs`, lines 662 to 831).

*Stitching* (also in `SmalltalkTraceProofs`). What a stack is spliced and trimmed to is a function of the native
stack and the chain, so its invariant (`StitchInv`) only says that the frames are
these, or what the one or both passes make of them; the properties are lemmas
about sequences of any length. They need induction. The theorems of the library
that take an operator cannot be used here, but every set of numbers has a least
one (`LeastNumber`, from `WFMin` and `NatLessThanWellFounded`), and with the set
of the lengths at which a statement fails this is induction over sequences. So what
`Only`, which keeps the frames that pass a test, computes is found by the place
each kept frame comes from: in order (`PartOf`), and none lost. The trimmed stack
is a prefix of the spliced one, up to the last frame to be kept.

*NativeUnwind.* `UnwindOK` is inductive as it stands. What is remembered of a place
from which nothing was unmapped is true (`KnownTrue`), so an address that found no
binary (`MissedOnce`) will find one after the reload it has asked for.

*Command.* The marked sample of a recording is always in the sampling thread's hand,
the channel or the main thread's hand (`MarkFound` of `RecordingInv`), and the
channel is empty and its sender gone when the loop ends for the process's exit
(`ExitedOK`). Of the command around it, `SearchOK` says that what passes both checks
and stays was found or is still to be looked at, and that only such processes are
found. A dump is a stack of calls (`StackOK`): a
process waits in one of them, or has one, or had one, so none is printed twice.
`TreeOK`: the dump knows a process only as the child of one whose children were
listed, and then all of that one's children but those yet to start; a process that
was there before the dump has no parent that was not (`ParentsFirst`); so when no call is
left, what was printed has all children of what it holds, but those that have started
meanwhile (`PrintedAll`). That what lies below the target is
then printed is by well-foundedness: of those not printed, one has a parent that is
not among them. This needs `Acyclic` of `WorldAssumption`, which is so since a process's
parent was there before it; and that the dump stays within the target's tree, so
that it never comes back to it, needs it too.

*Recorders.* The three properties speak of folds over a whole recording; the
invariant (`RecInv`) says what is left of it: the slices that are open are those
of `prev_traces` (`PrevIsOpen`), which is what the log ends with (`PrevIsLast`);
table and index are of each other (`TableOK`), so an index goes on to stand for the
same frame however the table grows (`Grown`), and a key tells apart exactly what the
shown frame and the module do (`KeyTells`), so the table is as long as there are such pairs; and the counts are those of the places
of the log (`CountsAreOfLog`). The folds are recursive functions, each used by what it
is of the empty sequence and of one with an element more (as `ReplayOfAppend`), and by
the induction over sequences above. What the events of one increment do to the
slices is `IncrementShows`: those ended are what lies above the common part, and those
begun put the rest of the new trace on it, whatever the frames, a function that
calls itself included. `MergedIfShownAlike` is why frames that are merged are those
that look the same in the file. The order in which the map's threads come out has
each of them once (`OrderHasAll`), which needs that there are finitely many.

*Console.* `dirty` is set exactly while a key is still to be shown, and keys are
waited for only within an increment (`KeysInv`). That the two limits on the
terminal's height suffice is arithmetic over `HeaderLines` (`HeaderBound`). The tables
are those of all traces since the last reset (`StatsInv`): `asked` is set exactly
while `reset` is (`AskedInv`), so a key pressed in the middle of an increment
resets neither too early nor never; that a trace adds one for each of its keys, and none
twice, is `UpdateAddsTrace`, and that all traces of a sample do is by induction
over them (`TracesCount`).

Only model-checked is liveness: `DropReturnsUnlessPanic`, `EndsWithProcesses`,
`NoThreadLeft`, `Answers`, `Returns`, `CopiesRecover`, `NewPlacesGetInfo` and `Ends`,
which is outside the prover's reach (fairness and `ENABLED`). Every invariant and
every action property of the passing runs is proved.

## 5. What is assumed or left out

- The VM: a compaction is one step and overwrites what it leaves above the free
  start; the zone's base stays; no code decodes as a method header. A block's
  header is read in two steps, its size and its name; that the VM may write
  between the fields that make up the name is left out.
- While suspended, the VM is not killed, and st-spy itself is not killed: a
  signal that ends it there would leave the VM suspended, and no code is meant to
  prevent that.
- `symbol_cache` (`native_stack_trace.rs:141`) is never cleared, so an address
  keeps its name when another library comes to lie there. No property says
  otherwise: what the symbolicator then answers is not in the repository.
- Reading the mappings of a process does not fail in `NativeUnwind`; a copy
  of a stack fails when nothing at its end is readable; libraries lie at
  disjoint places; the symbolicator's reload sees the mappings as they are.
- Pids and thread ids are not used again while they are remembered, and one listing
  of the processes is one reading of the process table.
- Times: the timer's lateness and catching up, progress bars, time stamps,
  weights. Intervals are not counted in a recording without a limit.
- The text of names and files; the kind of a frame is modelled, its line, and in
  `Recorders` that files have short names and modules are not shown.
- In `StackSpy` the frame chain of the VM is one value; `CogFrames` is how it is
  walked. There, `resolve_jit_pc` is taken to find what is at the address, which
  is the subject of `JitResolver`.
- Not modelled: the binary parser, `read_vm_version` and the parsing of the
  command line (functions of one input), the types of stack traces (records and
  their formatting), dropping root permissions, the captured output of the
  program, and what `main` says of an error. In the native unwinder, the walk
  over a copied stack, the backend with libunwind and the symbols themselves,
  which are libraries'.
- In `Recorders`, a trace passed over because its thread is idle changes nothing.
  In a Chrome trace its slices therefore stay open while the thread is idle, and
  those of a thread that has ended stay open to the end of the file.

## 6. Differences noticed without a run of their own

- `sampler.rs:241`, "all spies have stopped": `running` is also false of a spy
  that is still attaching, so sampling may end while one starts.
- `smalltalk_symbolizer.rs:168`: after a compaction that leaves the zone no
  smaller, remembered names and ranges answer for other code.
- `smalltalk_symbolizer.rs:192`: a method within `MAX_JIT_ENTRY_SPAN` of the last
  trampoline whose header cannot be read is named as that trampoline.
- `smalltalk_spy.rs:149`, against `stack_trace.rs:17` ("active when sampled"):
  activity is read before the VM is suspended, and a thread that started since
  counts as active.
- `smalltalk_symbolizer.rs`, the depth limit of `class_name_of_method`: for a
  block in a block on the class side, the depth is used up on the way to the
  name; the block gets no class, or that of another binding among its literals.
- `walk_cog_frames` stops at a frame that is its own caller; a cycle of two
  frames or more is walked until the limit of 200.
- `smalltalk_spy.rs:257`: C frames beyond the boundary are cut; and the root that
  the splice appends is trimmed again with `hide_native_roots`.
- `framehop_unwind.rs:112`, against `doc/low-pause-unwinding.md:67` ("newly
  dlopen'd libraries still get unwind info"): a library mapped where another was
  unmapped never does. `NewPlacesGetInfo` is the part that holds.
- `console_viewer.rs:254`: on a terminal of fewer than 18 lines with the help
  shown, or of fewer than 35 that is at most 50 columns wide, the number of rows
  goes below zero (`DisplayUnderflow`): a panic in a debug build, empty lines
  without end otherwise. Without the help the limits are 8 and 15 lines. A
  warning raises the first of each by one and the second by two.
  `DrawnIfLargeEnough` says where it cannot happen.
- `main.rs:252`, against the message at `main.rs:185`: the sample that reaches the
  limit is thrown away, so a recording of *n* seconds has one sample less than
  *n* times the rate. `CountsOK`, in `RecordingOK`, states what it has.
- `smalltalk_process_info.rs:118`, against the comment at line 79 that the inspection
  confirms "it's really a VM": a VM's name in the path of an executable is enough,
  without any symbol. A process of that name alone may be found as the only VM.
- `stspy_main`: a VM whose names do not look like one's is found by its pid only.
- `main.rs:474`: an error of `kill()` is not looked at, and the program runs on.
- `speedscope.rs:223`: the table is keyed by the whole frame, module and short file name
  included, which an entry does not show: the same function of the same file, mapped
  as two modules, gets two entries that look alike.
- `flamegraph.rs:57`, against `speedscope.rs:182`: short file names in one, full ones in
  the other; same-named files in two directories are told apart in one format only.
- `dump.rs`: a child that is no VM, or that exits meanwhile, makes the dump of
  the whole tree fail; `dump.rs:68` panics when there is no list of children.
- `main.rs`: Control-C before the recording has its handler, and a panic, end
  st-spy without ending the program it started.
- `main.rs:69`: every error of a sample counts as a sample of its own in the
  console, which halves the error rate shown when every sample fails.

## 7. Plan

Done: the sampler; the parts of one sample (resolver, spy, walk, names,
stitching, unwinder); what is done with samples (recording, recorders, console);
the command around them and dump.

What could be modelled next:

1. *Timer*: lateness and catching up, composed with `Recording`.
2. *A composition* of `StackSpy` and `JitResolver`: which frames of one sample
   get which names when the VM goes on, beyond the single pc of `jit_thaw`.
3. *The end of sampling* (`sampler.rs:241`) while a spy attaches, as a run that
   shows the disagreement with its comment.

Nothing of what the runs check is left to prove but liveness.
