# mdbg: specifications, model checks and proofs

mdbg is a ptrace debugger for x86-64 Linux. This directory models what its code
does to a traced program and to its own tables, and what it concludes from debug
information and core dumps. It checks the models with TLC and proves part of
them with TLAPS. Paths are relative to the repository root.

## The system

| part | source | here |
|---|---|---|
| task registry, attach discovery | `src/process` | `TaskRegistry`, `Debugger`, `Attach` |
| debugger core: breakpoints, displaced steps, signals, threads, exec, detach | `src/debugger`, `src/breakpoints/breakpoint.hpp` | `Debugger`, `BreakpointService`, `DebuggerService` |
| memory access and `set memory` | `src/ptrace`, `src/debugger/memory_mutation.cpp` | `InferiorMemory` |
| fork policies, retained processes | `src/debugger` | `ProcessDomains` |
| hardware watchpoints | `src/debugger`, `src/ptrace` | `Watchpoints` |
| user and deferred breakpoints | `src/breakpoints/user_breakpoint_registry.hpp`, `src/loader` | `UserBreakpoints` |
| step, next, finish | `src/source` | `SourceMotion` |
| command loop | `src/cli/main.cpp` | `CliSession` |
| unwinders | `src/unwind`, `src/dwarf/eh_frame*` | `Unwind`, `CoreSession` |
| variables and inlining | `src/dwarf/source_lookup*` | `LocalScopes` (which declaration a name means) |
| core-dump sessions | `src/snapshot`, `src/cli/core_main.cpp` | `CoreSession` |

One `Debugger` owns one active `Process` and, with the policy `both`, up to two
retained ones. A motion command resumes exactly one thread, blocks in `waitpid`,
and returns when `wait_and_classify` has turned a wait status into a stop for the
user. The kernel runs the resumed thread meanwhile: it can hit a breakpoint or a
watchpoint, take a signal, clone, fork, exec or die, and other threads' statuses
can be reported in several orders. Above the debugger the loader controller, the
source motions and the command loop each keep state that has to follow those
stops. The unwinders, the scope search and the core-dump session read without
changing anything: their models compare what they answer with what really
happened in a program that the model runs, or with the scoping of the language.

## Modules

### The live debugger

* `TaskRegistry`: `task_states_`, the aggregate state and the choice of the
  current thread, as operators.
* `Debugger`: one traced process. Kernel side: `kst` and `kev` (the state of a
  thread and its uncollected wait status), `rip`, `mem`. Ghosts: `prog`, the
  bytes the program and the user mean to be in memory, and `owed`, a thread that
  ran a managed INT3 and was not rewound. Process: `tasks`, `cur`, `pstate`.
  Debugger: `bp` (`breakpoints_by_address_`), `nextId`, `pend`
  (`pending_breakpoint_step_`), `pthr` (`pending_thread_starts_`), `psig`
  (`pending_signals_`), `stop` (`stop_info_`), and `call`, the command that is
  blocked in the wait. There is one action per public operation up to its wait
  and one per kind of wait status after it, because the code is sequential
  between two waits. Instructions are one byte long; addresses are
  `0 .. CodeSize-1` and `CodeSize` is an address without code.
* `BreakpointService`: what breakpoints promise, without INT3, saved bytes or
  displaced steps. `DebuggerService` gives the refinement mapping.
* `Attach`: `Process::attach` and `Debugger::attach` against a target that goes
  on running. Kernel side: `kst`, `traced` and `stopq` (a SIGSTOP not delivered
  yet). Process: `tasks`, `cur`, `pstate`. The sweep: `pass`, `todo` (what is
  left of `observed`) and `pc`, the point between two system calls at which the
  target can act. Whatever throws ends in `cleanup`, in the same step. A
  listing of `/proc/<pid>/task` is one step: a directory read that skips a
  living thread because another one died during it is not modelled. Its `Races`
  are `group_exit`, `leader_exit` and `signal`: another signal stops a thread
  before the SIGSTOP does.
* `InferiorMemory`: word-wise PEEKDATA and POKEDATA under breakpoint bytes and
  `set memory`, on an address space with holes. A `write_memory` goes byte by
  byte (`wr`), so it can fail half way. `want` is the history of what the program
  and the user stored. Assumed: the program does not write its own code.
* `ProcessDomains`: the processes of a session. `act` is the active domain, `ret`
  the retained ones; `ks`, `int3`, `armed` and `image` are the kernel's view of
  each process, `elf` and `user` what the command line keeps. A motion is a
  `continue`, the single step of a source motion (`step`), or its run to the
  temporary breakpoint `temp` (`run`), which it removes in a step of its own
  (`undo`) from whatever domain is active by then. A process has one
  thread here; `many` records that it created others, for which a handoff and a
  retained child are refused. The faults of an environment: `child_first` (a fork
  child's first stop overtakes the fork event), `kill` (SIGKILL from outside),
  `thread`, `exec_in_motion` (exec while `temp` is set).
* `Watchpoints`: slot 0 of the debug registers of every thread, the snapshot
  taken before it is programmed, and one software breakpoint, the other source of
  SIGTRAP. `Faults`: `refuse` (the kernel refuses a register write), `kill`,
  `clone`.
* `UserBreakpoints`: the user's entries over the debugger's table, and the
  deferred controller with its breakpoints on the entry point and on `r_brk`,
  over a library that comes and goes at either of two places. The debugger is a
  record `s` that the operators named after its methods transform; `s.ok` turns
  FALSE where the code throws. Faults: `managed` (a breakpoint is set in the
  library while it is loaded), `blind` (the library changes during `next` or
  `finish`), `window` (a signal stops the program between the change and the
  second call of `r_brk`), `exec_in_motion` (exec under `next` or `finish` while
  the temporary breakpoint is set).
* `SourceMotion`: `step`, `next` and `finish` over a small program (`MCMotion`)
  whose instructions carry source lines. `mo` is the motion under way, with its
  temporary breakpoint, return address and instruction count. The debugger below
  is reduced to the table, the displaced step and the classification of a stop.
* `CliSession`: the command loop. `frame` is the selected inspection frame, `elf`
  the ElfFile; a stamp (`key`, `rest`, `mem`) says when the data a frame was
  computed from last changed. `events` are what may happen beside plain stops.
  The policy child is left to `ProcessDomains`.

### Debug information and core dumps

* `Unwind`: a program runs (`MCUnwind`) and records its calls; in every state `bt`,
  `frame`, the RBP chain and the return address of `finish` are compared with them.
  An address carries the row of `.eh_frame` in force there: the register of the CFA
  (one the cursor keeps or not, or none) and the rules for the return address, RBP
  and RBX. `prog.cfi` is whether the executable has the section at all.
* `LocalScopes`: one unit of debugging entries, built entry by entry; what
  `print`, `locals` and `inline` find, against the scoping of the language. A
  caller is looked up at its call in a core (`CoreLookup`) and at its return address
  in the live debugger (`LiveLookup`).
* `CoreSession`: threads run, call, take signals on their own or an alternate stack
  and crash; the session unwinds them from the core (`MCCoreSession` has the
  programs) and keeps a selection.

### Conventions

The proofs are in modules named `...Proofs`; `MC...` modules hold instances for
TLC. Operators named as mutants are broken variants of the definition that
follows them; no specification uses them.

`ProcessDomains`, `UserBreakpoints`, `SourceMotion`, `CliSession`, `Unwind` and
`CoreSession` have a variable (`env`, `events` or `prog`) that is chosen in the
initial state from a set of environments or programs and never changes. One run
covers all of them, and a property that the code keeps only without some fault
says so in its own formula.

The kernel actions of `Debugger` (`Execute` to `FinishExec`) are external to the
code. They are written from what the code relies on in ptrace(2), and `Races`
selects which orders of reports occur:

* `child_first`: a new thread's first stop is collected before its creator's
  clone event;
* `group_exit`: `exit_group` or a fatal signal while other threads live;
* `leader_exit`: the leader exits before its threads;
* `late_exec`: exec while two or more other threads live.

All four are possible on Linux. `service` has none of them, `core_races` the
first three. A stop that is resumed before its
status was collected loses that status, as in Linux.

## Runs

Deadlock is not checked in any run: a session really may stop (killed, exited,
detached, or blocked in a wait that `NoEndlessWait` is about), and the readers'
programs end.

| run | instance | checks |
|---|---|---|
| `service` | 2 threads, 2 addresses, all commands but stepi, no races | `RegistryFaithful`: at the prompt the registry is what the kernel has; `NoEndlessWait`: a blocked command waits for something that can come; `ImplementsService`: `Debugger` implements `BreakpointService` |
| `core_races` | 3 threads, 1 address, with stepi, three races | `PatchDiscipline`: every byte is the program's or an accounted INT3; `SingleRunner`: one thread moves; `LiftedForOwner`: a breakpoint is lifted only for the thread stepping over it; `ReleasedPristine`: a released process has its own bytes; `SignalKept`: running one thread neither delivers nor drops another's signal |
| `attach` | 5 threads, 3 sweeps, registry of 4, all races, leader not the lowest id | `AttachComplete`: success has every thread; `FailedAttachReleases`: failure lets every thread go; `AttachEnds` |
| `inferior_memory` | words of 2 bytes, addresses 0..6 with holes at 4 and 6, 2 breakpoints, writes of up to 3 bytes | `ViewTrue`: memory under the INT3s is what was stored; `ReadTrue`: reads are exact |
| `watchpoints` | 2 threads, all faults | `AsFound`: debug registers are left as found; `HitReported`: every hit and no other stop is one; `BreakpointBack`: a hit on a displaced step puts the breakpoint back |
| `domains` | seven environments: parent and child with threads; parent and both; four processes with `child_first`; all policies with `kill`; three retained processes with `kill`; two addresses with `exec_in_motion`; two addresses under both | `DomainState`: domains describe their processes; `CliFollows`: entries and ElfFile are the active process's; `ReleasedClean`; `TracedOwned`: no traced process without an owner; `QuitEnds` |
| `user_breakpoints` | a library at 2 places; without faults, one good and one unknown name, or two names of one function and a breakpoint on `r_brk`; the latter with a breakpoint on the entry point and all faults but exec; `exec_in_motion` | `EntriesBacked`: entries, requests and the loader's monitoring hold exactly the breakpoints of the table; `RequestsFollow`: requests follow the library; `SafeDetach`: detach leaves no INT3, also after an exception |
| `motion` | four programs: nested and undecoded calls with exec; recursion; a line that loops; two threads in one function with waits that throw | `UserArmed`: at the prompt the breakpoints are the user's; `NoLineSkipped`; `ReturnsInFrame`: a return is that of the frame left; `MotionEnds` |
| `cli` | 2 processes of 2 threads, 4 changes; all events but `partial_write`; forks, execs, exceptions and half-done writes | `ValueTrue`: shown values are current; `ImageTrue`: the ElfFile is the selected process's |
| `unwind` | five programs: functions with and without RBP and CFI; frames found by RBX, R10 or an expression, and an undefined return address; all keep RBP, with the smallest span; a call that never returns; an executable without `.eh_frame` | `BacktraceTrue`: frames shown are calls made; `CutExplained`: a cut has a stated reason; `BtSound`: the fallback to RBP leaves no gap; `FinishTrue`: the return address of finish |
| `core_session` | three programs: 1 thread and 1 signal on either side of the stack; 2 nested signals; 2 threads and missing files | `FramesTrue`: frames and their registers are those of the activations; `ShownTrue`: so are functions; `SelectionOwned`: thread, frame and inlined call belong together |
| `scopes` | 5 entries, 3 addresses, 2 names, DWARF 4 and 5 | `PrintTrue`, `LocalsTrue`, `InlineOwned`: a name means the declaration the language puts in scope |

### Bounds

Two threads give every pair of owner and bystander; the third is needed only
where two deaths or a birth and an exec overlap (`core_races`). Two addresses
allow a hit at one while the other is installed, lifted, written or deleted, and a
write across both or off the end of the mapping. Two breakpoint ids (`MaxId`)
allow a delete and a re-add. Images are one with and one without an INT3 of its
own. One signal suffices because no code compares two. Three sweeps and a registry
one short of the number of threads let both limits of attach be reached as well as
missed; thread ids are reused, so the target can create threads for ever.

Three processes are an active one, a retained one and a newborn; a fourth meets
`kMaxProcessDomains`. A second breakpoint address there is a temporary breakpoint
beside the user's. A word of two bytes makes a write at its end reach a hole,
and three bytes cover a breakpoint with a byte on either side. A line that
loops meets `limit`, which stands for the 4096 instructions of the code. Four
changes are enough to select a frame, change process or memory, and print. Five
debugging entries are a function with a block or an inlined call in it, another
inside, and a declaration at two levels. Frame limits (`frames`) are reached by
recursion.

### Fairness

* `Attach!FairSpec`: the debugger takes its next step when it can (`Attacher`),
  and the kernel delivers a queued SIGSTOP to a thread that runs (`Stop`).
  Nothing is assumed of what the target does.
* `ProcessDomains!FairSpec`: a killed process can be reaped, and the loop of
  `~Process` goes on. Nothing is assumed of a process that was released.
* `SourceMotion!LiveSpec`: a resumed thread runs, `waitpid` returns what the
  kernel holds, and the loop of the motion goes on.

All other properties are safety.

## Where the code and its documents disagree

The exceptions written into the properties are behaviours of the code. TLC finds a
property named here violated once its exception, or the restriction of the
instance, is taken away; the behaviours without one are traces of the models. Of
the places given, the first is the code and the second the statement it departs
from. No run of this project is kept for them.

* With `stepi`: a single step that executes a managed INT3 is
  reported as `SingleStep`, neither rewound nor repaired
  (`src/debugger/debugger.cpp:972`, `docs/architecture.md:35`).
* `RegistryFaithful`, with `group_exit`: after `exit_group` the prompt lists threads
  that are dead (`debugger.cpp:588`, `docs/phase-2-roadmap.md:60`). With
  `child_first` a new thread is reported as a SIGSTOP and not as created
  (`debugger.cpp:962`, `docs/phase-2-roadmap.md:61`).
* `PatchDiscipline`, with `late_exec`: exec among three threads can lose its exec
  stop, and the old breakpoints stay in the table (`debugger.cpp:588`,
  `docs/phase-3-roadmap.md:11`).
* `AttachEnds`: a signal that beats the SIGSTOP leaves the
  SIGSTOP of the awaited thread queued; `wait_for(leader)` blocks on a dead leader
  whose exit is reported only after its other threads are gone
  (`src/process/process.cpp:159`). No document speaks of it.
* `TracedOwned`, `QuitEnds` and, in an attached session, `ReleasedClean`, with
  `child_first`: a fork child's early stop makes the wait throw, and the child stays
  traced without an owner, with what it inherited
  (`process.cpp:247`, `docs/phase-3-roadmap.md:28`). The exit of a launched parent that a handoff
  released is collected as an event of the session and ends it
  (`debugger.cpp:561`, `docs/phase-3-roadmap.md:67`).
* `CliFollows`, with the policy child: after a handoff the user can neither list nor
  delete the child's breakpoints
  (`src/breakpoints/user_breakpoint_registry.hpp:155`, `docs/phase-3-roadmap.md:69`).
* `ReleasedClean`, with `kill` in an attached session: a fork child killed before
  it is rejected cannot be detached and stays to be collected. The next wait throws
  on it with the attached process marked as running, and `~Debugger` releases that
  process without restoring its bytes (`debugger.cpp:891`, `README.md:9`).
* `CliFollows` and `ImageTrue`: a promoted process, an exec in the middle of a motion and
  a failed read after `process` leave the ElfFile of another image
  (`src/cli/main.cpp:469`, `517`, `991`; `docs/phase-3-roadmap.md:13` and `99`).
* `CliFollows` and `EntriesBacked`, with `exec_in_motion`: the temporary breakpoint
  went with the table that exec discards, so next and finish throw before
  `refresh_image`, and the user's entries and the ElfFile of the old image stay.
  Later motions and `info breakpoints` throw on such an entry and end the session
  (`source_step.cpp:83`, `user_breakpoint_registry.hpp:180`,
  `docs/phase-3-roadmap.md:13`).
* With the policy both and threads in `ProcessDomains`: the new thread's first
  stop is never collected, and no property is about it. `DomainState`, with `kill`: a handoff to a child that
  dies while the watchpoint is transferred. No document speaks of either.
* `RequestsFollow`: a library that goes during `next` leaves its request
  resolved (`src/loader/deferred_symbol_breakpoints.cpp:307`,
  `docs/phase-2-roadmap.md:19`). `SafeDetach`: a breakpoint in an unmapped library
  makes detach leave other INT3s (`debugger.cpp:471`, `README.md:9`).
  A hit at an address the controller failed to take is not reported
  (`deferred_symbol_breakpoints.cpp:243`, `README.md:84`). Two names of one function
  make `continue` throw; the detach that follows is clean.
* `ReturnsInFrame`: next and finish end in a deeper activation
  (`src/source/source_step.cpp:166`, `README.md:116`). An exec under
  next or finish ends the motion with an exception
  (`src/source/source_finish.cpp:104`, `README.md:100`).
* `ValueTrue`, with `partial_write`: a half-done `set memory` keeps the selected frame
  (`main.cpp:900`, `docs/phase-81-roadmap.md:18`).
* `BacktraceTrue` and `FramesTrue`: after a call that ends its function the next
  function's row is used (`src/dwarf/eh_frame.cpp:637`, `docs/architecture.md:17`).
  `CutExplained`: bt stops at a recursion through one call site and calls the frame
  invalid (`src/unwind/cfi.cpp:404`, `README.md:92`); rows it does not support cut it
  too. `FinishTrue`: without CFI at the stop, finish takes the word above any RBP that is
  readable for its return address, whatever the function keeps in it
  (`source_finish.cpp:41`). In a core, the
  frames behind an alternate stack that lies above the interrupted one are cut off.
* `PrintTrue` and `LocalsTrue`: a caller of the live debugger whose call ends a scope
  is looked up in the scope behind it (`source_lookup.cpp:760`); a core's callers are
  looked up at the call. No document speaks of it.
* An inactive block without a low and a high address hides an outer local
  (`src/dwarf/source_lookup_impl.inc:808`, `docs/phase-4-roadmap.md:55`). `LocalsTrue` leaves out inlined calls, `PrintTrue`
  does not: print and locals can disagree on a name
  (`src/dwarf/source_lookup_snapshot_impl.inc:593`, `docs/phase-29-roadmap.md:11`).

## Proofs

TLAPS checks them for every value of the constants that satisfies the named
assumptions. The inductive invariants were first checked with TLC, on instances of
two and three threads. Where a model takes the lowest thread or process, `begin()`
of an ordered map in the code, the proof shows that it exists: the order of the
natural numbers is well founded. Most leaves are first-order and go to Zenon
(`USE Zenon` at the head of the larger modules); those with arithmetic, records or
sequences name SMT.

**Debugger** (`TidAssumption`, `ConstantAssumption`; every set of threads,
addresses, bytes, images and signals). A theorem that is false under some race
excludes it, and TLC has a counterexample for each race excluded (for `late_exec`
with three threads and two addresses).

| module | theorem | shows | excludes |
|---|---|---|---|
| `DebuggerProofs` | `TypeCorrect` | `TypeOK` | |
| | `OneThreadRuns` | `SingleRunner` | |
| | `BytesAccounted` | `PatchDiscipline` | `late_exec` |
| | `LiftedOnlyForOwner` | `LiftedForOwner` | |
| | `SignalsKept` | the action property `SignalKept` | |
| `DebuggerServiceProofs` | `ReleasedIsPristine` | `ReleasedPristine` | `late_exec` |
| | `WaitEnds` | `NoEndlessWait` | all but `group_exit` |
| | `PromptRegistryTrue` | `RegistryFaithful` | all but `leader_exit` |
| | `DebuggerIsService` | `ImplementsService` | `stepi`; `child_first`, `late_exec` |

Each invariant builds on the ones before it; a step is preserved by one lemma for
the kernel's actions, one for the user's and one for `wait_and_classify`.

* `RunInv` says that a thread that runs is the only one, that the debugger waits for
  it, and that there is nothing but clone events to collect meanwhile; that any other
  report is alone, or no thread is left to be resumed; and that exec leaves one
  thread. `SingleRunner` alone is not inductive: a second report could let the
  debugger return while the thread runs.
* `OwnerInv` adds that the leader's death is reported last and the leader is
  registered until then, that only the breakpoint of the pending step is lifted,
  and that no other thread runs while a step is pending. `SignalInv` adds that a
  pending signal belongs to a stopped thread without another report (or to the
  leader that an execve in progress took away), and that the displaced step is taken
  without a signal to deliver. Both rest on `RunInv` and on a pending step having an
  address and a thread.
* `ControlInv` is what byte accounting needs: from the execve to the collected exec
  stop the thread is alone, the command keeps waiting, and nothing is collected that
  would make the debugger write.
* `IInv` adds `TableOK`: installed breakpoints exist, a pending step has an
  address, and after exec memory is the new image until the exec stop is
  collected. `PatchDiscipline` is not inductive without it: a displaced step or an
  exec can break it from states that never occur.
* `RegistryInv` relates registry and kernel also while the debugger waits. Its
  part `Release` holds under every race but `late_exec`: what is registered as
  stopped is in a ptrace stop while threads live, and whoever gets control back
  finds a current thread that is stopped. This is what lets the last cleanup write
  every byte back. Its part `Births` needs the order of clone events: a thread
  registered as running moves or has a report, every death but the leader's is
  reported at once, and there is one report at a time unless threads die together.
* `ServiceInv` is what the refinement needs besides. A trap that ends a `continue`
  is the debugger's own INT3 exactly if the thread is owed a rewind, so the rewind
  hits these and no INT3 of the program's own; the thread of a displaced step
  stands on the lifted breakpoint until it has run one instruction; a thread whose
  creation is not reported yet has run nothing.

`DebuggerIsService` then maps every step. An instruction is `Run` of the service if
it is the program's, and a stutter if it is the debugger's INT3, because the mapped
program counter is rewound by `owed`. The stop that reports a breakpoint is `Tell`.
Adding, removing, writing, exec and the end of the session are the service's own
actions, and everything else (births, deaths, signals, selection, lifting and
putting back) stutters. A `stepi` that lands in a managed INT3 is neither rewound
nor told, and a new thread that is taken for stopped too early is moved
without its report: with either the service is not implemented.

**Attach** (`TidAssumption`, `AttachAssumption`; every leader, bounds and races).
`AttachHasEveryThread` (`[]AttachComplete`) and `FailedAttachLetsGo`
(`[]FailedAttachReleases`) follow from `AttachInv`. `Registered` relates registry
and kernel: a thread registered as stopped cannot run, only the awaited one is
registered as running, and a living traced thread is registered. `Swept` says that
after a complete second listing every thread is registered as stopped; it is kept
because then nobody is left to create one. `CleanupStep` is the one argument for
all throws.

**InferiorMemory** (`MemoryAssumption`; every word size, address space, set of
holes and breakpoints). `ViewSafe` (`[]ViewTrue`), `TrapsSafe` (`[]TrapsInPlace`),
`PendingSafe` (`[]PendingRespected`) and `ReadSafe` (`[]ReadTrue`). `IInv` adds `PendingTied`: the pending step
is the one entry without its INT3, its saved byte is the program's, and the write
in progress does not cover it. Without the last a half-done write could store
under a step that is about to put its INT3 back. `ReadTrue` needs no invariant, only
what the loop of `read_memory` computes: `ReadExact` shows it for reads of every
length, where the run has two words. The number of words is the least one that
covers the length (`WordCount`). The joined words satisfy a recursion whose solution
has a closed form, the bytes up to the end of word `k`; another solution would
differ from it at a least `k`, and cannot.

**Watchpoints** (`WatchAssumption`; every set of threads and faults). `AsFoundSafe`
(`[]AsFound`), `WatchArmedSafe` (`[]WatchArmed`), `HitReportedSafe`
(`[]HitReported`) and `BreakpointBackSafe` (`[]BreakpointBack`). `IInv` says that the
watchpoint's owner is a registered thread, that registers of others are as found,
and that the snapshot is what the owner would have. `HInv` adds `NoStaleHit`:
between two commands no hit of an earlier run is left in the owner's DR6. `LiftInv`
ties the lifted breakpoint to the pending step in the middle of a command too, and
says who can be dead while another thread is to be stepped: the thread that ran,
or all of them.

**ProcessDomains** (`DomainAssumption`; every environment, so any number of
processes and addresses, and all policies and faults). `EveryDomainTrue`
(`[]DomainState`), `CliFollowsProcess` (`[]CliFollows`), `ReleasedRunsClean`
(`[]ReleasedClean`) and `NoStrayTracee` (`[]TracedOwned`). `DomainState` speaks of
processes that live while nothing is killed from outside; `DomainOK` is the form
that survives a handoff interrupted by SIGKILL: fewer INT3s than the table says,
never more. `IInv` adds that retained processes are stopped with everything
installed, when a motion is over a lifted breakpoint, that until a source motion has
ended the user's entries are the table without the temporary breakpoint, and `Alone`:
an attached session keeps its one process and ends with that process stopped or dead,
so that the cleanup reaches it, unless the last wait threw. `CliFollows` excludes `exec_in_motion`, and `ReleasedClean` an attached
process that is abandoned after a SIGKILL from outside and fork children whose first
stop came too early.

**CliSession** (`CliAssumption`; any number of processes, threads and images,
every set of events). `ValuesAreCurrent` (`[]ValueTrue`) holds because a selected
frame is current in every state, not only when it is printed (`FrameTrue`).
`ElfFollowsProcess` (`[]ImageTrue`) needs that the process selected at the prompt
is alive and that a fork does not give its id away.

**SourceMotion** (`MotionAssumption`; every program, with any number of threads,
breakpoints and instructions, and every instruction limit). `UserStaysArmed`
(`[]UserArmed`). The assumption says that a program is well formed: its threads
start at instructions, and its jumps and calls lead to instructions. `UserArmed`
speaks of the prompt, and what a motion gives back there depends on what happened
before. `IInv` adds `Control`, that a motion which waits remembers the temporary
breakpoint in the table and has none between two resumptions; `Displaced`, that the
call which waits is a step over a breakpoint exactly if one is lifted, so every
collected stop puts that INT3 back before another one is lifted; and `TableOK`, that
also in the middle of a motion every entry, the temporary one included, is in memory
but for the lifted one, which is the user's. `TableAfter` is the one argument for
all kinds of stops. After a wait that throws with the task still running no further
command is taken, and `UserArmed` says nothing.

`TypeOK` of `Debugger` and `Attach`, `TrapsInPlace`, `PendingRespected` and
`WatchArmed` are proved and in no run.

Only model-checked:

* liveness (`AttachEnds`, `QuitEnds`, `MotionEnds`): fairness and ENABLED are out of
  the prover's reach;
* what recursive definitions and folds compute, because induction over data is out
  of its reach too unless the result has a closed form: all of `Unwind`,
  `LocalScopes` and `CoreSession`, and all of `UserBreakpoints` (a fold of
  `reconcile_request` over the requested names);
* `NoLineSkipped` and `ReturnsInFrame` of `SourceMotion`: they are about lines
  and calls of the programs of the run, and false of arbitrary code.

## Not modelled

* Registers (`src/registers`): a name table over `user_regs_struct`. Writes exclude
  rip, so they touch none of the modelled state; `CliSession` has their effect on
  a selected frame.
* The reading of files: ELF headers, sections, symbols and core notes, the scan of
  `.eh_frame` and its call-frame instructions, the line-number program, the bytes of
  debugging entries, `r_debug`, the CRC of a companion. They are pure decoders of
  data that does not change; the models take their results as given.
* The call decoder (`src/x86`) and the path rules (`source_path.hpp`,
  `module_path.hpp`): pure functions whose answers `SourceMotion` and `CoreSession`
  take as given.
* Substituting file bytes for pages the core omits (`src/snapshot/memory.hpp`).
* Types, location expressions and the formatting of values; the limit of 64 names
  in `locals` and units beyond one.
* The child side of a launch (PTRACE_TRACEME, execve) and the texts of errors.
* What the commands print, where no property is about it.
* `write_byte` reads a word and writes it back: a store of another task that shares
  the memory and runs between the two is lost. The debugger stops every thread it
  knows of before it writes, so no model has such a task.
