------------------------------ MODULE CliSession ------------------------------
(***************************************************************************)
(* The command loop of mdbg (src/src/cli/main.cpp): the inspection frame   *)
(* the user selected, the ElfFile the commands resolve names with, and     *)
(* which failures return to the prompt and which end the session.          *)
(*                                                                         *)
(* The debugger below the loop is reduced to what a command can observe:   *)
(* the selected process and thread, the sequence number of its last stop,  *)
(* and stamps for the data an inspection frame is computed from.  A stamp  *)
(* is the value of `clock' when the data last changed: `key' for rip, rsp  *)
(* and rbp, `rest' for the other registers, `mem' for memory.              *)
(***************************************************************************)
EXTENDS Naturals, FiniteSets, FiniteSetsExt

CONSTANTS
  Pid,        \* process ids; the lowest is the one the session starts with
  Tid,        \* thread numbers within a process; the lowest is the leader
  Image,      \* executables
  MaxClock,   \* bound: changes of debuggee or selection in one session
  Environments  \* what may happen in a session beside plain stops, sets of AllEvents

AllEvents == {"fork", "clone", "exec", "exit", "throw", "motion_exec",
              "bad_exec_elf", "bad_process_elf", "partial_write"}

ASSUME CliAssumption ==
  /\ Pid \subseteq Nat /\ Pid # {} /\ IsFiniteSet(Pid)
  /\ Tid \subseteq Nat /\ Tid # {} /\ IsFiniteSet(Tid)
  /\ Image # {} /\ MaxClock \in Nat
  /\ Environments \subseteq SUBSET AllEvents

VARIABLES
  events,     \* what may happen in this session
  session,    \* prompt, over (the loop ended), error (main's catch)
  live,       \* processes of the session that have not ended
  pid, tid,   \* the selection
  threads,    \* pid -> its threads
  seq,        \* stop_info().sequence
  key, rest,  \* pid -> tid -> stamp
  mem,        \* pid -> stamp
  clock,
  image,      \* pid -> the executable it runs
  elf,        \* the executable the CLI's ElfFile was read from
  frame,      \* selected_inspection_frame: a set of at most one frame
  pending,    \* pid -> its registry holds a deferred breakpoint
  policy,     \* parent or both
  answer      \* what the last command printed

dbg  == <<live, pid, tid, threads, seq, key, rest, mem, clock, image>>
vars == <<dbg, session, elf, frame, pending, policy, answer>>

Stamp == 0..MaxClock
Root == Min(Pid)
Leader == Min(Tid)

\* The state a value is computed from.
View == [pid |-> pid, tid |-> tid, key |-> key[pid][tid],
         rest |-> rest[pid][tid], mem |-> mem[pid]]
ViewSet == [pid : Pid, tid : Tid, key : Stamp, rest : Stamp, mem : Stamp]
\* An answer is a word, or the data a printed value was computed from.
Said(word) == [said |-> word, from |-> {}]

Init ==
  /\ events \in Environments
  /\ session = "prompt" /\ live = {Root} /\ pid = Root /\ tid = Leader
  /\ threads = [p \in Pid |-> {Leader}]
  /\ seq = 0 /\ clock = 0
  /\ key = [p \in Pid |-> [t \in Tid |-> 0]] /\ rest = key
  /\ mem = [p \in Pid |-> 0]
  /\ image \in {[p \in Pid |-> i] : i \in Image} /\ elf = image[Root]
  /\ frame = {} /\ pending = [p \in Pid |-> FALSE] /\ policy = "parent"
  /\ answer = Said("stop")

Prompt == session = "prompt"
Tick == clock < MaxClock /\ clock' = clock + 1

-----------------------------------------------------------------------------
(* The debuggee runs until the debugger reports a stop.                    *)

\* Every thread of the selected process ran; rip, rsp and rbp may well be
\* what they were before.
Moved ==
  /\ Tick /\ seq' = clock'
  /\ \E back \in BOOLEAN :
       key' = [key EXCEPT ![pid] = IF back THEN @ ELSE [t \in Tid |-> clock']]
  /\ rest' = [rest EXCEPT ![pid] = [t \in Tid |-> clock']]
  /\ mem' = [mem EXCEPT ![pid] = clock']

\* A stop of a thread of the selected process, perhaps a new one.
StopPlain ==
  /\ Moved
  /\ \/ UNCHANGED threads
     \/ "clone" \in events /\ threads' = [threads EXCEPT ![pid] = Tid]
  /\ tid' \in threads'[pid]
  /\ UNCHANGED <<live, pid, image>>

\* A fork that is followed into both processes; the parent stays selected.
StopFork ==
  /\ "fork" \in events /\ policy = "both" /\ threads[pid] = {Leader}
  /\ Moved
  /\ \E child \in Pid \ live :
       /\ live' = live \cup {child}
       /\ image' = [image EXCEPT ![child] = image[pid]]
       /\ threads' = [threads EXCEPT ![child] = {Leader}]
  /\ UNCHANGED <<pid, tid>>

StopExec ==
  /\ Moved
  /\ \E i \in Image : image' = [image EXCEPT ![pid] = i]
  /\ threads' = [threads EXCEPT ![pid] = {Leader}] /\ tid' = Leader
  /\ UNCHANGED <<live, pid>>

\* The selected process ends; the lowest retained process is selected.
StopExit ==
  /\ "exit" \in events
  /\ Moved /\ live' = live \ {pid}
  /\ IF live' = {} THEN UNCHANGED <<pid, tid>>
                   ELSE pid' = Min(live') /\ tid' \in threads[pid']
  /\ UNCHANGED <<threads, image>>

\* The loop's condition: the debugger still has a stopped process.
Loop(next) == session' = IF live' = {} THEN "over" ELSE next

-----------------------------------------------------------------------------
(* refresh_image: only for an exec stop.  on_image_replaced drops the      *)
(* process's requests before the new ElfFile is read, which may fail.      *)

Replaced == pending' = [pending EXCEPT ![pid] = FALSE]

RefreshImage(ok) ==
  /\ Replaced
  /\ ok \/ "bad_exec_elf" \in events
  /\ elf' = IF ok THEN image'[pid] ELSE elf

\* report_stop; continue and stepi have no handler of their own, so a failure
\* ends the session.
ReportStop ==
  /\ frame' = {}
  /\ \/ /\ StopPlain \/ StopFork \/ StopExit
        /\ Loop("prompt") /\ answer' = Said("stop")
        /\ UNCHANGED <<elf, pending>>
     \/ \E ok \in BOOLEAN :
          /\ "exec" \in events /\ StopExec /\ RefreshImage(ok)
          /\ session' = (IF ok THEN "prompt" ELSE "error")
          /\ answer' = Said(IF ok THEN "stop" ELSE "failed")
  /\ UNCHANGED policy

Throws ==
  /\ "throw" \in events
  /\ session' = "error" /\ answer' = Said("failed")
  /\ UNCHANGED <<dbg, elf, frame, pending, policy>>

\* A handler that prints the exception and has changed nothing before it.
Fails ==
  /\ answer' = Said("failed")
  /\ UNCHANGED <<dbg, session, elf, frame, pending, policy>>

\* continue: the registry may meanwhile have resolved its deferred requests.
Continue ==
  \/ Prompt /\ (ReportStop \/ Throws)
  \/ /\ Prompt /\ pending[pid]
     /\ StopPlain /\ Replaced /\ frame' = {}
     /\ answer' = Said("stop") /\ UNCHANGED <<session, elf, policy>>

\* reject_motion_with_pending_breakpoints comes before everything else.
Rejected ==
  /\ Prompt /\ pending[pid]
  /\ answer' = Said("rejected")
  /\ UNCHANGED <<dbg, session, elf, frame, pending, policy>>

StepI == Prompt /\ ~pending[pid] /\ (ReportStop \/ Throws)

\* step, next and finish: the selection is dropped first, every exception is
\* printed, and an exec stop is seen only when the motion returned it.  An
\* exec in the middle of a motion makes the motion throw.
SourceMotion ==
  /\ Prompt /\ ~pending[pid]
  /\ frame' = {} /\ UNCHANGED policy
  /\ \/ /\ StopPlain \/ StopFork \/ StopExit
        /\ answer' \in {Said("stop"), Said("failed")}
        /\ Loop("prompt") /\ UNCHANGED <<elf, pending>>
     \/ \E ok \in BOOLEAN :
          /\ "exec" \in events /\ StopExec /\ RefreshImage(ok)
          /\ answer' = Said(IF ok THEN "stop" ELSE "failed")
          /\ UNCHANGED session
     \/ /\ "motion_exec" \in events /\ StopExec
        /\ answer' = Said("failed") /\ UNCHANGED <<session, elf, pending>>
     \/ /\ answer' = Said("failed")
        /\ UNCHANGED <<dbg, session, elf, pending>>

-----------------------------------------------------------------------------
(* Inspection.                                                             *)

\* frame <index>: the frames are built afresh from the selected thread.
SelectFrame ==
  \/ /\ Prompt
     /\ \E i \in {0, 1} :
          frame' = {[index |-> i, seq |-> seq, view |-> View]}
     /\ answer' = Said("ok")
     /\ UNCHANGED <<dbg, session, elf, pending, policy>>
  \/ Prompt /\ Fails

\* validate_inspection_frame.
Valid(f) ==
  /\ f.view.pid = pid /\ f.view.tid = tid /\ f.seq = seq
  /\ f.view.key = key[pid][tid]

\* What a value read through f is computed from: the innermost frame is read
\* from the live registers, an outer one from what the unwinder recovered.
ReadThrough(f) == IF f.index = 0 THEN View ELSE f.view

Shown ==
  /\ \A f \in frame : Valid(f)
  /\ answer' = [said |-> "value", from |->
       IF frame = {} THEN {View} ELSE {ReadThrough(f) : f \in frame}]
  /\ UNCHANGED <<dbg, session, elf, frame, pending, policy>>

\* locals, print and deref.
SourceValue == Prompt /\ (Shown \/ Fails)

\* array-element, aggregate-member, deref-aggregate-member and union-member
\* take a part of such a value; deref-aggregate-member goes through the frame
\* a second time.
MemberValue == Prompt /\ (Shown \/ Fails)

\* regs, reg, x, line, list, bt, info and symbols change nothing; an exception
\* from the ones without a handler ends the session.
Query ==
  \/ Prompt /\ answer' = Said("ok")
     /\ UNCHANGED <<dbg, session, elf, frame, pending, policy>>
  \/ Prompt /\ Throws

-----------------------------------------------------------------------------
(* Commands that change the debuggee or the selection.                     *)

\* Mutant: only a change of rip, rsp or rbp drops the selection.
SetRegisterMutant ==
  /\ Prompt /\ Tick
  /\ \/ key' = [key EXCEPT ![pid][tid] = clock'] /\ UNCHANGED rest
     \/ rest' = [rest EXCEPT ![pid][tid] = clock'] /\ UNCHANGED key
  /\ frame' = (IF key' = key THEN frame ELSE {}) /\ answer' = Said("ok")
  /\ UNCHANGED <<session, live, pid, tid, threads, seq, mem, image, elf,
                 pending, policy>>

SetRegister ==
  /\ Prompt /\ Tick
  /\ \/ key' = [key EXCEPT ![pid][tid] = clock'] /\ UNCHANGED rest
     \/ rest' = [rest EXCEPT ![pid][tid] = clock'] /\ UNCHANGED key
  /\ frame' = {} /\ answer' = Said("ok")
  /\ UNCHANGED <<session, live, pid, tid, threads, seq, mem, image, elf,
                 pending, policy>>

\* set memory: a write that throws may have stored its first bytes.
SetMemory ==
  /\ Prompt /\ Tick
  /\ mem' = [mem EXCEPT ![pid] = clock']
  /\ \/ frame' = {} /\ answer' = Said("ok")
     \/ "partial_write" \in events /\ answer' = Said("failed")
        /\ UNCHANGED frame
  /\ UNCHANGED <<session, live, pid, tid, threads, seq, key, rest, image, elf,
                 pending, policy>>

SelectThread ==
  /\ Prompt
  /\ tid' \in threads[pid] /\ frame' = {} /\ answer' = Said("ok")
  /\ UNCHANGED <<session, live, pid, threads, seq, key, rest, mem, clock,
                 image, elf, pending, policy>>

\* Mutant: the ElfFile stays that of the process left.
SelectProcessMutant ==
  /\ Prompt
  /\ \E p \in live \ {pid} :
       pid' = p /\ tid' \in threads[p] /\ Tick /\ seq' = clock'
  /\ frame' = {} /\ elf' = elf /\ answer' = Said("ok")
  /\ UNCHANGED <<session, live, threads, key, rest, mem, image, pending,
                 policy>>

\* process <pid>: the process is selected, under a new stop sequence, before
\* its ElfFile is read.
SelectProcess ==
  /\ Prompt
  /\ \E p \in live \ {pid} :
       pid' = p /\ tid' \in threads[p] /\ Tick /\ seq' = clock'
  /\ frame' = {}
  /\ \/ elf' = image[pid'] /\ answer' = Said("ok")
     \/ "bad_process_elf" \in events /\ answer' = Said("failed") /\ UNCHANGED elf
  /\ UNCHANGED <<session, live, threads, key, rest, mem, image, pending,
                 policy>>

\* break and delete: only whether a deferred request remains matters here.
\* break prints its exceptions, delete lets them end the session.
Break ==
  /\ Prompt /\ answer' \in {Said("ok"), Said("failed")}
  /\ \/ UNCHANGED pending
     \/ pending' = [pending EXCEPT ![pid] = TRUE] /\ answer' = Said("ok")
  /\ UNCHANGED <<dbg, session, elf, frame, policy>>

Delete ==
  \/ /\ Prompt /\ answer' = Said("ok") /\ Replaced
     /\ UNCHANGED <<dbg, session, elf, frame, policy>>
  \/ Prompt /\ Throws

\* set follow-fork-mode: refused once processes are retained, and both needs
\* a single thread.
SetPolicy ==
  /\ Prompt
  /\ \/ /\ live = {pid} /\ answer' = Said("ok")
        /\ \/ policy' = "parent"
           \/ policy' = "both" /\ threads[pid] = {Leader}
     \/ answer' = Said("failed") /\ UNCHANGED policy
  /\ UNCHANGED <<dbg, session, elf, frame, pending>>

\* quit, detach and the end of the input leave the loop.
Quit ==
  /\ Prompt /\ session' = "over" /\ answer' = Said("ok")
  /\ UNCHANGED <<dbg, elf, frame, pending, policy>>

Next ==
  \/ Continue \/ Rejected \/ StepI \/ SourceMotion
  \/ SelectFrame \/ SourceValue \/ MemberValue \/ Query
  \/ SetRegister \/ SetMemory \/ SelectThread \/ SelectProcess
  \/ Break \/ Delete \/ SetPolicy \/ Quit

Spec == Init /\ [][Next /\ UNCHANGED events]_<<vars, events>>

-----------------------------------------------------------------------------
(* A value that print, locals or deref show was computed from the machine  *)
(* as it is when it is shown: no selected frame survives a change of the   *)
(* registers or the memory its registers were recovered from.  A set       *)
(* memory that fails half way is the exception.                            *)
ValueTrue == "partial_write" \notin events => \A v \in answer.from : v = View

(* At the prompt the ElfFile that break, line, x and print resolve names   *)
(* with is the executable of the selected process, unless an exec stopped  *)
(* a motion in the middle, an executable could not be read, or the         *)
(* selected process ended and another took its place.                      *)
ImageTrue ==
  events \cap {"motion_exec", "bad_exec_elf", "bad_process_elf", "exit"} = {} =>
    (session = "prompt" => elf = image[pid])
=============================================================================
