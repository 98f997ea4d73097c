----------------------------- MODULE CoreSession -----------------------------
(* An interactive session over a core dump: mdbg-core (cli/core_main.cpp),   *)
(* CoreInspectionSession (snapshot/session.hpp) and the frames it shows      *)
(* (snapshot/inspection.hpp, frame_lookup.hpp, linux_x86_signal_frame.hpp).  *)
(*                                                                           *)
(* The threads run first, one instruction per step, and the model records    *)
(* the calls and signal deliveries that really happened.  A thread crashes   *)
(* in any state; what the session then shows is compared with that record.   *)
(* Addresses and stack slots are counted in words.                           *)
EXTENDS Integers, Sequences, FiniteSets

CONSTANTS
  Unknown,         \* a tid that is not in the core
  Entry, Handler, Restorer,
  Programs         \* the programs that may have crashed: records of
                   \*   tids: the threads
                   \*   code: address -> [op, to, row, fn, mod, inl]
                   \*   stack: the addresses of a thread's stacks, with guards between
                   \*   top: the stack pointer a thread starts with
                   \*   alts: those an alternate signal stack starts with
                   \*   signals: bound on the deliveries to one thread
                   \*   missing: bound on the files that cannot be opened
                   \*   frames: max_frames

(* row: "rule" gives the CFA as sp + off and the rule for RBX, "slot" being  *)
(* the word below the return address; "signal" is an FDE whose CIE has the   *)
(* S augmentation, "outer" one whose return address is undefined, "none" no  *)
(* FDE.  mod is the mapped file, "" for none.  inl are the inlined calls     *)
(* active at the address.                                                    *)

VARIABLES
  prog,        \* the program of this session
  phase,       \* "running", "core", "session" or "refused"
  th,          \* thread -> [pc, sp, rbx, vol, mem, calls, signals]
  crashed,
  files,       \* the module files that can be opened on this host
  session      \* [tid, trace, frame, inl]

vars == <<phase, th, crashed, files, session>>

None == -1
Tids == prog.tids
Code == prog.code
Stack == prog.stack
max_frames == prog.frames
Modules == {Code[a].mod : a \in DOMAIN Code} \ {""}
NoInline == [at |-> 0, die |-> 0]
NoSession == [tid |-> Unknown, trace |-> [frames |-> <<>>, stop |-> "", files |-> {}],
              frame |-> 0, inl |-> NoInline]

Init ==
  /\ prog \in Programs
  /\ phase = "running" /\ crashed = Unknown /\ files = Modules /\ session = NoSession
  /\ th = [t \in Tids |-> [pc |-> Entry, sp |-> prog.top, rbx |-> 0, vol |-> 0,
                           mem |-> [a \in Stack |-> 0], calls |-> <<>>, signals |-> 0]]

-----------------------------------------------------------------------------
(* The threads.  vol stands for the registers that only a signal frame       *)
(* saves: R12, RDI, RSI and XMM0.  calls are the suspended activations,      *)
(* innermost first, with the registers they resume with.                     *)

Runs(t, op) == phase = "running" /\ Code[th[t].pc].op = op
Becomes(t, x) == th' = [th EXCEPT ![t] = x] /\ UNCHANGED <<phase, crashed, files, session>>

Nop(t) == Runs(t, "nop") /\ Becomes(t, [th[t] EXCEPT !.pc = @ + 1])
Set(t) == /\ Runs(t, "set")
          /\ Becomes(t, [th[t] EXCEPT !.rbx = th[t].pc, !.vol = th[t].pc, !.pc = @ + 1])
Push(t) == /\ Runs(t, "push") /\ th[t].sp - 1 \in Stack
           /\ Becomes(t, [th[t] EXCEPT !.mem[th[t].sp - 1] = th[t].rbx,
                                       !.sp = @ - 1, !.pc = @ + 1])
Pop(t) == /\ Runs(t, "pop")
          /\ Becomes(t, [th[t] EXCEPT !.rbx = th[t].mem[th[t].sp], !.sp = @ + 1, !.pc = @ + 1])
Call(t) ==
  LET x == th[t]
  IN  /\ Runs(t, "call") /\ x.sp - 1 \in Stack
      /\ \E to \in Code[x.pc].to :
           Becomes(t, [x EXCEPT
             !.mem[x.sp - 1] = x.pc + 1, !.sp = @ - 1, !.pc = to,
             !.calls = <<[fn |-> Code[x.pc].fn, ip |-> x.pc + 1, sp |-> x.sp,
                          rbx |-> x.rbx, vol |-> None]>> \o @])
Ret(t) == /\ Runs(t, "ret")
          /\ Becomes(t, [th[t] EXCEPT !.pc = th[t].mem[th[t].sp], !.sp = @ + 1,
                                      !.calls = Tail(@)])

InHandler(x) == \/ Code[x.pc].fn = "restorer"
                \/ \E i \in 1..Len(x.calls) : x.calls[i].fn = "restorer"

\* The kernel saves the registers below the red zone or on the alternate
\* stack, and returns through the restorer.
Signal(t) ==
  LET x == th[t]
  IN  /\ phase = "running" /\ x.signals < prog.signals
      /\ \E top \in {x.sp - 1} \cup (IF InHandler(x) THEN {} ELSE prog.alts) :
           LET uc == top - 5
           IN  /\ (uc - 1)..(top - 1) \subseteq Stack
               /\ Becomes(t, [x EXCEPT
                    !.mem = [@ EXCEPT ![uc] = x.pc, ![uc + 1] = x.sp, ![uc + 2] = x.rbx,
                                      ![uc + 3] = x.vol, ![uc + 4] = x.vol,
                                      ![uc - 1] = Restorer],
                    !.pc = Handler, !.sp = uc - 1, !.signals = @ + 1,
                    !.calls = <<[fn |-> "restorer", ip |-> Restorer, sp |-> uc,
                                 rbx |-> x.rbx, vol |-> None],
                                [fn |-> Code[x.pc].fn, ip |-> x.pc, sp |-> x.sp,
                                 rbx |-> x.rbx, vol |-> x.vol]>> \o @])
Sigreturn(t) ==
  LET x == th[t]
  IN  /\ Runs(t, "sigreturn")
      /\ Becomes(t, [x EXCEPT !.pc = x.mem[x.sp], !.sp = x.mem[x.sp + 1],
                              !.rbx = x.mem[x.sp + 2], !.vol = x.mem[x.sp + 3],
                              !.calls = Tail(@)])

Crash(t) ==
  /\ phase = "running" /\ phase' = "core" /\ crashed' = t
  /\ UNCHANGED <<th, files, session>>

\* The files of the modules come and go on the host that opens the core.
ChangeFiles ==
  /\ phase \in {"core", "session"}
  /\ \E missing \in SUBSET Modules :
       Cardinality(missing) <= prog.missing /\ files' = Modules \ missing
  /\ UNCHANGED <<phase, th, crashed, session>>

Program == \E t \in Tids : \/ Nop(t) \/ Set(t) \/ Push(t) \/ Pop(t) \/ Call(t) \/ Ret(t)
                           \/ Signal(t) \/ Sigreturn(t) \/ Crash(t)

-----------------------------------------------------------------------------
(* Frames.                                                                   *)

FileOf(a) == IF a \in DOMAIN Code THEN Code[a].mod ELSE ""

\* resolve_snapshot_module_address, which opens the file on every call.
Resolves(a) == FileOf(a) \in files

Failed == [kind |-> "error"]

\* Mutant: the saved stack pointer is taken for that of the caller's frame.
RecoverSignalFrameMutant(mem, uc) ==
  IF ~(uc..(uc + 4) \subseteq Stack) THEN Failed
  ELSE [kind |-> "caller", ip |-> mem[uc], sp |-> uc + 5, rbx |-> mem[uc + 2],
        vol |-> mem[uc + 4], exact |-> TRUE]

\* recover_linux_x86_signal_frame: the saved stack pointer and the floating-point
\* state have to lie above the context.
RecoverSignalFrame(mem, uc) ==
  LET rsp == mem[uc + 1]
  IN  IF ~(uc..(uc + 4) \subseteq Stack) THEN Failed
      ELSE IF mem[uc] = 0 \/ rsp = 0 \/ rsp <= uc \/ uc + 4 >= rsp THEN Failed
      ELSE [kind |-> "caller", ip |-> mem[uc], sp |-> rsp, rbx |-> mem[uc + 2],
            vol |-> mem[uc + 4], exact |-> TRUE]

\* EhFrame::caller_frame: only a rule gives the caller's RBX.
CallerFrame(mem, c) ==
  LET row == Code[c.ip].row
      cfa == c.sp + row.off
  IN  IF row.kind = "outer" \/ cfa - 1 \notin Stack THEN Failed
      ELSE IF mem[cfa - 1] = 0 \/ (row.rbx = "slot" /\ cfa - 2 \notin Stack) THEN Failed
      ELSE [kind |-> "caller", ip |-> mem[cfa - 1], sp |-> cfa,
            rbx |-> IF row.rbx = "slot" THEN mem[cfa - 2] ELSE None,
            vol |-> None, exact |-> FALSE]

\* EhFrameSignalIndex::is_signal_frame
IsSignalFrame(a) == Code[a].row.kind = "signal"

\* The body of the loop, up to the checks of its result.  The row is that of
\* the frame's own address, also where it is a return address.
StepOut(mem, c) ==
  IF ~Resolves(c.ip) THEN Failed
  ELSE IF Code[c.ip].row.kind = "none" THEN [kind |-> "none"]
  ELSE IF IsSignalFrame(c.ip) THEN RecoverSignalFrame(mem, c.sp)
  ELSE CallerFrame(mem, c)

\* make_snapshot_inspection_frame
MakeFrame(t, c) == [tid |-> t, ip |-> c.ip, sp |-> c.sp, rbx |-> c.rbx, vol |-> c.vol,
                    exact |-> c.exact, mod |-> FileOf(c.ip)]

RECURSIVE FramesFrom(_, _)
FramesFrom(t, frames) ==
  LET last == frames[Len(frames)]
      caller == StepOut(th[t].mem, last)
      stop(reason) == [frames |-> frames, stop |-> reason, files |-> files]
  IN  IF Len(frames) >= max_frames THEN stop("limit")
      ELSE IF caller.kind = "error" THEN stop("invalid")
      ELSE IF caller.kind = "none" THEN stop(IF Len(frames) = 1 THEN "no_info" ELSE "end")
      ELSE IF caller.ip = last.ip \/ caller.sp <= last.sp THEN stop("invalid")
      ELSE IF ~Resolves(caller.ip) THEN stop("invalid")
      ELSE FramesFrom(t, Append(frames, MakeFrame(t, caller)))

\* build_snapshot_inspection_frames, without the exception for frame 0.
BuildFrames(t) ==
  LET x == th[t]
  IN  FramesFrom(t, <<MakeFrame(t, [ip |-> x.pc, sp |-> x.sp, rbx |-> x.rbx,
                                    vol |-> None, exact |-> TRUE])>>)

\* snapshot_frame_module_path throws for an address in no file mapping.
CanBuild(t) == FileOf(th[t].pc) # ""

-----------------------------------------------------------------------------
(* What the session shows of a frame.                                        *)

\* Mutant: every frame but the first is looked up one byte before its address.
LookupPcMutant(f) ==
  IF f = session.trace.frames[1] THEN f.ip ELSE f.ip - 1

\* snapshot_frame_lookup_pc
LookupPc(f) == IF f.exact THEN f.ip ELSE f.ip - 1

\* find_frame_symbol and find_frame_source, by the function they name.
ShownFunction(f) == IF Resolves(LookupPc(f)) THEN Code[LookupPc(f)].fn ELSE ""

\* print of a local in RBX.
PrintRbx(f) == f.rbx

\* materialize_snapshot_xmm_value
PrintXmm(f) == IF f = session.trace.frames[1] THEN th[f.tid].vol ELSE f.vol

\* discover_inline_call_chain; <<>> also where it throws.
InlineContexts(f) ==
  IF Resolves(LookupPc(f)) /\ FileOf(LookupPc(f)) = f.mod THEN Code[LookupPc(f)].inl
  ELSE <<>>

-----------------------------------------------------------------------------
(* The commands.  One that fails reports its error and changes nothing.      *)

Selected == session.trace.frames[session.frame]
Keeps(x) == session' = x /\ UNCHANGED <<phase, th, crashed, files>>

\* The constructor, on the crashed thread.
Open ==
  /\ phase = "core"
  /\ IF CanBuild(crashed)
     THEN phase' = "session" /\ session' = [tid |-> crashed, trace |-> BuildFrames(crashed),
                                            frame |-> 1, inl |-> NoInline]
     ELSE phase' = "refused" /\ UNCHANGED session
  /\ UNCHANGED <<th, crashed, files>>

SelectThread(tid) ==
  /\ phase = "session"
  /\ IF tid \in Tids /\ CanBuild(tid)
     THEN Keeps([tid |-> tid, trace |-> BuildFrames(tid), frame |-> 1, inl |-> NoInline])
     ELSE Keeps(session)

\* Mutant: the inline context survives the selection of another frame.
SelectFrameMutant(i) ==
  /\ phase = "session"
  /\ IF i <= Len(session.trace.frames) THEN Keeps([session EXCEPT !.frame = i])
     ELSE Keeps(session)

SelectFrame(i) ==
  /\ phase = "session"
  /\ IF i <= Len(session.trace.frames)
     THEN Keeps([session EXCEPT !.frame = i, !.inl = NoInline])
     ELSE Keeps(session)

SelectInline(k) ==
  /\ phase = "session"
  /\ IF k <= Len(InlineContexts(Selected))
     THEN Keeps([session EXCEPT !.inl = [at |-> k, die |-> InlineContexts(Selected)[k]]])
     ELSE Keeps(session)

InlinePhysical == phase = "session" /\ Keeps([session EXCEPT !.inl = NoInline])

Next == \/ Program \/ ChangeFiles \/ Open \/ InlinePhysical
        \/ \E tid \in Tids \cup {Unknown} : SelectThread(tid)
        \/ \E i \in 1..(max_frames + 1) : SelectFrame(i)
        \/ \E k \in 1..2 : SelectInline(k)

Spec == Init /\ [][Next /\ UNCHANGED prog]_<<vars, prog>>

-----------------------------------------------------------------------------
(* The activations of a thread, innermost first.                             *)

Activations(t) ==
  LET x == th[t]
  IN  <<[fn |-> Code[x.pc].fn, ip |-> x.pc, sp |-> x.sp, rbx |-> x.rbx, vol |-> x.vol]>>
      \o x.calls

Frames == session.trace.frames
Acts == Activations(session.tid)

\* The address that frame i resumes at belongs to the function it is in: it does
\* not after a call that ends its function because it never returns.
Inside(i) == Code[Acts[i].ip].fn = Acts[i].fn
Before(i) == \A j \in 1..(i - 1) : j <= Len(Acts) /\ Inside(j)

(* Every frame of bt is the activation at its place: it has the address and  *)
(* the stack pointer that activation resumes with, through calls, signals    *)
(* and signals within signals, and also on an alternate stack.  A register   *)
(* shown in it is the one the activation resumes with, so that neither that  *)
(* of the crash nor that of a frame which took a signal is passed on.  This  *)
(* is said of the frames up to the first that called a function that never   *)
(* returns with its last instruction.                                        *)
FramesTrue ==
  phase = "session" =>
    \A i \in 1..Len(Frames) : Before(i) =>
      /\ i <= Len(Acts)
      /\ Frames[i].ip = Acts[i].ip /\ Frames[i].sp = Acts[i].sp
      /\ PrintRbx(Frames[i]) \in {None, Acts[i].rbx}
      /\ PrintXmm(Frames[i]) \in {None, Acts[i].vol}

(* The function and the line shown with a frame are those of the code that   *)
(* runs in it: of the call for a frame that waits for a return, of the       *)
(* interrupted instruction for one that took a signal, even when that is the *)
(* first of its function.  The restorer itself is in no function.            *)
ShownTrue ==
  phase = "session" =>
    \A i \in 1..Len(Frames) :
      Before(i) /\ Resolves(LookupPc(Frames[i])) /\ Acts[i].fn # "restorer" =>
        ShownFunction(Frames[i]) = Acts[i].fn

(* What is selected belongs together whatever commands succeeded or failed:  *)
(* the frames are the selected thread's, the frame is one of them, and the   *)
(* inlined call is one that is active in that frame.                         *)
SelectionOwned ==
  phase = "session" =>
    /\ \A i \in 1..Len(Frames) : Frames[i].tid = session.tid
    /\ session.frame \in 1..Len(Frames)
    /\ session.inl # NoInline =>
         LET inl == Code[LookupPc(Selected)].inl
         IN  session.inl.at <= Len(inl) /\ inl[session.inl.at] = session.inl.die
=============================================================================
