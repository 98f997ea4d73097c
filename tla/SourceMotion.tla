---------------------------- MODULE SourceMotion ----------------------------
(***************************************************************************)
(* Source-level motion: step, next and finish (source/source_step.cpp,     *)
(* source/source_finish.cpp) over the debugger's continue and stepi, on a  *)
(* small program with calls and several threads.                           *)
(*                                                                         *)
(* The program is the constant Code.  An instruction is one unit long and  *)
(* carries the source line its module maps it to (0: none).  "call" is a   *)
(* near call the decoder recognises, "callx" one it does not; a "jump" is  *)
(* conditional.  The debugger below the motions is reduced to what they    *)
(* use: the breakpoint table, the pending displaced step, the task that is *)
(* current, and the classification of one collected event.  Its full       *)
(* protocol is module Debugger.                                            *)
(***************************************************************************)
EXTENDS Naturals, Sequences, FiniteSets, SequencesExt

CONSTANTS
  Threads,    \* thread ids
  Programs    \* the programs a session may debug: records of
              \*   code: a sequence of [op, line, to]
              \*   entry: where each of its threads starts
              \*   users: addresses at which the user sets breakpoints
              \*   limit: instruction_limit (4096 in the code)
              \*   depth: bound on the calls in progress in one thread
              \*   faults: subset of {"signal", "throw"}

\* Threads start at, calls and jumps lead to, and the user names instructions
\* of the program.
ASSUME MotionAssumption ==
  /\ Threads \subseteq Nat \ {0}
  /\ \A p \in Programs :
       /\ p.code \in Seq([op : STRING, line : Nat, to : Nat])
       /\ DOMAIN p.entry \subseteq Threads /\ DOMAIN p.entry # {}
       /\ p.entry \in [DOMAIN p.entry -> DOMAIN p.code]
       /\ \A a \in DOMAIN p.code :
            p.code[a].op \in {"jump", "call", "callx"} => p.code[a].to \in DOMAIN p.code
       /\ p.users \subseteq DOMAIN p.code /\ p.limit \in Nat \ {0}
       /\ p.depth \in Nat \ {0} /\ p.faults \subseteq {"signal", "throw"}

None == 0
NoPend == [tid |-> None, addr |-> None]
NoMotion == [kind |-> "none", tid |-> None, line |-> 0, depth |-> 0,
             n |-> 0, temp |-> None, ret |-> None, users |-> FALSE,
             frame |-> 0]

VARIABLES
  prog,       \* the program of this session
  pc, stk,    \* each thread's instruction pointer and return addresses
  st,         \* "Stopped", "Running" or "Stepping" (PTRACE_SINGLESTEP)
  ev,         \* the stop the kernel holds for each thread, "none" if none
  alive,      \* the process has not exited
  user,       \* breakpoints_by_address_: the entries the user made
  temp,       \* ... and the one a motion made, or None
  inst,       \* entries whose INT3 is in memory (Breakpoint::installed)
  pend,       \* pending_breakpoint_step_
  cur,        \* the current task
  phase,      \* "idle" (the prompt), "loop" (in a motion), "wait" (waitpid)
  wmode,      \* the call that waits: "step", "over", "overgo" or "go"
  mo,         \* the motion in progress
  res,        \* what the last motion returned
  wish,       \* history: the breakpoints the user wants in this image
  ran,        \* history: lines the motion's frame ran since it started
  astray      \* history: a return was concluded past the awaited frame

vars == <<pc, stk, st, ev, alive, user, temp, inst, pend, cur, phase, wmode,
          mo, res, wish, ran, astray>>
threads == <<pc, stk, st, ev, alive>>
table == <<user, temp, inst, pend>>

\* Its threads; the lowest one is the leader.
Tid == DOMAIN prog.entry
Code == prog.code
Address == 1..Len(Code)
Limit == prog.limit

NoRes == [kind |-> "none", reason |-> "none", stop |-> "none",
          tid |-> None, line |-> 0, depth |-> 0]
Kinds == {"step", "next", "finish", "continue", "stepi"}
Init ==
  /\ prog \in Programs
  /\ pc = prog.entry /\ stk = [t \in Tid |-> <<>>]
  /\ st \in [Tid -> {"Stopped", "Running"}]
  /\ cur = CHOOSE t \in Tid : \A u \in Tid : t <= u
  /\ st[cur] = "Stopped"
  /\ ev = [t \in Tid |-> "none"] /\ alive = TRUE
  /\ user = {} /\ temp = None /\ inst = {} /\ pend = NoPend
  /\ phase = "idle" /\ wmode = "none" /\ mo = NoMotion /\ res = NoRes
  /\ wish = {} /\ ran = {} /\ astray = FALSE

(***************************************************************************)
(* The tracee.                                                             *)
(***************************************************************************)

Op(a) == Code[a].op
Line(a) == Code[a].line
Next1(a) == IF a + 1 \in Address THEN a + 1 ELSE a

\* The instruction at pc[t] is executed as it was compiled.
Executes(t) ==
  LET a == pc[t]
  IN \/ /\ Op(a) = "plain"
        /\ pc' = [pc EXCEPT ![t] = Next1(a)] /\ UNCHANGED stk
     \/ /\ Op(a) = "jump"
        /\ \E b \in {Next1(a), Code[a].to} :
             /\ Op(b) \in {"call", "callx"} => Len(stk[t]) < prog.depth
             /\ pc' = [pc EXCEPT ![t] = b]
        /\ UNCHANGED stk
     \/ /\ Op(a) \in {"call", "callx"}
        /\ pc' = [pc EXCEPT ![t] = Code[a].to]
        /\ stk' = [stk EXCEPT ![t] = Append(@, Next1(a))]
     \/ /\ Op(a) = "ret" /\ stk[t] # <<>>
        /\ pc' = [pc EXCEPT ![t] = Last(stk[t])]
        /\ stk' = [stk EXCEPT ![t] = Front(@)]

\* The lines the frame in motion ran at, for NoLineSkipped.
Records(t) ==
  ran' = IF t = mo.tid /\ Len(stk[t]) <= mo.depth THEN ran \cup {Line(pc[t])}
         ELSE ran

\* A resumed thread runs one instruction.  An installed INT3 raises SIGTRAP
\* behind it; a single-stepped thread stops after one instruction.
RunInstr(t) ==
  /\ alive /\ st[t] # "Stopped" /\ ev[t] = "none"
  /\ Op(pc[t]) \notin {"exit", "exec"}
  /\ IF pc[t] \in inst
     THEN /\ pc' = [pc EXCEPT ![t] = Next1(@)]
          /\ ev' = [ev EXCEPT ![t] = "trap"] /\ UNCHANGED <<stk, ran>>
     ELSE /\ Executes(t) /\ Records(t)
          /\ ev' = [ev EXCEPT ![t] = IF st[t] = "Stepping" THEN "step" ELSE "none"]
  /\ UNCHANGED <<st, alive, table, cur, phase, wmode, mo, res, wish, astray>>

\* exec() in a single-threaded process, or the end of the process.
EndImage(t) ==
  /\ alive /\ st[t] # "Stopped" /\ ev[t] = "none"
  /\ Op(pc[t]) \in {"exit", "exec"} /\ pc[t] \notin inst
  /\ Op(pc[t]) = "exec" => Tid = {t}
  /\ ev' = [u \in Tid |-> IF u = t THEN Op(pc[t]) ELSE "none"]
  /\ alive' = (Op(pc[t]) = "exec")
  /\ UNCHANGED <<pc, stk, st, table, cur, phase, wmode, mo, res, wish, ran, astray>>

\* A signal-delivery stop.
Signal(t) ==
  /\ "signal" \in prog.faults /\ phase = "wait"
  /\ alive /\ st[t] # "Stopped" /\ ev[t] = "none"
  /\ ev' = [ev EXCEPT ![t] = "signal"]
  /\ UNCHANGED <<pc, stk, st, alive, table, cur, phase, wmode, mo, res, wish, ran, astray>>

(***************************************************************************)
(* The prompt.                                                             *)
(***************************************************************************)

Stopped == alive /\ st[cur] = "Stopped"

AddBreakpoint(a) ==
  /\ phase = "idle" /\ Stopped /\ a \notin user \cup {temp}
  /\ user' = user \cup {a} /\ inst' = inst \cup {a} /\ wish' = wish \cup {a}
  /\ UNCHANGED <<threads, temp, pend, cur, phase, wmode, mo, res, ran, astray>>

DeleteBreakpoint(a) ==
  /\ phase = "idle" /\ Stopped /\ a \in user
  /\ user' = user \ {a} /\ inst' = inst \ {a} /\ wish' = wish \ {a}
  /\ pend' = IF pend.addr = a THEN NoPend ELSE pend
  /\ UNCHANGED <<threads, temp, cur, phase, wmode, mo, res, ran, astray>>

\* select_thread, refused while a displaced step is pending.
SelectThread(t) ==
  /\ phase = "idle" /\ Stopped /\ st[t] = "Stopped" /\ t # cur
  /\ pend = NoPend
  /\ cur' = t
  /\ UNCHANGED <<threads, table, phase, wmode, mo, res, wish, ran, astray>>

\* validate_source_motion and current_module_source: step and next need a
\* source position, finish a caller (module_caller_return_address).
BeginMotion(kind) ==
  /\ phase = "idle" /\ Stopped
  /\ kind \in {"step", "next"} => Line(pc[cur]) # 0
  /\ kind = "finish" => stk[cur] # <<>>
  /\ mo' = [NoMotion EXCEPT !.kind = kind, !.tid = cur, !.line = Line(pc[cur]),
                            !.depth = Len(stk[cur])]
  /\ phase' = "loop" /\ ran' = {} /\ res' = NoRes
  /\ UNCHANGED <<threads, table, cur, wmode, wish, astray>>

Begin == \E kind \in Kinds : BeginMotion(kind)

(***************************************************************************)
(* The motions.                                                            *)
(***************************************************************************)

Outcome(reason, stop, t) ==
  [kind |-> mo.kind, reason |-> reason, stop |-> stop, tid |-> t,
   line |-> Line(pc'[t]), depth |-> Len(stk'[t])]

\* single_step, directly or through step_over_pending_breakpoint.
ResumeStep ==
  /\ st' = [st EXCEPT ![cur] = "Stepping"]
  /\ wmode' = IF pend # NoPend THEN "over" ELSE "step"
  /\ phase' = "wait"

\* continue_execution; a pending step-over runs first.
ResumeGo ==
  /\ st' = [st EXCEPT ![cur] = IF pend # NoPend THEN "Stepping" ELSE "Running"]
  /\ wmode' = IF pend # NoPend THEN "overgo" ELSE "go"
  /\ phase' = "wait"

\* supported_call_return_address reads the instruction from memory, where an
\* installed INT3 hides it.
ReturnAddress ==
  IF Op(pc[cur]) = "call" /\ pc[cur] \notin inst THEN Next1(pc[cur]) ELSE None

\* The common part of next and finish: run to a with a temporary breakpoint
\* there, unless the user has one.  frame is the depth of the awaited frame.
RunTo(a, frame) ==
  /\ mo' = [mo EXCEPT !.ret = a, !.users = a \in user, !.frame = frame,
                      !.temp = IF a \in user THEN None ELSE a]
  /\ temp' = IF a \in user THEN None ELSE a
  /\ inst' = IF a \in user THEN inst ELSE inst \cup {a}
  /\ UNCHANGED <<user, pend>>
  /\ ResumeGo

InLoop(kind) == phase = "loop" /\ mo.kind = kind /\ mo.n < Limit

\* One turn of the loop of step_source.
StepTurn ==
  /\ InLoop("step")
  /\ ResumeStep
  /\ UNCHANGED <<pc, stk, ev, alive, table, mo, cur, res, wish, ran, astray>>

\* One turn of the loop of next_source.
NextTurn ==
  /\ InLoop("next")
  /\ IF ReturnAddress # None
     THEN RunTo(ReturnAddress, Len(stk[cur]))
     ELSE ResumeStep /\ UNCHANGED <<table, mo>>
  /\ UNCHANGED <<pc, stk, ev, alive, cur, res, wish, ran, astray>>

\* The loop ends at the instruction limit.
LimitReached ==
  /\ phase = "loop" /\ mo.kind \in {"step", "next"} /\ mo.n >= Limit
  /\ res' = [kind |-> mo.kind, reason |-> "InstructionLimit", stop |-> "SingleStep",
             tid |-> cur, line |-> Line(pc[cur]), depth |-> Len(stk[cur])]
  /\ phase' = "idle" /\ mo' = NoMotion
  /\ UNCHANGED <<threads, table, cur, wmode, wish, ran, astray>>

\* Mutant: the outermost return address of the stack.
CallerReturnMutant == stk[cur][1]

\* module_caller_return_address of the current frame.
CallerReturn == Last(stk[cur])

\* finish_frame.
Finish ==
  /\ phase = "loop" /\ mo.kind = "finish"
  /\ RunTo(CallerReturn, Len(stk[cur]) - 1)
  /\ UNCHANGED <<pc, stk, ev, alive, cur, res, wish, ran, astray>>

\* The commands continue and stepi.
Plain ==
  /\ phase = "loop" /\ mo.kind \in {"continue", "stepi"}
  /\ IF mo.kind = "stepi" THEN ResumeStep ELSE ResumeGo
  /\ UNCHANGED <<pc, stk, ev, alive, table, mo, cur, res, wish, ran, astray>>

(***************************************************************************)
(* A collected event: wait_and_classify, then what the waiting call does.  *)
(***************************************************************************)

Classify(t) ==
  CASE ev[t] = "exit" -> "Exited"
    [] ev[t] = "exec" -> "Exec"
    [] ev[t] = "signal" -> "Signal"
    [] ev[t] \in {"trap", "step"} /\ wmode # "go" -> "SingleStep"
    [] ev[t] = "trap" /\ wmode = "go" /\ pc[t] - 1 \in inst -> "Breakpoint"
    [] OTHER -> "Trap"

\* prepare_breakpoint_hit rewinds the thread and lifts the INT3; exec starts
\* a new image at address 1; the displaced instruction's INT3 goes back.
HitAddress(t) == pc[t] - 1
PcAfter(t, stop) ==
  IF stop = "Breakpoint" THEN [pc EXCEPT ![t] = HitAddress(t)]
  ELSE IF stop = "Exec" THEN [pc EXCEPT ![t] = 1] ELSE pc
InstAfter(t, stop) ==
  IF stop = "Exec" THEN {}
  ELSE IF stop = "Breakpoint" THEN inst \ {HitAddress(t)}
  ELSE IF wmode \in {"over", "overgo"} /\ stop # "Exited"
       THEN inst \cup ({pend.addr} \cap (user \cup {temp}))
       ELSE inst
PendAfter(t, stop) ==
  IF stop = "Breakpoint" THEN [tid |-> t, addr |-> HitAddress(t)]
  ELSE IF stop = "Exec" \/ wmode \in {"over", "overgo"} THEN NoPend ELSE pend

\* The stop is at the return address the motion waits for.
Returned(t, stop) == stop = "Breakpoint" /\ HitAddress(t) = mo.ret

\* Mutant: the temporary breakpoint goes away only if it was reached.
EndRunMutant(t, stop, tempThen, instThen, pendThen) ==
  LET gone == Returned(t, stop)
  IN /\ temp' = IF gone THEN None ELSE tempThen
     /\ inst' = IF gone THEN instThen \ {mo.temp} ELSE instThen
     /\ pend' = IF gone /\ pendThen.addr = mo.temp THEN NoPend ELSE pendThen

\* remove_temporary_breakpoint after the run.
EndRun(t, stop, tempThen, instThen, pendThen) ==
  /\ temp' = None
  /\ inst' = IF mo.temp = None THEN instThen ELSE instThen \ {mo.temp}
  /\ pend' = IF mo.temp # None /\ pendThen.addr = mo.temp THEN NoPend ELSE pendThen

\* The table of the image the temporary breakpoint was made in is still there;
\* after an exec discard_image_state has dropped it and the removal throws.
KeepsTable(stop) == stop # "Exec"

\* Mutant: only the file is compared.
SameLineMutant(a) == TRUE

SameLine(a) == Line(a) = mo.line

\* A source position other than the starting one.
Moved(t, stop) ==
  LET a == PcAfter(t, stop)[t] IN Line(a) # 0 /\ ~SameLine(a)

\* After a single step of step or next.
StepVerdict(t, stop) ==
  IF stop # "SingleStep" THEN "Interrupted"
  ELSE IF Moved(t, stop) THEN "LineChanged" ELSE "again"

\* After the run through a call of next.
CallVerdict(t, stop) ==
  IF ~Returned(t, stop) \/ mo.users THEN "Interrupted"
  ELSE IF Moved(t, stop) THEN "LineChanged" ELSE "again"

FinishVerdict(t, stop) ==
  IF Returned(t, stop) /\ ~mo.users THEN "Returned" ELSE "Interrupted"

\* What the motion makes of the stop: go on, or return a result.
Verdict(t, stop) ==
  IF mo.temp # None /\ ~KeepsTable(stop) THEN "threw"
  ELSE IF mo.kind \in {"continue", "stepi"} THEN "Stopped"
  ELSE IF mo.kind = "finish" THEN FinishVerdict(t, stop)
  ELSE IF mo.ret # None THEN CallVerdict(t, stop)
  ELSE StepVerdict(t, stop)

\* Mutant: the turn of the loop is not counted.
CountedMutant == [mo EXCEPT !.temp = None, !.ret = None]

Counted == [mo EXCEPT !.n = @ + 1, !.temp = None, !.ret = None]

\* The displaced step of continue_execution succeeded: now it continues.
GoesOn(t, stop) == wmode = "overgo" /\ stop = "SingleStep"

Collect(t) ==
  /\ phase = "wait" /\ ev[t] # "none"
  /\ LET stop == Classify(t)
         verdict == Verdict(t, stop)
     IN /\ ev' = [ev EXCEPT ![t] = "none"]
        /\ cur' = t
        /\ pc' = PcAfter(t, stop)
        /\ stk' = IF stop = "Exec" THEN [stk EXCEPT ![t] = <<>>] ELSE stk
        /\ user' = IF stop = "Exec" THEN {} ELSE user
        /\ wish' = IF stop = "Exec" THEN {} ELSE wish
        /\ astray' = (astray \/ (Returned(t, stop) /\ mo.ret # None
                                 /\ t = mo.tid /\ Len(stk[t]) # mo.frame
                                 /\ mo.ret \notin Range(stk[t])))
        /\ IF GoesOn(t, stop)
           THEN /\ st' = [st EXCEPT ![t] = "Running"] /\ wmode' = "go"
                /\ inst' = InstAfter(t, stop) /\ pend' = PendAfter(t, stop)
                /\ UNCHANGED <<temp, phase, mo, res>>
           ELSE /\ st' = [st EXCEPT ![t] = "Stopped"] /\ wmode' = "none"
                /\ EndRun(t, stop, IF stop = "Exec" THEN None ELSE temp,
                          InstAfter(t, stop), PendAfter(t, stop))
                /\ phase' = IF verdict = "again" THEN "loop" ELSE "idle"
                /\ mo' = IF verdict = "again"
                         THEN Counted ELSE NoMotion
                /\ res' = IF verdict = "again" THEN res
                          ELSE Outcome(verdict, stop, t)
  /\ UNCHANGED <<alive, ran>>

\* The wait throws.  The temporary breakpoint is removed only if the current
\* task is not Running then.
WaitThrows(stopped) ==
  /\ "throw" \in prog.faults /\ phase = "wait" /\ wmode = "go" /\ alive
  /\ \A t \in Tid : ev[t] = "none"
  /\ st' = IF stopped THEN [st EXCEPT ![cur] = "Stopped"] ELSE st
  /\ IF mo.temp # None /\ stopped
     THEN temp' = None /\ inst' = inst \ {mo.temp}
     ELSE UNCHANGED <<temp, inst>>
  /\ phase' = "idle" /\ wmode' = "none" /\ mo' = NoMotion
  /\ res' = [kind |-> mo.kind, reason |-> "threw", stop |-> "none", tid |-> cur,
             line |-> Line(pc[cur]), depth |-> Len(stk[cur])]
  /\ UNCHANGED <<pc, stk, ev, alive, user, pend, cur, wish, ran, astray>>

Motion == StepTurn \/ NextTurn \/ LimitReached \/ Finish \/ Plain

Next ==
  \/ \E t \in Tid : RunInstr(t)
  \/ \E t \in Tid : EndImage(t)
  \/ \E t \in Tid : Signal(t)
  \/ \E a \in prog.users : AddBreakpoint(a)
  \/ \E a \in prog.users : DeleteBreakpoint(a)
  \/ \E t \in Tid : SelectThread(t)
  \/ Begin
  \/ StepTurn
  \/ NextTurn
  \/ LimitReached
  \/ Finish
  \/ Plain
  \/ \E t \in Tid : Collect(t)
  \/ \E b \in BOOLEAN : WaitThrows(b)

Spec == Init /\ [][Next /\ UNCHANGED prog]_<<vars, prog>>

\* The tracee runs and waitpid returns what the kernel holds.
Fairness ==
  /\ WF_vars(Motion)
  /\ \A t \in Threads : /\ WF_vars(t \in Tid /\ RunInstr(t))
                       /\ WF_vars(t \in Tid /\ EndImage(t))
                       /\ WF_vars(t \in Tid /\ Collect(t))

LiveSpec == Spec /\ Fairness

(***************************************************************************)
(* Properties.                                                             *)
(***************************************************************************)

(***************************************************************************)
(* Whatever ended a motion (a return, another breakpoint, a signal, the    *)
(* end of the image, an exception of the wait that found the task          *)
(* stopped), at the next prompt the breakpoints are as the user set them.  *)
(* All of the user's are in the table and in memory, but the one the       *)
(* current task is stopped at, and the temporary one of next or finish is  *)
(* neither in the table nor in memory nor the pending displaced step.      *)
(***************************************************************************)
UserArmed ==
  phase = "idle" /\ Stopped =>
    /\ user = wish /\ user \ inst \subseteq {pend.addr}
    /\ temp = None /\ inst \subseteq user /\ pend.addr \in user \cup {None}

(***************************************************************************)
(* step and next stop at the first other source line: while one of them    *)
(* is under way its frame and its callers have run no instruction of a     *)
(* line other than the one it started on.                                  *)
(***************************************************************************)
NoLineSkipped == mo.kind \in {"step", "next"} => ran \subseteq {mo.line, 0}

(***************************************************************************)
(* When next or finish concludes in its own thread that the call returned, *)
(* the frame it waited for is the one at the return address, never one     *)
(* further out.  Only a deeper activation of the same code, whose caller   *)
(* then still has that return address on the stack, is taken for it.       *)
(***************************************************************************)
ReturnsInFrame == ~astray

(***************************************************************************)
(* step and next always give the prompt back: by a line change, an         *)
(* interruption or the instruction limit, also where the line loops for    *)
(* ever.                                                                   *)
(***************************************************************************)
MotionEnds == mo.kind \in {"step", "next"} ~> phase = "idle"
=============================================================================
