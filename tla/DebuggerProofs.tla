--------------------------- MODULE DebuggerProofs ---------------------------
(***************************************************************************)
(* Type correctness, the single runner, who a displaced step and a pending *)
(* signal belong to, and byte accounting, for every set of threads, code   *)
(* size, image and command set.                                            *)
(*                                                                         *)
(* All but the last hold whatever races occur.  While a thread runs there  *)
(* is nothing but clone events to collect, so the debugger that waits for  *)
(* it neither returns nor resumes another one.  Between a hit and the end  *)
(* of its displaced step nothing but that step resumes a thread; and the   *)
(* leader is reported dead last, so the registry is not empty, and the     *)
(* displaced step not dropped, while threads are left.                     *)
(*                                                                         *)
(* Byte accounting is not inductive: exec replaces the image behind the    *)
(* breakpoint table's back, so one has to know that from the execve to the *)
(* collected exec stop the debugger stays inside waitpid and collects      *)
(* nothing that would make it write.  That is the control invariant.  It   *)
(* needs that an execve takes at most one other thread with it (no         *)
(* late_exec): with two, the debugger does return in between.              *)
(***************************************************************************)
EXTENDS Debugger, TLAPS, WellFoundedInduction

\* Most leaves are first-order; the others name their prover.
USE Zenon

-----------------------------------------------------------------------------
(* What the helpers of the task registry return.                           *)

\* The first key of a non-empty map is one of its keys.
LEMMA FirstOfMember ==
  ASSUME NEW S \in SUBSET Tid, S # {}
  PROVE  FirstOf(S) \in S
<1>1. \E x \in S : \A y \in S : <<y, x>> \notin OpToRel(<, Nat)
  BY TidAssumption, NatLessThanWellFounded, WFMin
<1>2. \A x, y \in Nat : <<y, x>> \notin OpToRel(<, Nat) => x <= y
  BY SMT DEF OpToRel
<1>. QED BY <1>1, <1>2, TidAssumption DEF FirstOf

\* select_current_task yields a traced thread, stopped when there is one.
LEMMA SelectCurrentTask ==
  ASSUME NEW ts \in [Tid -> TaskState]
  PROVE  /\ select_current_task(ts) \in Tid \cup {NoTid}
         /\ StoppedTids(ts) # {} => select_current_task(ts) \in StoppedTids(ts)
         /\ tids(ts) # {} => select_current_task(ts) \in tids(ts)
<1>1. StoppedTids(ts) # {} => FirstOf(StoppedTids(ts)) \in StoppedTids(ts)
  BY FirstOfMember DEF StoppedTids
<1>2. tids(ts) # {} => FirstOf(tids(ts)) \in tids(ts)
  BY FirstOfMember DEF tids
<1>. QED
  BY <1>1, <1>2 DEF select_current_task, StoppedTids, tids, TaskState

-----------------------------------------------------------------------------
(* Type correctness.                                                       *)

\* Every stop that wait_and_classify names has a reason.
LEMMA ReasonType ==
  ASSUME NEW t \in Tid, kev[t].kind \in {"sig", "trap"}
  PROVE  Reason(t) \in StopReason
BY DEF Reason, StopReason

\* Addresses, and the addresses next to them.
LEMMA AddrFacts ==
  /\ \A a \in Addr : a \in 0 .. CodeSize /\ a + 1 \in 0 .. CodeSize
  /\ -1 \notin Addr
BY ConstantAssumption, SMT DEF Addr

\* The records of breakpoints.
LEMMA BreakpointFacts ==
  /\ NoBreak \in Breakpoint /\ NoBreak.id = 0 /\ NoBreak.installed = FALSE
  /\ \A b \in Breakpoint : b.id \in Nat /\ b.original_byte \in Byte /\ b.installed \in BOOLEAN
BY ConstantAssumption DEF NoBreak, Breakpoint

\* A breakpoint whose saved byte or whose installed flag is replaced.
LEMMA BreakpointUpdates ==
  ASSUME NEW b \in Breakpoint, NEW y \in Byte, NEW i \in BOOLEAN
  PROVE  /\ [b EXCEPT !.original_byte = y] \in Breakpoint
         /\ [b EXCEPT !.installed = i] \in Breakpoint
BY DEF Breakpoint

\* Launch and attach leave well-typed state.
LEMMA TypeInit == Init => TypeOK
<1>. SUFFICES ASSUME Init PROVE TypeOK
  OBVIOUS
<1>1. kst \in [Tid -> {"none", "born", "run", "step", "stop", "exec", "dead"}]
  BY DEF Init
<1>2. tasks \in [Tid -> TaskState]
  BY DEF Init, TaskState
<1>3. kev \in [Tid -> WaitStatus] /\ \A t \in Tid : kev[t].kind # "clone"
  BY DEF Init, NoEvent, WaitStatus
<1>4. bp \in [Addr -> Breakpoint]
  BY BreakpointFacts DEF Init
<1>5. pend \in [address : Addr \cup {-1}, tid : Tid \cup {NoTid}]
  BY DEF Init, NoPend
<1>6. stop \in [reason : StopReason, tid : Tid, address : Addr \cup {-1}]
  BY TidAssumption DEF Init, StopInfo, StopReason
<1>. QED
  BY <1>1, <1>2, <1>3, <1>4, <1>5, <1>6, TidAssumption, ConstantAssumption
  DEF Init, TypeOK, ProcessState

\* No action of the kernel, of the user or of the wait breaks a type.
LEMMA TypeStep == TypeOK /\ [Next]_vars => TypeOK'
<1>. SUFFICES ASSUME TypeOK, [Next]_vars PROVE TypeOK'
  OBVIOUS
<1>. USE TidAssumption
<1>1. ASSUME NEW t \in Tid, Execute(t) PROVE TypeOK'
  <2>1. rip' \in [Tid -> 0 .. CodeSize]
    <3>1. CASE mem[rip[t]] = INT3 /\ rip' = [rip EXCEPT ![t] = @ + 1]
      BY <1>1, <3>1, AddrFacts DEF Execute, TypeOK
    <3>2. CASE \E next \in 0 .. CodeSize : rip' = [rip EXCEPT ![t] = next]
      BY <3>2, SMT DEF TypeOK
    <3>. QED
      BY <1>1, <3>1, <3>2 DEF Execute
  <2>2. owed' \in [Tid -> BOOLEAN]
    BY <1>1, BreakpointFacts, SMT DEF Execute, TypeOK
  <2>3. \/ kst' = kst /\ kev' = kev
        \/ kst' = [kst EXCEPT ![t] = "stop"] /\ kev' = [kev EXCEPT ![t] = Event("trap", 0)]
    BY <1>1 DEF Execute
  <2>4. kst' \in [Tid -> {"none", "born", "run", "step", "stop", "exec", "dead"}]
    BY <2>3 DEF TypeOK
  <2>5. kev' \in [Tid -> WaitStatus]
    BY <2>3, SMT DEF TypeOK, Event, WaitStatus
  <2>6. \A x \in Tid : kev'[x].kind = "clone" => kev'[x].val \in Tid
    BY <2>3, SMT DEF TypeOK, Event, WaitStatus
  <2>. QED
    BY <1>1, <2>1, <2>2, <2>4, <2>5, <2>6 DEF Execute, TypeOK, processVars
<1>2. ASSUME NEW t \in Tid, TakeSignal(t) PROVE TypeOK'
  BY <1>2, ConstantAssumption, SMT DEF TakeSignal, TypeOK, processVars, Event, WaitStatus
<1>3. ASSUME NEW t \in Tid, NEW u \in Tid, Clone(t, u) PROVE TypeOK'
  BY <1>3, SMT DEF Clone, TypeOK, processVars, Event, WaitStatus
<1>4. ASSUME NEW t \in Tid, Start(t) PROVE TypeOK'
  BY <1>4, ConstantAssumption DEF Start, TypeOK, processVars, Event, WaitStatus
<1>5. ASSUME NEW t \in Tid, Die(t) PROVE TypeOK'
  <2>1. PICK k \in {"exit", "killed"} :
          kev' = IF t = Leader THEN kev ELSE [kev EXCEPT ![t] = Event(k, 0)]
    BY <1>5 DEF Die
  <2>2. kev' \in [Tid -> WaitStatus]
    BY <2>1 DEF TypeOK, Event, WaitStatus
  <2>3. \A x \in Tid : kev'[x].kind = "clone" => kev'[x].val \in Tid
    BY <2>1 DEF TypeOK, Event, WaitStatus
  <2>. QED
    BY <1>5, <2>2, <2>3 DEF Die, TypeOK, processVars
<1>6. ASSUME NEW t \in Tid, DieTogether(t) PROVE TypeOK'
  <2>1. PICK k \in {"exit", "killed"} :
          kev' = [u \in Tid |-> IF u = Leader THEN NoEvent
                                ELSE IF u \in Live THEN Event(k, 0) ELSE kev[u]]
    BY <1>6 DEF DieTogether
  <2>2. kev' \in [Tid -> WaitStatus]
    BY <2>1 DEF TypeOK, Event, NoEvent, WaitStatus
  <2>3. \A x \in Tid : kev'[x].kind = "clone" => kev'[x].val \in Tid
    BY <2>1 DEF TypeOK, Event, NoEvent, WaitStatus
  <2>. QED
    BY <1>6, <2>2, <2>3 DEF DieTogether, TypeOK, processVars
<1>7. ASSUME ReportLeader PROVE TypeOK'
  BY <1>7, SMT DEF ReportLeader, TypeOK, processVars, Event, WaitStatus
<1>8. ASSUME NEW t \in Tid, BeginExec(t) PROVE TypeOK'
  <2>1. kst' \in [Tid -> {"none", "born", "run", "step", "stop", "exec", "dead"}]
    BY <1>8 DEF BeginExec
  <2>2. kev' = [u \in Tid |-> IF u # t /\ u # Leader /\ u \in Live THEN Event("exit", 0)
                              ELSE IF u = Leader THEN NoEvent ELSE kev[u]]
    BY <1>8 DEF BeginExec
  <2>3. kev' \in [Tid -> WaitStatus]
    BY <2>2 DEF TypeOK, Event, NoEvent, WaitStatus
  <2>4. \A x \in Tid : kev'[x].kind = "clone" => kev'[x].val \in Tid
    BY <2>2 DEF TypeOK, Event, NoEvent, WaitStatus
  <2>. QED
    BY <1>8, <2>1, <2>3, <2>4 DEF BeginExec, TypeOK, processVars
<1>9. ASSUME NEW t \in Tid, FinishExec(t) PROVE TypeOK'
  <2>1. kev' = [u \in Tid |-> IF u = Leader THEN Event("exec", 0) ELSE NoEvent]
    BY <1>9 DEF FinishExec
  <2>2. kev' \in [Tid -> WaitStatus] /\ \A x \in Tid : kev'[x].kind # "clone"
    BY <2>1 DEF Event, NoEvent, WaitStatus
  <2>3. mem' \in [Addr -> Byte] /\ prog' \in [Addr -> Byte]
    BY <1>9, ConstantAssumption DEF FinishExec
  <2>4. kst' \in [Tid -> {"none", "born", "run", "step", "stop", "exec", "dead"}]
    BY <1>9 DEF FinishExec
  <2>5. rip' \in [Tid -> 0 .. CodeSize]
    BY <1>9, ConstantAssumption, SMT DEF FinishExec
  <2>. QED
    BY <1>9, <2>2, <2>3, <2>4, <2>5 DEF FinishExec, TypeOK, processVars
<1>10. ASSUME NEW a \in Addr, add_breakpoint(a) PROVE TypeOK'
  <2>1. bp' \in [Addr -> Breakpoint]
    BY <1>10 DEF add_breakpoint, TypeOK, Breakpoint
  <2>. QED
    BY <1>10, <2>1, ConstantAssumption, SMT DEF add_breakpoint, TypeOK, kernelVars, processVars
<1>11. ASSUME NEW a \in Addr, remove_breakpoint(a) PROVE TypeOK'
  <2>1. bp' \in [Addr -> Breakpoint]
    BY <1>11, BreakpointFacts, SMT DEF remove_breakpoint, TypeOK
  <2>2. mem' \in [Addr -> Byte]
    BY <1>11, BreakpointFacts DEF remove_breakpoint, TypeOK
  <2>. QED
    BY <1>11, <2>1, <2>2, SMT DEF remove_breakpoint, TypeOK, kernelVars, processVars, NoPend, Throw
<1>12. ASSUME NEW lo \in Addr, NEW hi \in 0 .. CodeSize, NEW w \in [lo .. hi -> Byte],
              write_memory(lo, hi, w)
       PROVE TypeOK'
  <2>1. bp' \in [Addr -> Breakpoint]
    <3>1. ASSUME NEW a \in Addr
          PROVE  bp'[a] = bp[a] \/ (a \in lo .. hi /\ bp'[a] = [bp[a] EXCEPT !.original_byte = w[a]])
      BY <1>12, <3>1 DEF write_memory
    <3>2. ASSUME NEW a \in Addr PROVE bp'[a] \in Breakpoint
      <4>1. bp[a] \in Breakpoint /\ (a \in lo .. hi => w[a] \in Byte)
        BY DEF TypeOK
      <4>2. CASE bp'[a] = bp[a]
        BY <4>1, <4>2
      <4>3. CASE a \in lo .. hi /\ bp'[a] = [bp[a] EXCEPT !.original_byte = w[a]]
        <5>1. bp[a] \in Breakpoint /\ w[a] \in Byte
          BY <4>1, <4>3
        <5>. QED
          BY <4>3, <5>1, BreakpointUpdates
      <4>. QED
        BY <3>1, <4>2, <4>3
    <3>3. bp' = [a \in Addr |-> bp'[a]]
      BY <1>12 DEF write_memory
    <3>. QED
      BY <3>2, <3>3
  <2>2. mem' \in [Addr -> Byte] /\ prog' \in [Addr -> Byte]
    BY <1>12 DEF write_memory, TypeOK
  <2>. QED
    BY <1>12, <2>1, <2>2 DEF write_memory, TypeOK, processVars
<1>13. ASSUME NEW t \in Tid, select_thread(t) PROVE TypeOK'
  BY <1>13 DEF select_thread, TypeOK, kernelVars, breakVars
<1>14. ASSUME NEW command \in {"continue", "stepi"}, NEW how \in {"run", "step"},
              Resume(command, how)
       PROVE TypeOK'
  BY <1>14 DEF Resume, TypeOK, mark_running, update_aggregate_state, TaskState, ProcessState,
     stopped_tid_ok, breakVars, NoEvent, WaitStatus, NoTid
<1>15. ASSUME NEW command \in {"continue", "stepi"}, step_over_pending_breakpoint(command)
       PROVE TypeOK'
  <2>1. /\ kst' \in [Tid -> {"none", "born", "run", "step", "stop", "exec", "dead"}]
        /\ tasks' \in [Tid -> TaskState]
    BY <1>15 DEF step_over_pending_breakpoint, TypeOK, mark_running, TaskState
  <2>2. kev' \in [Tid -> WaitStatus] /\ \A u \in Tid : kev'[u] \in {kev[u], NoEvent}
    BY <1>15 DEF step_over_pending_breakpoint, TypeOK, NoEvent, WaitStatus
  <2>3. \A u \in Tid : kev'[u].kind = "clone" => kev'[u].val \in Tid
    BY <2>2, SMT DEF TypeOK, NoEvent
  <2>4. pstate' \in ProcessState
    BY <1>15 DEF step_over_pending_breakpoint, mark_running, update_aggregate_state, ProcessState
  <2>5. call' \in {"over_continue", "over_stepi"}
    BY <1>15 DEF step_over_pending_breakpoint
  <2>6. UNCHANGED <<rip, prog, owed, cur, breakVars, origin, pthr, psig, stop>>
    BY <1>15 DEF step_over_pending_breakpoint
  <2>. QED
    BY <2>1, <2>2, <2>3, <2>4, <2>5, <2>6 DEF TypeOK, breakVars
<1>16. ASSUME MotionFails PROVE TypeOK'
  BY <1>16 DEF MotionFails, TypeOK, Throw, kernelVars, processVars, breakVars
<1>17. restored_mem \in [Addr -> Byte] /\ restored_bp \in [Addr -> Breakpoint]
  <2>1. \A a \in Addr : bp[a] \in Breakpoint /\ mem[a] \in Byte
    BY DEF TypeOK
  <2>2. \A a \in Addr : [bp[a] EXCEPT !.installed = FALSE] \in Breakpoint
    BY <2>1, BreakpointUpdates, ConstantAssumption
  <2>3. restored_bp \in [Addr -> Breakpoint]
    BY <2>2 DEF restored_bp
  <2>. QED
    BY <2>1, <2>3, BreakpointFacts DEF restored_mem
<1>18. ASSUME detach PROVE TypeOK'
  <2>1. bp' \in [Addr -> Breakpoint]
    BY <1>18, <1>17, BreakpointFacts, SMT DEF detach, TypeOK
  <2>2. mem' \in [Addr -> Byte]
    BY <1>18, <1>17 DEF detach, TypeOK
  <2>3. tasks' \in [Tid -> TaskState] /\ cur' \in Tid \cup {NoTid}
    BY <1>18 DEF detach, TypeOK, TaskState
  <2>4. pend' \in [address : Addr \cup {-1}, tid : Tid \cup {NoTid}]
    BY <1>18, SMT DEF detach, TypeOK, NoPend
  <2>5. /\ pthr' = {} \/ pthr' = pthr
        /\ psig' = [t \in Tid |-> 0] \/ psig' = psig
        /\ call' = "threw" \/ call' = "detached"
    BY <1>18 DEF detach, Throw
  <2>6. pthr' \subseteq Tid /\ psig' \in [Tid -> Nat]
    <3>1. pthr' \subseteq Tid
      BY <2>5 DEF TypeOK
    <3>2. CASE psig' = psig
      BY <3>1, <3>2 DEF TypeOK
    <3>3. CASE psig' = [t \in Tid |-> 0]
      BY <3>1, <3>3
    <3>. QED
      BY <2>5, <3>2, <3>3
  <2>7. UNCHANGED <<kernelVars, pstate, origin, nextId, stop>>
    BY <1>18 DEF detach
  <2>. QED
    BY <2>1, <2>2, <2>3, <2>4, <2>5, <2>6, <2>7 DEF TypeOK, kernelVars
<1>19. ASSUME destroy PROVE TypeOK'
  <2>1. bp' \in [Addr -> Breakpoint]
    BY <1>19, BreakpointFacts DEF destroy
  <2>2. kev' \in [Tid -> WaitStatus]
    BY <1>19 DEF destroy, TypeOK, NoEvent, WaitStatus
  <2>3. \A x \in Tid : kev'[x].kind = "clone" => kev'[x].val \in Tid
    BY <1>19 DEF destroy, TypeOK, NoEvent
  <2>4. mem' \in [Addr -> Byte]
    BY <1>19, <1>17 DEF destroy, TypeOK
  <2>5. kst' \in [Tid -> {"none", "born", "run", "step", "stop", "exec", "dead"}]
    BY <1>19 DEF destroy, TypeOK
  <2>. QED
    BY <1>19, <2>1, <2>2, <2>3, <2>4, <2>5 DEF destroy, TypeOK, NoPend, TaskState
<1>20. ASSUME NEW a \in Addr \cup {-1}
       PROVE  reinserted_mem(a) \in [Addr -> Byte] /\ reinserted_bp(a) \in [Addr -> Breakpoint]
  <2>1. reinserted_mem(a) \in [Addr -> Byte]
    BY ConstantAssumption DEF TypeOK, reinserted_mem
  <2>2. ASSUME NEW x \in Addr
        PROVE  reinserted_bp(a)[x] \in Breakpoint
    BY BreakpointUpdates DEF TypeOK, reinserted_bp
  <2>3. reinserted_bp(a) = [x \in Addr |-> reinserted_bp(a)[x]]
    BY DEF TypeOK, reinserted_bp
  <2>. QED
    BY <2>1, <2>2, <2>3
<1>21. ASSUME NEW ts, NEW c, Return(ts, c)
       PROVE  /\ mem' \in [Addr -> Byte] /\ bp' \in [Addr -> Breakpoint]
              /\ pend' \in [address : Addr \cup {-1}, tid : Tid \cup {NoTid}]
              /\ call' \in {"idle", "threw"}
  <2>1. pend.address \in Addr \cup {-1}
    BY DEF TypeOK
  <2>2. CASE UNCHANGED <<mem, bp, pend>> /\ call' \in {"idle", "threw"}
    BY <2>2 DEF TypeOK
  <2>3. CASE /\ mem' = reinserted_mem(pend.address) /\ bp' = reinserted_bp(pend.address)
             /\ pend' = NoPend /\ call' = "idle"
    BY <1>20, <2>1, <2>3 DEF NoPend
  <2>. QED
    BY <1>21, <2>2, <2>3 DEF Return, StepOverReturns, Throw
<1>22. ASSUME NEW t \in Tid, NEW address \in Addr \cup {-1}, RecordStop(t, address)
       PROVE  /\ kev' \in [Tid -> WaitStatus]
              /\ \A x \in Tid : kev'[x].kind = "clone" => kev'[x].val \in Tid
              /\ cur' \in Tid \cup {NoTid}
              /\ pthr' \subseteq Tid
              /\ stop' \in [reason : StopReason, tid : Tid, address : Addr \cup {-1}]
  <2>1. kev' = [kev EXCEPT ![t] = NoEvent]
    BY <1>22 DEF RecordStop
  <2>2. kev' \in [Tid -> WaitStatus]
    BY <2>1 DEF TypeOK, NoEvent, WaitStatus
  <2>3. \A x \in Tid : kev'[x].kind = "clone" => kev'[x].val \in Tid
    BY <2>1 DEF TypeOK, NoEvent, WaitStatus
  <2>4. stop' \in [reason : StopReason, tid : Tid, address : Addr \cup {-1}]
    BY <1>22, ReasonType DEF RecordStop, StopInfo
  <2>. QED
    BY <1>22, <2>2, <2>3, <2>4 DEF RecordStop, TypeOK
<1>23. ASSUME NEW t \in Tid, WaitStop(t) PROVE TypeOK'
  <2>1. RecordStop(t, -1) /\ Return(tasks', t)
    BY <1>23 DEF WaitStop
  <2>2. tasks' \in [Tid -> TaskState] /\ pstate' \in ProcessState
    BY <1>23 DEF WaitStop, TypeOK, TaskState, ProcessState
  <2>3. psig' \in [Tid -> Nat]
    BY <1>23 DEF WaitStop, TypeOK, WaitStatus
  <2>. QED
    BY <1>21, <1>22, <1>23, <2>1, <2>2, <2>3 DEF WaitStop, TypeOK
<1>24. ASSUME NEW t \in Tid, WaitBreakpoint(t) PROVE TypeOK'
  <2>1. rip[t] - 1 \in Addr
    BY <1>24 DEF WaitBreakpoint, trap_address, rewound, Reason, BreakpointAt
  <2>2. RecordStop(t, rip[t] - 1)
    BY <1>24 DEF WaitBreakpoint, trap_address, rewound
  <2>3. tasks' \in [Tid -> TaskState] /\ pstate' \in ProcessState
    BY <1>24 DEF WaitBreakpoint, trap_address, rewound, TypeOK, TaskState, ProcessState
  <2>4. rip' \in [Tid -> 0 .. CodeSize] /\ owed' \in [Tid -> BOOLEAN]
    BY <1>24, <2>1, AddrFacts DEF WaitBreakpoint, trap_address, rewound, TypeOK
  <2>5. mem' \in [Addr -> Byte]
    BY <1>24, <2>1, BreakpointFacts DEF WaitBreakpoint, trap_address, rewound, TypeOK
  <2>6. bp' \in [Addr -> Breakpoint]
    <3>1. bp' = [bp EXCEPT ![rip[t] - 1] = [bp[rip[t] - 1] EXCEPT !.installed = FALSE]]
      BY <1>24 DEF WaitBreakpoint, trap_address, rewound
    <3>2. bp[rip[t] - 1] \in Breakpoint
      BY <2>1 DEF TypeOK
    <3>3. [bp[rip[t] - 1] EXCEPT !.installed = FALSE] \in Breakpoint
      BY <3>2 DEF Breakpoint
    <3>. QED
      BY <3>1, <3>3 DEF TypeOK
  <2>7. pend' \in [address : Addr \cup {-1}, tid : Tid \cup {NoTid}] /\ call' = "idle"
    BY <1>24, <2>1 DEF WaitBreakpoint, trap_address, rewound
  <2>8. UNCHANGED <<kst, prog, origin, nextId, psig>>
    BY <1>24 DEF WaitBreakpoint, trap_address, rewound
  <2>. QED
    BY <1>22, <2>1, <2>2, <2>3, <2>4, <2>5, <2>6, <2>7, <2>8 DEF TypeOK
<1>25. ASSUME NEW t \in Tid, WaitDisplacedStep(t) PROVE TypeOK'
  <2>1. RecordStop(t, -1)
    BY <1>25 DEF WaitDisplacedStep
  <2>2. /\ kst' \in [Tid -> {"none", "born", "run", "step", "stop", "exec", "dead"}]
        /\ psig' \in [Tid -> Nat]
    BY <1>25 DEF WaitDisplacedStep, TypeOK
  <2>3. tasks' \in [Tid -> TaskState] /\ pstate' \in ProcessState
    BY <1>25 DEF WaitDisplacedStep, TypeOK, TaskState, ProcessState, update_aggregate_state
  <2>4. mem' \in [Addr -> Byte] /\ bp' \in [Addr -> Breakpoint]
    BY <1>20, <1>25 DEF WaitDisplacedStep, TypeOK
  <2>5. pend' \in [address : Addr \cup {-1}, tid : Tid \cup {NoTid}] /\ call' = "continue"
    BY <1>25 DEF WaitDisplacedStep, NoPend
  <2>6. UNCHANGED <<rip, prog, owed, origin, nextId>>
    BY <1>25 DEF WaitDisplacedStep
  <2>. QED
    BY <1>22, <2>1, <2>2, <2>3, <2>4, <2>5, <2>6 DEF TypeOK
<1>26. ASSUME NEW t \in Tid, WaitClone(t) PROVE TypeOK'
  <2>1. kev' = [kev EXCEPT ![t] = NoEvent]
    BY <1>26 DEF WaitClone
  <2>2. kev' \in [Tid -> WaitStatus]
    BY <2>1 DEF TypeOK, NoEvent, WaitStatus
  <2>3. \A x \in Tid : kev'[x].kind = "clone" => kev'[x].val \in Tid
    BY <2>1 DEF TypeOK, NoEvent, WaitStatus
  <2>4. tasks' \in [Tid -> TaskState] /\ pstate' \in ProcessState
    BY <1>26 DEF WaitClone, TypeOK, TaskState, ProcessState
  <2>5. pthr' \subseteq Tid
    BY <1>26 DEF WaitClone, TypeOK
  <2>. QED
    BY <1>26, <2>2, <2>3, <2>4, <2>5 DEF WaitClone, TypeOK, breakVars
<1>27. ASSUME NEW t \in Tid, WaitExit(t) PROVE TypeOK'
  <2>. DEFINE ts == [tasks EXCEPT ![t] = "none"]
  <2>1. ts \in [Tid -> TaskState]
    BY DEF TypeOK, TaskState
  <2>2. tasks' = ts /\ cur' = select_current_task(ts)
    BY <1>27 DEF WaitExit
  <2>3. cur' \in Tid \cup {NoTid}
    BY <2>1, <2>2, SelectCurrentTask
  <2>4. kev' = [kev EXCEPT ![t] = NoEvent]
    BY <1>27 DEF WaitExit
  <2>5. kev' \in [Tid -> WaitStatus]
    BY <2>4 DEF TypeOK, NoEvent, WaitStatus
  <2>6. \A x \in Tid : kev'[x].kind = "clone" => kev'[x].val \in Tid
    BY <2>4 DEF TypeOK, NoEvent, WaitStatus
  <2>7. kst' \in [Tid -> {"none", "born", "run", "step", "stop", "exec", "dead"}]
    BY <1>27 DEF WaitExit, TypeOK
  <2>8. pthr' \subseteq Tid /\ psig' \in [Tid -> Nat]
    BY <1>27 DEF WaitExit, TypeOK
  <2>9. pstate' \in ProcessState
    BY <1>27 DEF WaitExit, ProcessState
  <2>10. stop' \in [reason : StopReason, tid : Tid, address : Addr \cup {-1}]
    BY <1>27, SMT DEF WaitExit, TypeOK, StopInfo, StopReason
  <2>11. \/ UNCHANGED <<mem, bp>> /\ pend' = NoPend /\ call' = "idle"
         \/ Return(ts, select_current_task(ts))
         \/ UNCHANGED <<mem, bp, pend, call>>
    BY <1>27 DEF WaitExit
  <2>12. /\ mem' \in [Addr -> Byte] /\ bp' \in [Addr -> Breakpoint]
         /\ pend' \in [address : Addr \cup {-1}, tid : Tid \cup {NoTid}]
         /\ call' \in {"idle", "threw", call}
    <3>. HIDE DEF ts
    <3>. QED
      BY <1>21, <2>11, SMT DEF TypeOK, NoPend
  <2>13. UNCHANGED <<rip, prog, owed, origin, nextId>>
    BY <1>27 DEF WaitExit
  <2>. QED
    BY <2>1, <2>2, <2>3, <2>5, <2>6, <2>7, <2>8, <2>9, <2>10, <2>12, <2>13 DEF TypeOK
<1>28. ASSUME NEW t \in Tid, WaitExec(t) PROVE TypeOK'
  <2>1. kev' = [kev EXCEPT ![t] = NoEvent]
    BY <1>28 DEF WaitExec
  <2>2. kev' \in [Tid -> WaitStatus]
    BY <2>1 DEF TypeOK, NoEvent, WaitStatus
  <2>3. \A x \in Tid : kev'[x].kind = "clone" => kev'[x].val \in Tid
    BY <2>1 DEF TypeOK, NoEvent, WaitStatus
  <2>4. tasks' \in [Tid -> TaskState] /\ pstate' \in ProcessState
    BY <1>28 DEF WaitExec, TaskState, ProcessState
  <2>5. bp' \in [Addr -> Breakpoint]
    BY <1>28, BreakpointFacts DEF WaitExec
  <2>6. stop' \in [reason : StopReason, tid : Tid, address : Addr \cup {-1}]
    BY <1>28 DEF WaitExec, StopInfo, StopReason
  <2>. QED
    BY <1>28, <2>2, <2>3, <2>4, <2>5, <2>6 DEF WaitExec, TypeOK, NoPend
<1>29. ASSUME NEW t \in Tid, WaitUntracked(t) PROVE TypeOK'
  BY <1>29 DEF WaitUntracked, TypeOK, Throw, processVars, breakVars, NoEvent, WaitStatus
<1>30. CASE UNCHANGED vars
  BY <1>30 DEF vars, TypeOK
<1>. QED
  BY <1>1, <1>2, <1>3, <1>4, <1>5, <1>6, <1>7, <1>8, <1>9, <1>10, <1>11, <1>12, <1>13,
     <1>14, <1>15, <1>16, <1>18, <1>19, <1>23, <1>24, <1>25, <1>26, <1>27, <1>28, <1>29, <1>30
  DEF Next, Kernel, User, wait_and_classify, continue_execution, single_step

\* Type correctness of the debugger's and the process's state in every
\* session, whatever races occur: in particular the current thread, the
\* displaced step and the last stop always name real threads and addresses.
THEOREM TypeCorrect == Spec => []TypeOK
BY TypeInit, TypeStep, PTL DEF Spec

-----------------------------------------------------------------------------
(* The single runner, whatever races occur.                                *)

\* A thread that runs, or is about to, is the only one; the debugger waits for
\* it, and nothing but clone events is left to collect.
Runs(t) == kst[t] \in {"born", "run", "step"}

OneRunner ==
  \A t \in Tid : Runs(t) =>
    /\ Waiting
    /\ \A u \in Tid : u # t => ~Runs(u) /\ kst[u] # "exec"
    /\ \A u \in Tid : kev[u].kind \in {"none", "clone"}

\* A thread with a wait status other than its death's is stopped.
ReportsKept ==
  /\ \A t \in Tid : kev[t].kind \in {"sig", "trap", "clone", "exec"} => kst[t] = "stop"
  /\ \A t \in Tid : kst[t] \in {"none", "exec"} => kev[t].kind = "none"

\* Other than clone events, there is one report at a time and the debugger
\* waits for it, unless no thread is left that could be resumed.
ReportsAlone ==
  \A u \in Tid : kev[u].kind \notin {"none", "clone"} =>
    \/ Waiting /\ \A x \in Tid : x # u => kev[x].kind \in {"none", "clone"}
    \/ \A x \in Tid : kst[x] \in {"none", "dead", "exec"}
    \/ kev[u].kind = "exec"

\* execve leaves one thread.
ExecLeavesOne ==
  /\ \A t \in Tid : kst[t] = "exec" => \A u \in Tid : u # t => kst[u] \in {"none", "dead"}
  /\ \A t \in Tid : kev[t].kind = "exec" => \A u \in Tid : u # t => kst[u] = "none"

RunInv == OneRunner /\ ReportsKept /\ ReportsAlone /\ ExecLeavesOne

\* A session starts with every thread stopped.
LEMMA RunInit == Init => RunInv
<1>. SUFFICES ASSUME Init PROVE RunInv
  OBVIOUS
<1>1. \A t \in Tid : kst[t] \in {"stop", "none"}
  BY DEF Init
<1>2. \A t \in Tid : kev[t].kind = "none"
  BY DEF Init, NoEvent
<1>. QED
  BY <1>1, <1>2 DEF RunInv, OneRunner, ReportsKept, ReportsAlone, ExecLeavesOne, Runs

\* Before a stopped thread is resumed from the prompt, nothing runs, and only
\* its own exec stop can be uncollected.
LEMMA PromptRuns ==
  ASSUME RunInv, ~Waiting, NEW t \in Tid, kst[t] = "stop"
  PROVE  \A x \in Tid : /\ ~Runs(x) /\ kst[x] # "exec"
                        /\ kev[x].kind \in {"none", "clone"} \/ (x = t /\ kev[x].kind = "exec")
<1>1. \A x \in Tid : ~Runs(x) /\ kst[x] # "exec"
  BY DEF RunInv, OneRunner, ExecLeavesOne
<1>2. ASSUME NEW x \in Tid, kev[x].kind \notin {"none", "clone"} PROVE x = t /\ kev[x].kind = "exec"
  <2>1. kev[x].kind = "exec"
    BY <1>2 DEF RunInv, ReportsAlone
  <2>. QED
    BY <2>1 DEF RunInv, ExecLeavesOne
<1>. QED
  BY <1>1, <1>2

\* What a running thread does stops or kills it, with a report.
LEMMA RunKernel ==
  ASSUME TypeOK, RunInv, Kernel
  PROVE  RunInv'
<1>0. Leader \in Tid
  BY TidAssumption
<1>1. call' = call /\ Waiting' = Waiting
  BY DEF Kernel, Execute, TakeSignal, Clone, Start, Die, DieTogether, ReportLeader, BeginExec,
    FinishExec, Waiting
\* While thread t runs.
<1>2. ASSUME NEW t \in Tid, Runs(t)
      PROVE  /\ Waiting /\ \A x \in Tid : x # t => ~Runs(x) /\ kst[x] # "exec"
             /\ \A x \in Tid : kev[x].kind \in {"none", "clone"}
             /\ \A x \in Tid : kst[x] = "none" => kev[x].kind = "none"
             /\ \A x \in Tid : kev[x].kind = "clone" => kst[x] = "stop"
  BY <1>2 DEF RunInv, OneRunner, ReportsKept
\* It stops or dies with a report.
<1>3. ASSUME NEW t \in Tid, Runs(t), NEW k \in {"trap", "sig", "exit", "killed", "none"},
             NEW s \in {"stop", "dead"}, k \in {"trap", "sig"} => s = "stop",
             \A x \in Tid : kst'[x] = IF x = t THEN s ELSE kst[x],
             \A x \in Tid : kev'[x].kind = IF x = t THEN k ELSE kev[x].kind
      PROVE  RunInv'
  <2>1. \A x \in Tid : ~Runs(x)' /\ kst'[x] # "exec"
    BY <1>2, <1>3 DEF Runs
  <2>2. \A x \in Tid : kev'[x].kind # "exec" /\ (x # t => kev'[x].kind \in {"none", "clone"})
    BY <1>2, <1>3
  <2>3. OneRunner' /\ ExecLeavesOne'
    BY <2>1, <2>2 DEF OneRunner, ExecLeavesOne
  <2>4. ReportsKept'
    BY <1>2, <1>3, <2>1 DEF ReportsKept, Runs
  <2>5. ReportsAlone'
    BY <1>1, <1>2, <1>3, <2>2 DEF ReportsAlone
  <2>. QED
    BY <2>3, <2>4, <2>5 DEF RunInv
<1>4. ASSUME NEW t \in Tid, Execute(t) PROVE RunInv'
  <2>1. \/ kst' = kst /\ kev' = kev
        \/ /\ \A x \in Tid : kst'[x] = IF x = t THEN "stop" ELSE kst[x]
           /\ \A x \in Tid : kev'[x].kind = IF x = t THEN "trap" ELSE kev[x].kind
    BY <1>4, SMT DEF Execute, TypeOK, Event
  <2>2. Runs(t)
    BY <1>4 DEF Execute, Active, Runs
  <2>3. CASE kst' = kst /\ kev' = kev
    BY <1>1, <2>3 DEF RunInv, OneRunner, ReportsKept, ReportsAlone, ExecLeavesOne, Runs
  <2>. QED
    BY <1>3, <2>1, <2>2, <2>3
<1>5. ASSUME NEW t \in Tid, TakeSignal(t) \/ Start(t) PROVE RunInv'
  <2>1. /\ \A x \in Tid : kst'[x] = IF x = t THEN "stop" ELSE kst[x]
        /\ \A x \in Tid : kev'[x].kind = IF x = t THEN "sig" ELSE kev[x].kind
    BY <1>5, SMT DEF TakeSignal, Start, TypeOK, Event
  <2>2. Runs(t)
    BY <1>5 DEF TakeSignal, Start, Active, Runs
  <2>. QED
    BY <1>3, <2>1, <2>2
<1>6. ASSUME NEW t \in Tid, NEW u \in Tid, Clone(t, u) PROVE RunInv'
  <2>1. Runs(t) /\ kst[u] = "none" /\ u # t
    BY <1>6 DEF Clone, Active, Runs
  <2>2. /\ \A x \in Tid : kst'[x] = IF x = u THEN "born" ELSE IF x = t THEN "stop" ELSE kst[x]
        /\ \A x \in Tid : kev'[x].kind = IF x = t THEN "clone" ELSE kev[x].kind
    BY <1>6, <2>1 DEF Clone, TypeOK, Event
  <2>3. \A x \in Tid : (Runs(x)' => x = u) /\ kst'[x] # "exec" /\ kev'[x].kind \in {"none", "clone"}
    BY <1>2, <2>1, <2>2, SMT DEF Runs
  <2>4. ReportsKept'
    BY <1>2, <2>1, <2>2, <2>3 DEF ReportsKept
  <2>. QED
    BY <1>1, <1>2, <2>1, <2>3, <2>4 DEF RunInv, OneRunner, ReportsAlone, ExecLeavesOne
<1>7. ASSUME NEW t \in Tid, Die(t) PROVE RunInv'
  <2>1. PICK k \in {"exit", "killed"} :
          kev' = IF t = Leader THEN kev ELSE [kev EXCEPT ![t] = Event(k, 0)]
    BY <1>7 DEF Die
  <2>2. Runs(t)
    BY <1>7 DEF Die, Active, Runs
  <2>3. kev[t].kind = "none"
    BY <1>2, <2>2 DEF Runs
  <2>4. /\ \A x \in Tid : kst'[x] = IF x = t THEN "dead" ELSE kst[x]
        /\ \A x \in Tid : kev'[x].kind = IF x # t THEN kev[x].kind ELSE IF t = Leader THEN "none" ELSE k
    BY <1>7, <2>1, <2>3 DEF Die, TypeOK, Event
  <2>. QED
    BY <1>3, <2>2, <2>4, SMT
<1>8. ASSUME NEW t \in Tid, DieTogether(t) PROVE RunInv'
  <2>1. PICK k \in {"exit", "killed"} :
          kev' = [u \in Tid |-> IF u = Leader THEN NoEvent
                                ELSE IF u \in Live THEN Event(k, 0) ELSE kev[u]]
    BY <1>8 DEF DieTogether
  <2>2. Runs(t)
    BY <1>8 DEF DieTogether, Active, Runs
  <2>3. \A x \in Tid : kst'[x] = IF kst[x] = "none" THEN "none" ELSE "dead"
    BY <1>8 DEF DieTogether
  <2>4. \A x \in Tid : kev'[x].kind \in {"none", k} /\ (kst[x] = "none" => kev'[x].kind = "none")
    BY <1>2, <2>1, <2>2 DEF Event, NoEvent, Live
  <2>. QED
    BY <2>3, <2>4 DEF RunInv, OneRunner, ReportsKept, ReportsAlone, ExecLeavesOne, Runs
<1>9. ASSUME ReportLeader PROVE RunInv'
  <2>1. PICK k \in {"exit", "killed"} : kev' = [kev EXCEPT ![Leader] = Event(k, 0)]
    BY <1>9 DEF ReportLeader
  <2>2. kst' = kst /\ \A x \in Tid : kev'[x].kind = IF x = Leader THEN k ELSE kev[x].kind
    BY <1>9, <2>1 DEF ReportLeader, TypeOK, Event
  <2>3. \A x \in Tid : kst[x] = IF x = Leader THEN "dead" ELSE "none"
    BY <1>9 DEF ReportLeader, Present
  <2>4. \A x \in Tid : x # Leader => kev[x].kind = "none"
    BY <2>3 DEF RunInv, ReportsKept
  <2>. QED
    BY <2>2, <2>3, <2>4, SMT DEF RunInv, OneRunner, ReportsKept, ReportsAlone, ExecLeavesOne, Runs
<1>10. ASSUME NEW t \in Tid, BeginExec(t) PROVE RunInv'
  <2>1. Runs(t)
    BY <1>10 DEF BeginExec, Active, Runs
  <2>2. /\ \A x \in Tid : kst'[x] = IF x = t THEN "exec"
                                    ELSE IF kst[x] = "none" \/ x = Leader THEN "none" ELSE "dead"
        /\ \A x \in Tid : kev'[x].kind = IF x # t /\ x # Leader /\ x \in Live THEN "exit"
                                         ELSE IF x = Leader THEN "none" ELSE kev[x].kind
    BY <1>10 DEF BeginExec, Event, NoEvent
  <2>3. \A x \in Tid : kst'[x] \in {"none", "dead", "exec"} /\ (kst'[x] = "exec" <=> x = t)
    BY <2>2
  <2>4. \A x \in Tid : kev'[x].kind \in {"none", "exit"} /\ (kst'[x] \in {"none", "exec"} => kev'[x].kind = "none")
    BY <1>2, <2>1, <2>2 DEF Live, Runs
  <2>. QED
    BY <2>3, <2>4, SMT DEF RunInv, OneRunner, ReportsKept, ReportsAlone, ExecLeavesOne, Runs
<1>11. ASSUME NEW t \in Tid, FinishExec(t) PROVE RunInv'
  <2>1. /\ \A x \in Tid : kst'[x] = IF x = Leader THEN "stop" ELSE "none"
        /\ \A x \in Tid : kev'[x].kind = IF x = Leader THEN "exec" ELSE "none"
    BY <1>11 DEF FinishExec, Event, NoEvent
  <2>. QED
    BY <2>1, SMT DEF RunInv, OneRunner, ReportsKept, ReportsAlone, ExecLeavesOne, Runs
<1>. QED
  BY <1>4, <1>5, <1>6, <1>7, <1>8, <1>9, <1>10, <1>11 DEF Kernel

\* A thread that is resumed while nothing else runs or reports is the only one.
LEMMA RunResumes ==
  ASSUME TypeOK, RunInv, NEW t \in Tid, kst[t] = "stop", NEW how \in {"run", "step"}, Waiting',
         kst' = [kst EXCEPT ![t] = how], kev' = [kev EXCEPT ![t] = NoEvent],
         \A x \in Tid : ~Runs(x) /\ kst[x] # "exec",
         \A x \in Tid : x # t => kev[x].kind \in {"none", "clone"}
  PROVE  RunInv'
<1>1. /\ \A x \in Tid : kst'[x] = IF x = t THEN how ELSE kst[x]
      /\ \A x \in Tid : kev'[x].kind = IF x = t THEN "none" ELSE kev[x].kind
  BY DEF TypeOK, NoEvent
<1>2. \A x \in Tid : (Runs(x)' => x = t) /\ kst'[x] # "exec" /\ kev'[x].kind \in {"none", "clone"}
  BY <1>1, SMT DEF Runs
<1>3. ReportsKept'
  BY <1>1, SMT DEF RunInv, ReportsKept
<1>. QED
  BY <1>2, <1>3 DEF RunInv, OneRunner, ReportsAlone, ExecLeavesOne

\* A command resumes a thread from a prompt at which none runs.
LEMMA RunUser ==
  ASSUME TypeOK, RunInv, User
  PROVE  RunInv'
<1>1. call \in {"idle", "threw"}
  BY DEF User, add_breakpoint, remove_breakpoint, write_memory, select_thread,
    continue_execution, single_step, Resume, step_over_pending_breakpoint, MotionFails, detach,
    destroy, Idle
<1>2. \A x \in Tid : ~Runs(x)
  BY <1>1 DEF RunInv, OneRunner, Waiting
<1>3. ASSUME UNCHANGED <<kst, kev>> PROVE RunInv'
  <2>1. OneRunner'
    BY <1>2, <1>3 DEF OneRunner, Runs
  <2>2. ReportsAlone'
    BY <1>1, <1>3 DEF RunInv, ReportsAlone, Waiting
  <2>. QED
    BY <1>3, <2>1, <2>2 DEF RunInv, ReportsKept, ExecLeavesOne
<1>4. ASSUME NEW command \in {"continue", "stepi"}, NEW how \in {"run", "step"},
             \/ Resume(command, how)
             \/ step_over_pending_breakpoint(command) /\ how = "step"
      PROVE  RunInv'
  <2>1. /\ cur \in Tid /\ kst[cur] = "stop" /\ Waiting' /\ ~Waiting
        /\ kst' = [kst EXCEPT ![cur] = how] /\ kev' = [kev EXCEPT ![cur] = NoEvent]
    BY <1>1, <1>4 DEF Resume, step_over_pending_breakpoint, stopped_tid_ok, Reachable, TypeOK, Waiting
  <2>2. \A x \in Tid : /\ ~Runs(x) /\ kst[x] # "exec"
                       /\ kev[x].kind \in {"none", "clone"} \/ (x = cur /\ kev[x].kind = "exec")
    BY <2>1, PromptRuns
  <2>3. /\ \A x \in Tid : ~Runs(x) /\ kst[x] # "exec"
        /\ \A x \in Tid : x # cur => kev[x].kind \in {"none", "clone"}
    BY <2>2
  <2>. QED
    BY <2>1, <2>3, RunResumes
<1>5. ASSUME destroy PROVE RunInv'
  <2>1. CASE \A x \in Tid : kst'[x] = "none" /\ kev'[x].kind = "none"
    BY <2>1 DEF RunInv, OneRunner, ReportsKept, ReportsAlone, ExecLeavesOne, Runs
  <2>. QED
    BY <1>3, <1>5, <2>1 DEF destroy, NoEvent
<1>6. CASE UNCHANGED <<kst, kev>>
  BY <1>3, <1>6
<1>. QED
  BY <1>4, <1>5, <1>6 DEF User, add_breakpoint, remove_breakpoint, write_memory, select_thread,
    continue_execution, single_step, MotionFails, detach, kernelVars

\* A status is collected while no thread runs, or is a clone event or a death
\* next to which nothing is resumed.
LEMMA RunWait ==
  ASSUME TypeOK, RunInv, NEW t \in Tid, wait_and_classify(t)
  PROVE  RunInv'
<1>1. /\ Waiting /\ kev[t].kind # "none" /\ kev' = [kev EXCEPT ![t] = NoEvent]
      /\ kev[t].kind \in {"sig", "trap", "clone", "exec", "exit", "killed"}
  BY DEF wait_and_classify, WaitStop, WaitBreakpoint, WaitDisplacedStep, RecordStop, WaitClone,
    WaitExit, WaitExec, WaitUntracked
<1>2. \A x \in Tid : kev'[x].kind = IF x = t THEN "none" ELSE kev[x].kind
  BY <1>1 DEF TypeOK, NoEvent
\* Nothing is resumed.
<1>3. ASSUME kst' = kst \/ (kst' = [kst EXCEPT ![t] = "none"] /\ kev[t].kind \in {"exit", "killed"}),
             call' = call \/ kev[t].kind # "clone"
      PROVE  RunInv'
  <2>1. \A x \in Tid : kst'[x] = kst[x] \/ (x = t /\ kst'[x] = "none")
    BY <1>3 DEF TypeOK
  <2>2. ASSUME NEW x \in Tid, Runs(x)' PROVE Runs(x) /\ kev[t].kind = "clone" /\ Waiting'
    BY <1>1, <1>3, <2>1, <2>2 DEF RunInv, OneRunner, Runs, Waiting
  <2>3. OneRunner'
    BY <1>2, <2>1, <2>2 DEF RunInv, OneRunner, Runs
  <2>4. ReportsKept'
    <3>1. \A x \in Tid : kev'[x].kind # "none" => x # t /\ kst'[x] = kst[x] /\ kev'[x].kind = kev[x].kind
      BY <1>2, <2>1
    <3>2. \A x \in Tid : kst'[x] \in {"none", "exec"} => x = t \/ kst[x] \in {"none", "exec"}
      BY <2>1
    <3>. QED
      BY <1>2, <3>1, <3>2 DEF RunInv, ReportsKept
  <2>5. ReportsAlone'
    <3>. SUFFICES ASSUME NEW u \in Tid, kev'[u].kind \notin {"none", "clone"}
                  PROVE  \/ Waiting' /\ \A x \in Tid : x # u => kev'[x].kind \in {"none", "clone"}
                         \/ \A x \in Tid : kst'[x] \in {"none", "dead", "exec"}
                         \/ kev'[u].kind = "exec"
      BY DEF ReportsAlone
    <3>1. u # t /\ kev[u].kind \notin {"none", "clone"} /\ kev'[u].kind = kev[u].kind
      BY <1>2
    <3>2. CASE kev[t].kind # "clone"
      BY <1>1, <2>1, <3>1, <3>2 DEF RunInv, ReportsAlone
    <3>3. CASE kev[t].kind = "clone"
      BY <1>2, <1>3, <2>1, <3>1, <3>3 DEF RunInv, ReportsAlone, Waiting
    <3>. QED
      BY <3>2, <3>3
  <2>6. ExecLeavesOne'
    <3>1. kst[t] # "exec" /\ \A x \in Tid : kst'[x] = "exec" => kst[x] = "exec"
      BY <1>1, <2>1 DEF RunInv, ReportsKept
    <3>2. \A x \in Tid : kev'[x].kind = "exec" => kev[x].kind = "exec"
      BY <1>2
    <3>. QED
      BY <2>1, <3>1, <3>2 DEF RunInv, ExecLeavesOne
  <2>. QED
    BY <2>3, <2>4, <2>5, <2>6 DEF RunInv
<1>4. CASE WaitDisplacedStep(t)
  <2>1. kst' = [kst EXCEPT ![t] = "run"] /\ Waiting' /\ kev[t].kind \in {"sig", "trap"}
    BY <1>4 DEF WaitDisplacedStep, RecordStop, Waiting
  <2>2. kst[t] = "stop"
    BY <2>1 DEF RunInv, ReportsKept
  <2>3. \A x \in Tid : ~Runs(x) /\ kst[x] # "exec"
    BY <2>1, <2>2 DEF RunInv, OneRunner, ExecLeavesOne
  <2>4. \A x \in Tid : x # t => kev[x].kind \in {"none", "clone"}
    BY <2>1, <2>2 DEF RunInv, ReportsAlone
  <2>. QED
    BY <1>1, <2>1, <2>2, <2>3, <2>4, RunResumes
<1>5. CASE WaitClone(t)
  BY <1>3, <1>5 DEF WaitClone
<1>6. CASE WaitStop(t) \/ WaitBreakpoint(t) \/ WaitExec(t)
  <2>1. kst' = kst /\ kev[t].kind # "clone"
    BY <1>6 DEF WaitStop, WaitBreakpoint, RecordStop, WaitExec
  <2>. QED
    BY <1>3, <2>1
<1>7. CASE WaitExit(t) \/ WaitUntracked(t)
  <2>1. kst' = [kst EXCEPT ![t] = "none"] /\ kev[t].kind \in {"exit", "killed"}
    BY <1>7 DEF WaitExit, WaitUntracked
  <2>. QED
    BY <1>3, <2>1
<1>. QED
  BY <1>4, <1>5, <1>6, <1>7 DEF wait_and_classify

\* The invariant holds in every session.
LEMMA RunInvariant == Spec => [](TypeOK /\ RunInv)
<1>1. Init => TypeOK /\ RunInv
  BY TypeInit, RunInit
<1>2. TypeOK /\ RunInv /\ [Next]_vars => (TypeOK /\ RunInv)'
  <2>. SUFFICES ASSUME TypeOK, RunInv, [Next]_vars PROVE RunInv'
    BY TypeStep
  <2>1. CASE UNCHANGED vars
    BY <2>1 DEF vars, RunInv, OneRunner, ReportsKept, ReportsAlone, ExecLeavesOne, Runs, Waiting
  <2>. QED
    BY <2>1, RunKernel, RunUser, RunWait DEF Next
<1>. QED
  BY <1>1, <1>2, PTL DEF Spec

\* Stop-world control: for any number of threads and whatever races occur,
\* resuming one thread and holding clone creators never lets two threads run,
\* and none runs while the user holds the prompt.
THEOREM OneThreadRuns == Spec => []SingleRunner
<1>1. RunInv => SingleRunner
  BY DEF RunInv, OneRunner, SingleRunner, Runs, Active
<1>. QED
  BY <1>1, RunInvariant, PTL

-----------------------------------------------------------------------------
(* Owners.                                                                 *)

Going == call \notin {"threw", "detached", "gone"}

\* The leader is reported dead when no other thread is left, it is registered
\* until then, and the exec stop is its.
LeaderLast ==
  /\ kev[Leader].kind \in {"exit", "killed"} => \A t \in Tid : t # Leader => kst[t] = "none"
  /\ Going /\ Present # {} => tasks[Leader] # "none"
  /\ \A t \in Tid : kev[t].kind = "exec" => t = Leader
  /\ \A t \in Tid : kev[t].kind \in {"exit", "killed"} => kst[t] = "dead"

\* A displaced step has an address and a thread.
PendNamed ==
  /\ Over => pend # NoPend
  /\ pend # NoPend => pend.address \in Addr /\ pend.tid \in Tid

\* Only the breakpoint of the pending displaced step is lifted.
LiftedPending ==
  call # "threw" /\ Present # {} =>
    \A a \in Addr : bp[a].id # 0 /\ ~bp[a].installed => pend.address = a

\* While threads run there is no displaced step but the one of the thread
\* that runs.
StepOfRunner ==
  /\ call \in {"continue", "stepi"} => pend = NoPend
  /\ Over => \A t \in Tid : Active(t) => t = pend.tid

OwnerInv == LeaderLast /\ LiftedPending /\ StepOfRunner

\* A pending signal belongs to a thread that stopped with it and has no other
\* report; the leader can be gone without one while an execve is in progress.
SignalOwned ==
  Going => \A t \in Tid : psig[t] # 0 =>
    /\ kst[t] \in {"stop", "dead", "none"} /\ kev[t].kind \notin {"sig", "trap", "clone"}
    /\ kst[t] = "none" => t = Leader /\ \E x \in Tid : kst[x] = "exec"

\* The displaced step drops no signal.
StepOwesNone == Going /\ pend # NoPend => psig[pend.tid] = 0

SignalInv == SignalOwned /\ StepOwesNone

\* A session starts with every thread stopped and nothing pending.
LEMMA OwnerInit == Init => OwnerInv /\ SignalInv
<1>. SUFFICES ASSUME Init PROVE OwnerInv /\ SignalInv
  OBVIOUS
<1>1. /\ \A t \in Tid : kev[t].kind = "none" /\ psig[t] = 0
      /\ \A a \in Addr : bp[a].id = 0
      /\ tasks[Leader] # "none" /\ Leader \in Tid /\ pend = NoPend /\ call = "idle"
  BY TidAssumption, BreakpointFacts DEF Init, NoEvent
<1>. QED
  BY <1>1 DEF OwnerInv, LeaderLast, LiftedPending, StepOfRunner, SignalInv, SignalOwned,
    StepOwesNone, Over

\* The kernel resumes no thread and touches neither table nor signals.
LEMMA OwnerKernel ==
  ASSUME TypeOK, RunInv, OwnerInv, SignalInv, Kernel
  PROVE  (OwnerInv /\ SignalInv)'
<1>0. Leader \in Tid /\ Traced
  BY TidAssumption DEF Kernel, Execute, TakeSignal, Clone, Start, Die, DieTogether, ReportLeader,
    BeginExec, FinishExec
<1>1. UNCHANGED <<bp, pend, psig, call, tasks>>
  BY DEF Kernel, Execute, TakeSignal, Clone, Start, Die, DieTogether, ReportLeader, BeginExec,
    FinishExec, processVars
<1>2. ASSUME Present # {}, \A x \in Tid : Active(x)' => Active(x),
             kev'[Leader].kind \in {"exit", "killed"} => \A t \in Tid : t # Leader => kst'[t] = "none",
             \A t \in Tid : kev'[t].kind = "exec" => t = Leader,
             \A t \in Tid : kev'[t].kind \in {"exit", "killed"} => kst'[t] = "dead",
             SignalOwned'
      PROVE  (OwnerInv /\ SignalInv)'
  <2>1. LeaderLast'
    BY <1>1, <1>2 DEF OwnerInv, LeaderLast, Going
  <2>2. LiftedPending' /\ StepOfRunner'
    BY <1>1, <1>2 DEF OwnerInv, LiftedPending, StepOfRunner, Going, Over
  <2>3. StepOwesNone'
    BY <1>1 DEF SignalInv, StepOwesNone, Going
  <2>. QED
    BY <1>2, <2>1, <2>2, <2>3 DEF OwnerInv, SignalInv
\* A thread that moves: it owes no signal, and only clone events are around.
<1>3. ASSUME NEW t \in Tid, Active(t) \/ kst[t] = "born"
      PROVE  /\ psig[t] = 0 /\ Going /\ Present # {}
             /\ \A x \in Tid : kev[x].kind \in {"none", "clone"}
             /\ \A x \in Tid : kst[x] # "exec"
             /\ \A x \in Tid : psig[x] # 0 => kst[x] \in {"stop", "dead"} /\ kev[x].kind = "none"
  <2>1. Waiting
    BY <1>3 DEF RunInv, OneRunner, Runs, Active
  <2>2. Going /\ Present # {}
    BY <1>3, <2>1 DEF Waiting, Going, Present, Active
  <2>3. \A x \in Tid : kev[x].kind \in {"none", "clone"}
    BY <1>3 DEF RunInv, OneRunner, Runs, Active
  <2>4. \A x \in Tid : kst[x] # "exec"
    BY <1>3 DEF RunInv, OneRunner, Runs, Active
  <2>. QED
    BY <1>3, <2>2, <2>3, <2>4 DEF SignalInv, SignalOwned, Active
<1>4. ASSUME NEW t \in Tid, Execute(t) PROVE (OwnerInv /\ SignalInv)'
  <2>1. \/ kst' = kst /\ kev' = kev
        \/ /\ \A x \in Tid : kst'[x] = IF x = t THEN "stop" ELSE kst[x]
           /\ \A x \in Tid : kev'[x].kind = IF x = t THEN "trap" ELSE kev[x].kind
    BY <1>4, SMT DEF Execute, TypeOK, Event
  <2>2. Active(t)
    BY <1>4 DEF Execute
  <2>3. SignalOwned'
    BY <1>1, <1>3, <2>1, <2>2 DEF SignalOwned, Going
  <2>. QED
    BY <1>0, <1>2, <1>3, <2>1, <2>2, <2>3 DEF Active
<1>5. ASSUME NEW t \in Tid, TakeSignal(t) PROVE (OwnerInv /\ SignalInv)'
  <2>1. /\ \A x \in Tid : kst'[x] = IF x = t THEN "stop" ELSE kst[x]
        /\ \A x \in Tid : kev'[x].kind = IF x = t THEN "sig" ELSE kev[x].kind
    BY <1>5, SMT DEF TakeSignal, TypeOK, Event
  <2>2. Active(t)
    BY <1>5 DEF TakeSignal
  <2>3. SignalOwned'
    BY <1>1, <1>3, <2>1, <2>2 DEF SignalOwned, Going
  <2>. QED
    BY <1>0, <1>2, <1>3, <2>1, <2>2, <2>3 DEF Active
<1>6. ASSUME NEW t \in Tid, NEW u \in Tid, Clone(t, u) PROVE (OwnerInv /\ SignalInv)'
  <2>1. Active(t) /\ kst[u] = "none" /\ u # t
    BY <1>6 DEF Clone, Active
  <2>2. /\ \A x \in Tid : kst'[x] = IF x = u THEN "born" ELSE IF x = t THEN "stop" ELSE kst[x]
        /\ \A x \in Tid : kev'[x].kind = IF x = t THEN "clone" ELSE kev[x].kind
    BY <1>6, <2>1 DEF Clone, TypeOK, Event
  <2>3. SignalOwned'
    BY <1>1, <1>3, <2>1, <2>2 DEF SignalOwned, Going
  <2>. QED
    BY <1>0, <1>2, <1>3, <2>1, <2>2, <2>3 DEF Active
<1>7. ASSUME NEW t \in Tid, Start(t) PROVE (OwnerInv /\ SignalInv)'
  <2>1. /\ \A x \in Tid : kst'[x] = IF x = t THEN "stop" ELSE kst[x]
        /\ \A x \in Tid : kev'[x].kind = IF x = t THEN "sig" ELSE kev[x].kind
    BY <1>7 DEF Start, TypeOK, Event
  <2>2. kst[t] = "born"
    BY <1>7 DEF Start
  <2>3. SignalOwned'
    BY <1>1, <1>3, <2>1, <2>2 DEF SignalOwned, Going
  <2>. QED
    BY <1>0, <1>2, <1>3, <2>1, <2>2, <2>3 DEF Active
<1>8. ASSUME NEW t \in Tid, Die(t) PROVE (OwnerInv /\ SignalInv)'
  <2>1. PICK k \in {"exit", "killed"} :
          kev' = IF t = Leader THEN kev ELSE [kev EXCEPT ![t] = Event(k, 0)]
    BY <1>8 DEF Die
  <2>2. /\ \A x \in Tid : kst'[x] = IF x = t THEN "dead" ELSE kst[x]
        /\ \A x \in Tid : kev'[x].kind = IF x = t /\ t # Leader THEN k ELSE kev[x].kind
    BY <1>8, <2>1 DEF Die, TypeOK, Event
  <2>3. Active(t)
    BY <1>8 DEF Die
  <2>4. SignalOwned'
    BY <1>1, <1>3, <2>2, <2>3 DEF SignalOwned, Going
  <2>. QED
    BY <1>0, <1>2, <1>3, <2>2, <2>3, <2>4 DEF Active
<1>9. ASSUME NEW t \in Tid, DieTogether(t) PROVE (OwnerInv /\ SignalInv)'
  <2>1. PICK k \in {"exit", "killed"} :
          kev' = [u \in Tid |-> IF u = Leader THEN NoEvent
                                ELSE IF u \in Live THEN Event(k, 0) ELSE kev[u]]
    BY <1>9 DEF DieTogether
  <2>2. \A x \in Tid : kev'[x].kind = IF x = Leader THEN "none"
                                      ELSE IF x \in Live THEN k ELSE kev[x].kind
    BY <2>1 DEF Event, NoEvent
  <2>3. \A x \in Tid : kst'[x] = IF kst[x] = "none" THEN "none" ELSE "dead"
    BY <1>9 DEF DieTogether
  <2>4. Active(t) \/ kst[t] = "born"
    BY <1>9 DEF DieTogether
  <2>5. SignalOwned'
    BY <1>1, <1>3, <2>2, <2>3, <2>4 DEF SignalOwned, Going
  <2>. QED
    BY <1>0, <1>2, <1>3, <2>2, <2>3, <2>4, <2>5 DEF Active, Live
<1>10. ASSUME ReportLeader PROVE (OwnerInv /\ SignalInv)'
  <2>1. PICK k \in {"exit", "killed"} : kev' = [kev EXCEPT ![Leader] = Event(k, 0)]
    BY <1>10 DEF ReportLeader
  <2>2. kst' = kst /\ \A x \in Tid : kev'[x].kind = IF x = Leader THEN k ELSE kev[x].kind
    BY <1>10, <2>1 DEF ReportLeader, TypeOK, Event
  <2>3. kst[Leader] = "dead" /\ kev[Leader].kind = "none" /\ \A x \in Tid : x # Leader => kst[x] = "none"
    BY <1>10, SMT DEF ReportLeader, Present, NoEvent
  <2>4. Present # {}
    BY <1>0, <2>3 DEF Present
  <2>5. SignalOwned'
    BY <1>0, <1>1, <2>2, <2>3 DEF SignalInv, SignalOwned, Going
  <2>. QED
    BY <1>0, <1>2, <2>2, <2>3, <2>4, <2>5 DEF Active, OwnerInv, LeaderLast
<1>11. ASSUME NEW t \in Tid, BeginExec(t) PROVE (OwnerInv /\ SignalInv)'
  <2>1. Active(t)
    BY <1>11 DEF BeginExec
  <2>2. \A x \in Tid : kst'[x] = IF x = t THEN "exec"
                                  ELSE IF kst[x] = "none" \/ x = Leader THEN "none" ELSE "dead"
    BY <1>11 DEF BeginExec
  <2>3. \A x \in Tid : kev'[x].kind = IF x # t /\ x # Leader /\ x \in Live THEN "exit"
                                       ELSE IF x = Leader THEN "none" ELSE kev[x].kind
    BY <1>11 DEF BeginExec, Event, NoEvent
  <2>4. SignalOwned'
    BY <1>1, <1>3, <2>1, <2>2, <2>3 DEF SignalOwned, Going
  <2>. QED
    BY <1>0, <1>2, <1>3, <2>1, <2>2, <2>3, <2>4 DEF Active, Live
<1>12. ASSUME NEW t \in Tid, FinishExec(t) PROVE (OwnerInv /\ SignalInv)'
  <2>1. kst[t] = "exec" /\ Present # {} /\ \A x \in Tid : x # t => kst[x] = "none"
    BY <1>12 DEF FinishExec, Present
  <2>2. /\ \A x \in Tid : kst'[x] = IF x = Leader THEN "stop" ELSE "none"
        /\ \A x \in Tid : kev'[x].kind = IF x = Leader THEN "exec" ELSE "none"
    BY <1>12 DEF FinishExec, Event, NoEvent
  <2>3. Going => \A x \in Tid : psig[x] # 0 => x = Leader
    BY <2>1 DEF SignalInv, SignalOwned
  <2>4. SignalOwned'
    BY <1>0, <1>1, <2>2, <2>3 DEF SignalOwned, Going
  <2>. QED
    BY <1>0, <1>2, <2>1, <2>2, <2>4 DEF Active
<1>. QED
  BY <1>4, <1>5, <1>6, <1>7, <1>8, <1>9, <1>10, <1>11, <1>12 DEF Kernel

\* A command that resumes a thread resumes the one whose signal it delivers
\* or whose displaced step it begins; the others resume none.
LEMMA OwnerUser ==
  ASSUME TypeOK, RunInv, OwnerInv, SignalInv, User
  PROVE  (OwnerInv /\ SignalInv)'
<1>0. Leader \in Tid
  BY TidAssumption
<1>1. call \in {"idle", "threw"}
  BY DEF User, add_breakpoint, remove_breakpoint, write_memory, select_thread,
    continue_execution, single_step, Resume, step_over_pending_breakpoint, MotionFails, detach,
    destroy, Idle
<1>2. ASSUME UNCHANGED <<kst, kev, psig, tasks>>, call' \in {call, "threw"}, pend' \in {pend, NoPend},
             call' = call => LiftedPending'
      PROVE  (OwnerInv /\ SignalInv)'
  <2>1. LeaderLast'
    BY <1>1, <1>2 DEF OwnerInv, LeaderLast, Going, Present
  <2>2. LiftedPending' /\ StepOfRunner'
    BY <1>1, <1>2 DEF LiftedPending, StepOfRunner, Going, Over
  <2>3. SignalOwned' /\ StepOwesNone'
    BY <1>1, <1>2 DEF SignalInv, SignalOwned, StepOwesNone, Going
  <2>. QED
    BY <2>1, <2>2, <2>3 DEF OwnerInv, SignalInv
<1>3. ASSUME call' \in {"detached", "gone"}, (kst' = kst /\ kev' = kev) \/ kev' = [t \in Tid |-> NoEvent],
             bp' = [a \in Addr |-> NoBreak]
      PROVE  (OwnerInv /\ SignalInv)'
  <2>1. LeaderLast'
    BY <1>0, <1>3, SMT DEF OwnerInv, LeaderLast, Going, NoEvent
  <2>2. LiftedPending'
    BY <1>3, BreakpointFacts DEF LiftedPending
  <2>. QED
    BY <1>3, <2>1, <2>2 DEF OwnerInv, StepOfRunner, SignalInv, SignalOwned, StepOwesNone, Going, Over
<1>4. ASSUME NEW a \in Addr, add_breakpoint(a) PROVE (OwnerInv /\ SignalInv)'
  <2>1. /\ UNCHANGED <<kst, kev, psig, tasks, call, pend>>
        /\ \A x \in Addr : /\ bp'[x].id # 0 => x = a \/ bp[x].id # 0
                           /\ bp'[x].installed = IF x = a THEN TRUE ELSE bp[x].installed
    BY <1>4 DEF add_breakpoint, kernelVars, processVars, TypeOK
  <2>2. LiftedPending'
    BY <2>1 DEF OwnerInv, LiftedPending, Going, Present
  <2>. QED
    BY <1>2, <2>1, <2>2
<1>5. ASSUME NEW a \in Addr, remove_breakpoint(a) PROVE (OwnerInv /\ SignalInv)'
  <2>1. UNCHANGED <<kst, kev, psig, tasks>>
    BY <1>5 DEF remove_breakpoint, kernelVars, processVars
  <2>2. CASE call' = "threw" /\ UNCHANGED <<bp, pend>>
    BY <1>1, <1>2, <2>1, <2>2 DEF OwnerInv, LiftedPending, Going
  <2>3. CASE /\ bp' = [bp EXCEPT ![a] = NoBreak] /\ call' = call
             /\ pend' = IF pend.address = a THEN NoPend ELSE pend
    <3>1. \A x \in Addr : bp'[x] = IF x = a THEN NoBreak ELSE bp[x]
      BY <2>3 DEF TypeOK
    <3>2. LiftedPending'
      BY <2>1, <2>3, <3>1, BreakpointFacts DEF OwnerInv, LiftedPending, Going, Present
    <3>. QED
      BY <1>2, <2>1, <2>3, <3>2
  <2>. QED
    BY <1>5, <2>2, <2>3 DEF remove_breakpoint, Throw
<1>6. ASSUME NEW lo \in Addr, NEW hi \in 0 .. CodeSize, NEW w \in [lo .. hi -> Byte],
             write_memory(lo, hi, w)
      PROVE (OwnerInv /\ SignalInv)'
  <2>1. UNCHANGED <<kst, kev, psig, tasks, call, pend>>
    BY <1>6 DEF write_memory, processVars
  <2>2. \A x \in Addr : \/ bp'[x] = bp[x]
                        \/ bp'[x] = [bp[x] EXCEPT !.original_byte = w[x]]
    BY <1>6 DEF write_memory
  <2>3. \A x \in Addr : bp'[x].id = bp[x].id /\ bp'[x].installed = bp[x].installed
    BY <2>2 DEF TypeOK, Breakpoint
  <2>4. LiftedPending'
    BY <2>1, <2>3 DEF OwnerInv, LiftedPending, Going, Present
  <2>. QED
    BY <1>2, <2>1, <2>4
<1>7. ASSUME UNCHANGED <<kst, kev, psig, tasks, bp, pend>>, call' \in {call, "threw"}
      PROVE  (OwnerInv /\ SignalInv)'
  BY <1>2, <1>7 DEF OwnerInv, LiftedPending, Going, Present
<1>8. ASSUME NEW t \in Tid, select_thread(t) PROVE (OwnerInv /\ SignalInv)'
  BY <1>7, <1>8 DEF select_thread, kernelVars, breakVars
<1>9. ASSUME MotionFails PROVE (OwnerInv /\ SignalInv)'
  BY <1>7, <1>9 DEF MotionFails, kernelVars, processVars, breakVars, Throw
<1>10. ASSUME NEW command \in {"continue", "stepi"}, NEW how \in {"run", "step"},
              \/ Resume(command, how)
              \/ step_over_pending_breakpoint(command) /\ how = "step"
       PROVE  (OwnerInv /\ SignalInv)'
  <2>1. /\ call = "idle" /\ cur \in Tid /\ kst[cur] = "stop" /\ bp' = bp /\ pend' = pend
        /\ kst' = [kst EXCEPT ![cur] = how] /\ kev' = [kev EXCEPT ![cur] = NoEvent]
        /\ tasks' = [tasks EXCEPT ![cur] = "Running"]
    BY <1>10 DEF Resume, step_over_pending_breakpoint, Idle, stopped_tid_ok, Reachable, TypeOK,
      mark_running, breakVars
  <2>2. /\ \A x \in Tid : kst'[x] = IF x = cur THEN how ELSE kst[x]
        /\ \A x \in Tid : kev'[x].kind = IF x = cur THEN "none" ELSE kev[x].kind
        /\ \A x \in Tid : tasks'[x] = IF x = cur THEN "Running" ELSE tasks[x]
    BY <2>1 DEF TypeOK, NoEvent
  <2>3. \A x \in Tid : /\ ~Runs(x) /\ kst[x] # "exec"
                       /\ kev[x].kind \in {"none", "clone"} \/ (x = cur /\ kev[x].kind = "exec")
    BY <2>1, PromptRuns DEF Waiting
  <2>4. \A x \in Tid : ~Active(x) /\ kev'[x].kind \in {"none", "clone"}
    BY <2>2, <2>3 DEF Runs, Active
  <2>5. Going /\ Going' /\ Present # {}
    BY <1>10, <2>1 DEF Going, Present, Resume, step_over_pending_breakpoint
  <2>6. LeaderLast' /\ LiftedPending'
    BY <1>0, <2>1, <2>2, <2>4, <2>5, SMT DEF OwnerInv, LeaderLast, LiftedPending
  <2>7. CASE Resume(command, how)
    <3>1. /\ pend = NoPend /\ call' = command /\ psig' = [psig EXCEPT ![cur] = 0]
      BY <2>7 DEF Resume
    <3>2. \A x \in Tid : psig'[x] = IF x = cur THEN 0 ELSE psig[x]
      BY <3>1 DEF TypeOK
    <3>3. StepOfRunner' /\ StepOwesNone'
      BY <2>1, <3>1 DEF StepOfRunner, StepOwesNone, Over
    <3>4. SignalOwned'
      BY <2>2, <2>3, <2>5, <3>2 DEF SignalInv, SignalOwned
    <3>. QED
      BY <2>6, <3>3, <3>4 DEF OwnerInv, SignalInv
  <2>8. CASE step_over_pending_breakpoint(command)
    <3>1. /\ pend # NoPend /\ pend.tid = cur /\ psig' = psig
          /\ call' \in {"over_continue", "over_stepi"}
      BY <2>8 DEF step_over_pending_breakpoint
    <3>2. psig[cur] = 0
      BY <2>5, <3>1 DEF SignalInv, StepOwesNone
    <3>3. StepOfRunner' /\ StepOwesNone'
      BY <2>1, <2>2, <2>4, <2>5, <3>1 DEF StepOfRunner, SignalInv, StepOwesNone, Active
    <3>4. SignalOwned'
      BY <2>2, <2>3, <2>5, <3>1, <3>2 DEF SignalInv, SignalOwned
    <3>. QED
      BY <2>6, <3>3, <3>4 DEF OwnerInv, SignalInv
  <2>. QED
    BY <1>10, <2>7, <2>8
<1>11. ASSUME detach PROVE (OwnerInv /\ SignalInv)'
  <2>1. UNCHANGED <<kst, kev>>
    BY <1>11 DEF detach, kernelVars
  <2>2. CASE call' = "detached" /\ bp' = [a \in Addr |-> NoBreak]
    BY <1>3, <2>1, <2>2
  <2>3. CASE call' = "threw" /\ UNCHANGED <<psig, tasks>> /\ pend' \in {pend, NoPend}
    BY <1>1, <1>2, <2>1, <2>3 DEF LiftedPending, Going
  <2>. QED
    BY <1>11, <2>2, <2>3 DEF detach, Throw
<1>12. ASSUME destroy PROVE (OwnerInv /\ SignalInv)'
  BY <1>3, <1>12 DEF destroy
<1>. QED
  BY <1>4, <1>5, <1>6, <1>8, <1>9, <1>10, <1>11, <1>12 DEF User, continue_execution, single_step

\* A collected status ends a displaced step before it gives the prompt back,
\* and records a signal for the thread that stopped with it.
LEMMA OwnerWait ==
  ASSUME TypeOK, RunInv, PendNamed, OwnerInv, SignalInv, NEW t \in Tid, wait_and_classify(t)
  PROVE  (OwnerInv /\ SignalInv)'
<1>0. Leader \in Tid
  BY TidAssumption
<1>1. Waiting /\ Going /\ kev[t].kind # "none"
  BY DEF wait_and_classify, WaitStop, WaitBreakpoint, WaitDisplacedStep, RecordStop, WaitClone,
    WaitExit, WaitExec, WaitUntracked, Waiting, Going
<1>2. kst[t] # "none" /\ Present # {}
  BY <1>1 DEF RunInv, ReportsKept, Present
<1>3. kev' = [kev EXCEPT ![t] = NoEvent]
  BY DEF wait_and_classify, WaitStop, WaitBreakpoint, WaitDisplacedStep, RecordStop, WaitClone,
    WaitExit, WaitExec, WaitUntracked
<1>4. \A x \in Tid : kev'[x].kind = IF x = t THEN "none" ELSE kev[x].kind
  BY <1>3 DEF TypeOK, NoEvent
<1>5. ASSUME \A x \in Tid : x # t => kst'[x] = kst[x], Going' /\ Present' # {} => tasks'[Leader] # "none",
             kst[t] = "none" => kst'[t] = "none"
      PROVE  LeaderLast'
  <2>1. kev'[Leader].kind \in {"exit", "killed"} => \A x \in Tid : x # Leader => kst'[x] = "none"
    <3>. SUFFICES ASSUME kev'[Leader].kind \in {"exit", "killed"},
                         NEW x \in Tid, x # Leader
                  PROVE  kst'[x] = "none"
      OBVIOUS
    <3>1. Leader # t /\ kev[Leader].kind \in {"exit", "killed"}
      BY <1>0, <1>4
    <3>. QED
      BY <1>2, <1>5, <3>1 DEF OwnerInv, LeaderLast
  <2>2. \A x \in Tid : kev'[x].kind \in {"exit", "killed"} => kst'[x] = "dead"
    BY <1>4, <1>5 DEF OwnerInv, LeaderLast
  <2>3. \A x \in Tid : kev'[x].kind = "exec" => x = Leader
    BY <1>4 DEF OwnerInv, LeaderLast
  <2>. QED
    BY <1>5, <2>1, <2>2, <2>3 DEF LeaderLast
<1>6. tasks[Leader] # "none"
  BY <1>1, <1>2 DEF OwnerInv, LeaderLast
<1>7. ASSUME call' = "idle" PROVE StepOfRunner'
  BY <1>7 DEF StepOfRunner, Over
<1>8. \A a \in Addr : bp[a].id # 0 /\ ~bp[a].installed => pend.address = a
  BY <1>1, <1>2 DEF OwnerInv, LiftedPending, Going
<1>9. ASSUME call \in {"continue", "stepi"}
      PROVE  pend = NoPend /\ \A a \in Addr : bp[a].id # 0 => bp[a].installed
  <2>1. pend = NoPend /\ NoPend.address \notin Addr
    BY <1>9, AddrFacts DEF OwnerInv, StepOfRunner, NoPend
  <2>. QED
    BY <1>8, <2>1
<1>10. ASSUME Over, mem' = reinserted_mem(pend.address), bp' = reinserted_bp(pend.address)
       PROVE  \A a \in Addr : bp'[a].id # 0 => bp'[a].installed
  <2>1. pend.address \in Addr
    BY <1>10 DEF PendNamed
  <2>2. CASE bp[pend.address].id = 0
    BY <1>8, <1>10, <2>1, <2>2 DEF reinserted_bp
  <2>3. CASE bp[pend.address].id # 0
    <3>1. \A x \in Addr : /\ bp'[x].id = bp[x].id
                          /\ bp'[x].installed = IF x = pend.address THEN TRUE ELSE bp[x].installed
      BY <1>10, <2>1, <2>3 DEF reinserted_bp, TypeOK, Breakpoint
    <3>. QED
      BY <1>8, <3>1
  <2>. QED
    BY <2>2, <2>3
\* A return to the prompt, or an exception, leaves nothing lifted or pending.
<1>11. ASSUME NEW ts, NEW c, Return(ts, c)
       PROVE  LiftedPending' /\ StepOfRunner' /\ (Going' => pend' = NoPend)
  <2>1. CASE ~Over /\ call' = "idle" /\ UNCHANGED <<mem, bp, pend>>
    BY <1>1, <1>7, <1>9, <2>1 DEF LiftedPending, Waiting, Over
  <2>2. CASE /\ Over /\ mem' = reinserted_mem(pend.address) /\ bp' = reinserted_bp(pend.address)
             /\ pend' = NoPend /\ call' = "idle"
    BY <1>7, <1>10, <2>2 DEF LiftedPending
  <2>3. CASE call' = "threw"
    BY <2>3 DEF LiftedPending, StepOfRunner, Over, Going
  <2>. QED
    BY <1>11, <2>1, <2>2, <2>3 DEF Return, StepOverReturns, Throw
<1>12. ASSUME Going' => pend' = NoPend PROVE StepOwesNone'
  BY <1>12 DEF StepOwesNone
<1>13. ASSUME \A x \in Tid : x # t => kst'[x] = kst[x] /\ psig'[x] \in {psig[x], 0},
              psig'[t] = 0 \/ kst'[t] = "stop"
       PROVE  SignalOwned'
  <2>. SUFFICES ASSUME Going', NEW x \in Tid, psig'[x] # 0
                PROVE  /\ kst'[x] \in {"stop", "dead", "none"}
                       /\ kev'[x].kind \notin {"sig", "trap", "clone"}
                       /\ kst'[x] = "none" => x = Leader /\ \E y \in Tid : kst'[y] = "exec"
    BY DEF SignalOwned
  <2>1. CASE x = t
    BY <1>4, <1>13, <2>1
  <2>2. CASE x # t
    <3>1. psig[x] # 0 /\ kst'[x] = kst[x] /\ kev'[x].kind = kev[x].kind
      BY <1>4, <1>13, <2>2
    <3>2. /\ kst[x] \in {"stop", "dead", "none"} /\ kev[x].kind \notin {"sig", "trap", "clone"}
          /\ kst[x] = "none" => x = Leader /\ \E y \in Tid : kst[y] = "exec"
      BY <1>1, <3>1 DEF SignalInv, SignalOwned
    <3>3. kst[t] # "exec"
      BY <1>1 DEF RunInv, ReportsKept
    <3>4. ASSUME NEW y \in Tid, kst[y] = "exec" PROVE kst'[y] = "exec"
      BY <1>13, <3>3, <3>4
    <3>. QED
      BY <3>1, <3>2, <3>4
  <2>. QED
    BY <2>1, <2>2
<1>14. CASE WaitStop(t)
  <2>1. /\ kst' = kst /\ tasks' = [tasks EXCEPT ![t] = "Stopped"] /\ kev[t].kind \in {"sig", "trap"}
        /\ psig' \in {psig, [psig EXCEPT ![t] = kev[t].val]} /\ \E ts, c : Return(ts, c)
    BY <1>14 DEF WaitStop, RecordStop
  <2>2. kst[t] = "stop"
    BY <2>1 DEF RunInv, ReportsKept
  <2>3. LeaderLast'
    BY <1>0, <1>5, <1>6, <2>1 DEF TypeOK
  <2>4. SignalOwned'
    BY <1>13, <2>1, <2>2 DEF TypeOK
  <2>. QED
    BY <1>11, <1>12, <2>1, <2>3, <2>4 DEF OwnerInv, SignalInv
<1>15. CASE WaitBreakpoint(t)
  <2>. DEFINE a == rip[t] - 1
  <2>1. a \in Addr /\ bp[a].id # 0 /\ bp[a].installed /\ call = "continue"
    BY <1>15 DEF WaitBreakpoint, trap_address, Reason, BreakpointAt
  <2>2. /\ bp' = [bp EXCEPT ![a].installed = FALSE] /\ UNCHANGED <<kst, psig>>
        /\ pend' = [address |-> a, tid |-> t] /\ call' = "idle" /\ kev[t].kind \in {"sig", "trap"}
        /\ tasks' = [tasks EXCEPT ![t] = "Stopped"]
    BY <1>15 DEF WaitBreakpoint, trap_address, RecordStop
  <2>. HIDE DEF a
  <2>3. \A x \in Addr : bp'[x].id = bp[x].id /\ (x # a => bp'[x].installed = bp[x].installed)
    BY <2>1, <2>2 DEF TypeOK, Breakpoint
  <2>4. LiftedPending'
    BY <1>9, <2>1, <2>2, <2>3 DEF LiftedPending
  <2>5. LeaderLast'
    BY <1>0, <1>5, <1>6, <2>2 DEF TypeOK
  <2>6. psig[t] = 0 /\ kst[t] = "stop"
    BY <1>1, <2>2 DEF SignalInv, SignalOwned, RunInv, ReportsKept
  <2>7. SignalOwned' /\ StepOwesNone'
    BY <1>13, <2>2, <2>6 DEF StepOwesNone
  <2>. QED
    BY <1>7, <2>2, <2>4, <2>5, <2>7 DEF OwnerInv, SignalInv
<1>16. CASE WaitDisplacedStep(t)
  <2>1. /\ kst' = [kst EXCEPT ![t] = "run"] /\ psig' = [psig EXCEPT ![t] = 0]
        /\ tasks' = [tasks EXCEPT ![t] = "Running"] /\ kev[t].kind \in {"sig", "trap"}
        /\ call = "over_continue" /\ call' = "continue" /\ pend' = NoPend
        /\ mem' = reinserted_mem(pend.address) /\ bp' = reinserted_bp(pend.address)
    BY <1>16 DEF WaitDisplacedStep, RecordStop
  <2>2. LiftedPending' /\ StepOfRunner' /\ StepOwesNone'
    BY <1>10, <1>12, <2>1 DEF LiftedPending, StepOfRunner, Over
  <2>3. LeaderLast'
    BY <1>0, <1>2, <1>5, <1>6, <2>1 DEF TypeOK
  <2>4. SignalOwned'
    BY <1>13, <2>1 DEF TypeOK
  <2>. QED
    BY <2>2, <2>3, <2>4 DEF OwnerInv, SignalInv
<1>17. CASE WaitClone(t)
  <2>1. /\ UNCHANGED <<kst, psig, bp, pend, call>> /\ kev[t].kind = "clone"
        /\ \A x \in Tid : tasks[x] # "none" => tasks'[x] # "none"
    BY <1>17 DEF WaitClone, breakVars
  <2>2. LeaderLast'
    BY <1>0, <1>5, <1>6, <2>1
  <2>3. kst[t] = "stop"
    BY <2>1 DEF RunInv, ReportsKept
  <2>4. SignalOwned' /\ StepOwesNone'
    BY <1>13, <2>1, <2>3 DEF SignalInv, StepOwesNone, Going
  <2>5. LiftedPending' /\ StepOfRunner'
    BY <1>8, <2>1 DEF OwnerInv, LiftedPending, StepOfRunner, Over, Active
  <2>. QED
    BY <2>2, <2>4, <2>5 DEF OwnerInv, SignalInv
<1>18. CASE WaitExit(t)
  <2>. DEFINE ts == [tasks EXCEPT ![t] = "none"]
  <2>1. /\ kst' = [kst EXCEPT ![t] = "none"] /\ psig' = [psig EXCEPT ![t] = 0] /\ tasks' = ts
        /\ kev[t].kind \in {"exit", "killed"}
    BY <1>18 DEF WaitExit
  <2>2. \/ tids(ts) = {} /\ pend' = NoPend /\ call' = "idle"
        \/ \E x, c : Return(x, c)
        \/ UNCHANGED <<mem, bp, pend, call>>
    BY <1>18 DEF WaitExit
  <2>3. /\ \A x \in Tid : kst'[x] = IF x = t THEN "none" ELSE kst[x]
        /\ \A x \in Tid : tasks'[x] = IF x = t THEN "none" ELSE tasks[x]
    BY <2>1 DEF TypeOK
  <2>. HIDE DEF ts
  <2>4. t = Leader => Present' = {}
    BY <2>1, <2>3, SMT DEF OwnerInv, LeaderLast, Present
  <2>5. LeaderLast'
    BY <1>0, <1>5, <1>6, <2>3, <2>4
  <2>6. SignalOwned'
    BY <1>13, <2>1, <2>3 DEF TypeOK
  <2>7. CASE tids(ts) = {} /\ pend' = NoPend /\ call' = "idle"
    <3>1. t = Leader
      BY <1>0, <1>6, <2>1, <2>3, <2>7 DEF tids
    <3>. QED
      BY <1>7, <1>12, <2>4, <2>5, <2>6, <2>7, <3>1 DEF OwnerInv, SignalInv, LiftedPending
  <2>8. CASE \E x, c : Return(x, c)
    BY <1>11, <1>12, <2>5, <2>6, <2>8 DEF OwnerInv, SignalInv
  <2>9. CASE UNCHANGED <<mem, bp, pend, call>>
    <3>1. LiftedPending' /\ StepOfRunner'
      BY <1>8, <2>3, <2>9 DEF OwnerInv, LiftedPending, StepOfRunner, Over, Active
    <3>2. \A x \in Tid : psig'[x] \in {psig[x], 0}
      BY <2>1 DEF TypeOK
    <3>3. StepOwesNone'
      BY <1>1, <2>9, <3>2 DEF SignalInv, StepOwesNone, Going, PendNamed
    <3>. QED
      BY <2>5, <2>6, <3>1, <3>3 DEF OwnerInv, SignalInv
  <2>. QED
    BY <2>2, <2>7, <2>8, <2>9
<1>19. CASE WaitExec(t)
  <2>1. /\ kst' = kst /\ kev[t].kind = "exec" /\ call' = "idle" /\ pend' = NoPend
        /\ \A x \in Tid : psig'[x] = 0 /\ tasks'[x] = IF x = t THEN "Stopped" ELSE "none"
        /\ \A a \in Addr : bp'[a] = NoBreak
    BY <1>19 DEF WaitExec
  <2>2. t = Leader
    BY <2>1 DEF OwnerInv, LeaderLast
  <2>3. LeaderLast'
    BY <1>0, <1>5, <2>1, <2>2
  <2>4. LiftedPending' /\ SignalOwned'
    BY <2>1, BreakpointFacts DEF LiftedPending, SignalOwned
  <2>. QED
    BY <1>7, <1>12, <2>1, <2>3, <2>4 DEF OwnerInv, SignalInv
<1>20. CASE WaitUntracked(t)
  <2>1. kst' = [kst EXCEPT ![t] = "none"] /\ call' = "threw"
    BY <1>20 DEF WaitUntracked, Throw
  <2>2. LeaderLast'
    BY <1>5, <2>1 DEF TypeOK, Going
  <2>. QED
    BY <2>1, <2>2 DEF OwnerInv, LiftedPending, StepOfRunner, SignalInv, SignalOwned, StepOwesNone,
      Going, Over
<1>. QED
  BY <1>14, <1>15, <1>16, <1>17, <1>18, <1>19, <1>20 DEF wait_and_classify

\* The displaced step is set with an address and its thread, and taken back as
\* a whole.
LEMMA PendStep ==
  ASSUME TypeOK, PendNamed, [Next]_vars
  PROVE  PendNamed'
<1>1. ASSUME pend' \in {pend, NoPend}, Over' => (Over /\ pend' = pend) \/ (pend # NoPend /\ pend' = pend)
      PROVE  PendNamed'
  BY <1>1 DEF PendNamed
<1>2. ASSUME UNCHANGED <<pend, call>> PROVE PendNamed'
  BY <1>2 DEF PendNamed, Over
<1>3. CASE Kernel \/ UNCHANGED vars
  BY <1>2, <1>3 DEF Kernel, Execute, TakeSignal, Clone, Start, Die, DieTogether, ReportLeader,
    BeginExec, FinishExec, vars
<1>4. ASSUME call' \in {"idle", "threw", "continue", "stepi", "detached", "gone"},
             pend' \in {pend, NoPend}
      PROVE  PendNamed'
  BY <1>1, <1>4 DEF Over
<1>5. CASE User
  <2>1. ASSUME NEW command, step_over_pending_breakpoint(command) PROVE PendNamed'
    BY <1>1, <2>1 DEF step_over_pending_breakpoint, breakVars
  <2>2. ASSUME NEW a \in Addr, remove_breakpoint(a) PROVE PendNamed'
    BY <1>4, <2>2 DEF remove_breakpoint, Throw, Idle
  <2>3. ASSUME NEW command \in {"continue", "stepi"}, NEW how, Resume(command, how) PROVE PendNamed'
    BY <1>4, <2>3 DEF Resume, breakVars
  <2>4. ASSUME MotionFails \/ detach \/ destroy PROVE PendNamed'
    BY <1>4, <2>4 DEF MotionFails, detach, destroy, Throw, breakVars
  <2>5. ASSUME NEW a \in Addr, add_breakpoint(a) PROVE PendNamed'
    BY <1>2, <2>5 DEF add_breakpoint
  <2>6. ASSUME NEW lo, NEW hi, NEW w, write_memory(lo, hi, w) PROVE PendNamed'
    BY <1>2, <2>6 DEF write_memory
  <2>7. ASSUME NEW t \in Tid, select_thread(t) PROVE PendNamed'
    BY <1>2, <2>7 DEF select_thread, breakVars
  <2>. QED
    BY <1>5, <2>1, <2>2, <2>3, <2>4, <2>5, <2>6, <2>7 DEF User, continue_execution, single_step
<1>6. ASSUME NEW t \in Tid, wait_and_classify(t) PROVE PendNamed'
  <2>1. ASSUME NEW ts, NEW c, Return(ts, c) PROVE PendNamed'
    BY <1>4, <2>1 DEF Return, StepOverReturns, Throw
  <2>2. CASE WaitStop(t)
    BY <2>1, <2>2 DEF WaitStop
  <2>3. CASE WaitBreakpoint(t)
    <3>1. /\ trap_address(t) \in Addr /\ call' = "idle"
          /\ pend' = [address |-> trap_address(t), tid |-> t]
      BY <2>3 DEF WaitBreakpoint, Reason, BreakpointAt
    <3>. QED
      BY <3>1 DEF PendNamed, Over
  <2>4. CASE WaitDisplacedStep(t)
    BY <1>4, <2>4 DEF WaitDisplacedStep
  <2>5. CASE WaitClone(t)
    BY <1>2, <2>5 DEF WaitClone, breakVars
  <2>6. CASE WaitExit(t)
    <3>1. \/ pend' = NoPend /\ call' = "idle"
          \/ \E x, c : Return(x, c)
          \/ UNCHANGED <<pend, call>>
      BY <2>6 DEF WaitExit
    <3>. QED
      BY <1>2, <1>4, <2>1, <3>1
  <2>7. CASE WaitExec(t) \/ WaitUntracked(t)
    BY <1>4, <2>7 DEF WaitExec, WaitUntracked, Throw, breakVars
  <2>. QED
    BY <1>6, <2>2, <2>3, <2>4, <2>5, <2>6, <2>7 DEF wait_and_classify
<1>. QED
  BY <1>3, <1>5, <1>6 DEF Next

\* The invariants hold in every session.
LEMMA OwnerInvariant == Spec => [](TypeOK /\ RunInv /\ PendNamed /\ OwnerInv /\ SignalInv)
<1>1. Init => PendNamed /\ OwnerInv /\ SignalInv
  BY OwnerInit DEF Init, PendNamed, Over
<1>2. TypeOK /\ RunInv /\ PendNamed /\ OwnerInv /\ SignalInv /\ [Next]_vars =>
        (PendNamed /\ OwnerInv /\ SignalInv)'
  <2>. SUFFICES ASSUME TypeOK, RunInv, PendNamed, OwnerInv, SignalInv, [Next]_vars
                PROVE  (OwnerInv /\ SignalInv)'
    BY PendStep
  <2>1. CASE UNCHANGED vars
    BY <2>1 DEF vars, OwnerInv, LeaderLast, LiftedPending, StepOfRunner, SignalInv, SignalOwned,
      StepOwesNone, Going, Present, Over, Active
  <2>. QED
    BY <2>1, OwnerKernel, OwnerUser, OwnerWait DEF Next
<1>. QED
  BY <1>1, <1>2, RunInvariant, PTL DEF Spec

\* Displaced steps: for any number of threads and breakpoints and whatever races
\* occur, while the INT3 of a breakpoint is out of memory only the thread that
\* hit it can run, so none passes the address unseen.
THEOREM LiftedOnlyForOwner == Spec => []LiftedForOwner
<1>1. RunInv /\ OwnerInv => LiftedForOwner
  <2>. SUFFICES ASSUME RunInv, OwnerInv, call # "threw", Present # {},
                       NEW a \in Addr, bp[a].id # 0, ~bp[a].installed
                PROVE  pend.address = a /\ \A t \in Tid : Active(t) => t = pend.tid
    BY DEF LiftedForOwner
  <2>1. pend.address = a
    BY DEF OwnerInv, LiftedPending
  <2>2. pend # NoPend
    BY <2>1, AddrFacts, SMT DEF NoPend
  <2>3. ASSUME NEW t \in Tid, Active(t) PROVE t = pend.tid
    <3>1. Waiting
      BY <2>3 DEF RunInv, OneRunner, Runs, Active
    <3>. QED
      BY <2>2, <2>3, <3>1 DEF OwnerInv, StepOfRunner, Waiting, Over
  <2>. QED
    BY <2>1, <2>3
<1>. QED
  BY <1>1, OwnerInvariant, PTL

\* Signals: for any number of threads, under every race, selecting, stepping and continuing
\* other threads neither delivers nor overwrites the signal a thread stopped
\* with; only its own resumption, its death, an exec or the end of the session
\* takes it away.
THEOREM SignalsKept == Spec => SignalKept
<1>. DEFINE Kept == \A t \in Tid : psig[t] # 0 /\ psig'[t] # psig[t] =>
                      \/ kst[t] = "stop" /\ kst'[t] \in {"run", "step"}
                      \/ kst[t] = "dead" \/ stop'.reason = "Exec" \/ call' \in {"detached", "gone"}
<1>1. TypeOK /\ RunInv /\ OwnerInv /\ SignalInv /\ [Next]_vars => [Kept]_vars
  <2>. SUFFICES ASSUME TypeOK, RunInv, OwnerInv, SignalInv, Next PROVE Kept
    OBVIOUS
  <2>1. CASE psig' = psig \/ call' \in {"detached", "gone"}
    BY <2>1
  <2>2. CASE Kernel
    BY <2>1, <2>2 DEF Kernel, Execute, TakeSignal, Clone, Start, Die, DieTogether, ReportLeader,
      BeginExec, FinishExec
  <2>3. ASSUME NEW command, NEW how \in {"run", "step"}, Resume(command, how) PROVE Kept
    BY <2>3 DEF Resume, stopped_tid_ok, Reachable, TypeOK
  <2>4. CASE User
    BY <2>1, <2>3, <2>4 DEF User, add_breakpoint, remove_breakpoint, write_memory, select_thread,
      continue_execution, single_step, step_over_pending_breakpoint, MotionFails, detach, destroy
  <2>5. ASSUME NEW t \in Tid, wait_and_classify(t) PROVE Kept
    <3>1. CASE WaitStop(t)
      <4>1. Waiting /\ kev[t].kind \in {"sig", "trap"}
        BY <3>1 DEF WaitStop, RecordStop
      <4>2. psig[t] = 0
        BY <4>1 DEF SignalInv, SignalOwned, Waiting, Going
      <4>. QED
        BY <3>1, <4>2 DEF WaitStop, TypeOK
    <3>2. CASE WaitDisplacedStep(t)
      <4>1. kst[t] = "stop"
        BY <3>2 DEF WaitDisplacedStep, RecordStop, RunInv, ReportsKept
      <4>. QED
        BY <3>2, <4>1 DEF WaitDisplacedStep, TypeOK
    <3>3. CASE WaitExit(t)
      <4>1. kst[t] = "dead"
        BY <3>3 DEF WaitExit, OwnerInv, LeaderLast
      <4>. QED
        BY <3>3, <4>1 DEF WaitExit, TypeOK
    <3>4. CASE WaitExec(t)
      BY <3>4 DEF WaitExec, StopInfo
    <3>5. CASE WaitBreakpoint(t) \/ WaitClone(t) \/ WaitUntracked(t)
      BY <2>1, <3>5 DEF WaitBreakpoint, WaitClone, WaitUntracked
    <3>. QED
      BY <2>5, <3>1, <3>2, <3>3, <3>4, <3>5 DEF wait_and_classify
  <2>. QED
    BY <2>2, <2>4, <2>5 DEF Next
<1>. QED
  BY <1>1, OwnerInvariant, PTL DEF Spec, SignalKept

-----------------------------------------------------------------------------
(* The control invariant.                                                  *)

Moving(t) == kst[t] \in {"born", "run", "step", "exec"}

\* One thread moves at a time, and only while the debugger waits.
OneMover ==
  /\ \A t, u \in Tid : Moving(t) /\ Moving(u) => t = u
  /\ \A t \in Tid : Moving(t) => Waiting

\* While a thread is being born or runs, only clone events are uncollected.
QuietMove ==
  \A t \in Tid : kst[t] \in {"born", "run", "step"} =>
    \A u \in Tid : kev[u].kind \in {"none", "clone"}

\* A running thread is Running in the registry, a thread with a wait status
\* is not moving, and a missing thread has none.
EventsOfStopped ==
  /\ \A t \in Tid : kst[t] \in {"run", "step", "exec"} => tasks[t] = "Running"
  /\ \A t \in Tid : kev[t].kind \in {"sig", "trap", "clone", "exec"} => kst[t] = "stop"
  /\ \A t \in Tid : kst[t] = "none" => kev[t].kind = "none"

\* A thread that is stopped and not registered has an uncollected stop, and
\* nothing moves.
Unregistered ==
  \A u \in Tid : kst[u] = "stop" /\ tasks[u] = "none" /\ Traced =>
    kev[u].kind \in {"sig", "exec"} /\ \A t \in Tid : ~Moving(t)

\* Other than clone events, there is one report at a time and the debugger is
\* waiting for it, unless all threads died together.
LoneReport ==
  \A u \in Tid : kev[u].kind \notin {"none", "clone"} =>
    \/ Waiting /\ \A x \in Tid : x # u => kev[x].kind \in {"none", "clone"}
    \/ \A x \in Tid : kst[x] \in {"none", "dead"}

\* execve in progress: the one status left to collect is the death of the
\* only thread the registry still has as stopped.
ExecAlone ==
  \A t \in Tid : kst[t] = "exec" =>
    /\ \A u \in Tid : u # t => kst[u] \in {"none", "dead"}
    /\ \A u \in Tid : kev[u].kind # "none" =>
         /\ kev[u].kind = "exit" /\ u # t /\ tasks[u] # "none"
         /\ \A x \in Tid : tasks[x] = "Stopped" => x = u

\* The exec stop, uncollected: the debugger waits, and for nothing else.
ExecPending ==
  \A t \in Tid : kev[t].kind = "exec" =>
    Waiting /\ \A u \in Tid : u # t => kst[u] = "none" /\ kev[u].kind = "none"

\* Outside of exec, the registry knows no thread that does not exist.
RegistryExists ==
  (\A t \in Tid : kst[t] # "exec" /\ kev[t].kind # "exec") =>
    \A t \in Tid : tasks[t] = "Stopped" => kst[t] # "none"

ControlInv ==
  /\ OneMover /\ QuietMove /\ EventsOfStopped /\ Unregistered /\ LoneReport
  /\ ExecAlone /\ ExecPending /\ RegistryExists

\* Nothing moves, and no exec stop is uncollected, unless the debugger waits.
LEMMA PromptIsQuiet ==
  ASSUME ControlInv, ~Waiting
  PROVE  /\ \A t \in Tid : ~Moving(t) /\ kev[t].kind # "exec"
         /\ \A t, u \in Tid : kst[t] = "stop" => kev[u].kind \in {"none", "clone"}
BY DEF ControlInv, OneMover, ExecPending, LoneReport

\* A session starts with every thread stopped and registered.
LEMMA ControlInit == Init => ControlInv
<1>. SUFFICES ASSUME Init PROVE ControlInv
  OBVIOUS
<1>1. /\ \A t \in Tid : kst[t] \in {"stop", "none"} /\ kev[t].kind = "none"
      /\ \A t \in Tid : kst[t] = "stop" <=> tasks[t] = "Stopped"
      /\ \A t \in Tid : tasks[t] \in {"Stopped", "none"}
  BY DEF Init, NoEvent
<1>. QED
  BY <1>1 DEF ControlInv, OneMover, QuietMove, EventsOfStopped, Unregistered, LoneReport,
    ExecAlone, ExecPending, RegistryExists, Moving

\* The kernel's steps preserve the control invariant.
LEMMA ControlKernel ==
  ASSUME TypeOK, ControlInv, Kernel, "late_exec" \notin Races
  PROVE  ControlInv'
<1>0. Leader \in Tid
  BY TidAssumption
<1>. USE DEF ControlInv, OneMover, QuietMove, EventsOfStopped, Unregistered, LoneReport,
         ExecAlone, ExecPending, RegistryExists, Moving, Active, Waiting, Traced
<1>1. ASSUME NEW t \in Tid, Execute(t) PROVE ControlInv'
  <2>1. \/ kst' = kst /\ kev' = kev
        \/ kst' = [kst EXCEPT ![t] = "stop"] /\ kev' = [kev EXCEPT ![t] = Event("trap", 0)]
    BY <1>1 DEF Execute
  <2>2. \/ kst' = kst /\ kev' = kev
        \/ /\ \A x \in Tid : kst'[x] = IF x = t THEN "stop" ELSE kst[x]
           /\ \A x \in Tid : kev'[x].kind = IF x = t THEN "trap" ELSE kev[x].kind
    BY <2>1, SMT DEF TypeOK, Event
  <2>3. call' = call /\ tasks' = tasks /\ Active(t)
    BY <1>1 DEF Execute, processVars
  <2>. QED
    BY <2>2, <2>3, SMT
<1>2. ASSUME NEW t \in Tid, TakeSignal(t) PROVE ControlInv'
  <2>1. /\ \A x \in Tid : kst'[x] = IF x = t THEN "stop" ELSE kst[x]
        /\ \A x \in Tid : kev'[x].kind = IF x = t THEN "sig" ELSE kev[x].kind
    BY <1>2, SMT DEF TakeSignal, TypeOK, Event
  <2>2. call' = call /\ tasks' = tasks /\ Active(t)
    BY <1>2 DEF TakeSignal, processVars
  <2>. QED
    BY <2>1, <2>2, SMT
<1>3. ASSUME NEW t \in Tid, NEW u \in Tid, Clone(t, u) PROVE ControlInv'
  <2>1. kst[t] # "none" /\ kst[u] = "none"
    BY <1>3 DEF Clone
  <2>2. /\ \A x \in Tid : kst'[x] = IF x = u THEN "born" ELSE IF x = t THEN "stop" ELSE kst[x]
        /\ \A x \in Tid : kev'[x].kind = IF x = t THEN "clone" ELSE kev[x].kind
    BY <1>3, <2>1, SMT DEF Clone, TypeOK, Event
  <2>3. call' = call /\ tasks' = tasks /\ Active(t)
    BY <1>3 DEF Clone, processVars
  <2>. QED
    BY <2>1, <2>2, <2>3, SMT
<1>4. ASSUME NEW u \in Tid, Start(u) PROVE ControlInv'
  <2>1. /\ \A x \in Tid : kst'[x] = IF x = u THEN "stop" ELSE kst[x]
        /\ \A x \in Tid : kev'[x].kind = IF x = u THEN "sig" ELSE kev[x].kind
    BY <1>4, SMT DEF Start, TypeOK, Event
  <2>2. call' = call /\ tasks' = tasks /\ kst[u] = "born"
    BY <1>4 DEF Start, processVars
  <2>3. /\ \A x \in Tid : Moving(x) => x = u
        /\ \A x \in Tid : kev[x].kind \in {"none", "clone"}
        /\ Waiting
    BY <2>2
  <2>4. \A x \in Tid : ~Moving(x)'
    BY <2>1, <2>3, SMT
  <2>5. (OneMover /\ QuietMove /\ EventsOfStopped /\ Unregistered)'
    BY <2>1, <2>2, <2>3, <2>4, SMT
  <2>6. (LoneReport /\ ExecAlone /\ ExecPending)'
    BY <2>1, <2>2, <2>3, <2>4, SMT
  <2>7. RegistryExists'
    BY <2>1, <2>2, <2>3, SMT
  <2>. QED
    BY <2>5, <2>6, <2>7
<1>5. ASSUME NEW t \in Tid, Die(t) PROVE ControlInv'
  <2>1. PICK k \in {"exit", "killed"} :
          kev' = IF t = Leader THEN kev ELSE [kev EXCEPT ![t] = Event(k, 0)]
    BY <1>5 DEF Die
  <2>2. \A x \in Tid : kev'[x].kind = IF x = t /\ t # Leader THEN k ELSE kev[x].kind
    BY <2>1, SMT DEF TypeOK, Event
  <2>3. \A x \in Tid : kst'[x] = IF x = t THEN "dead" ELSE kst[x]
    BY <1>5, SMT DEF Die, TypeOK
  <2>4. call' = call /\ tasks' = tasks /\ Active(t)
    BY <1>5 DEF Die, processVars
  <2>. QED
    BY <2>2, <2>3, <2>4, SMT
<1>6. ASSUME NEW t \in Tid, DieTogether(t) PROVE ControlInv'
  <2>1. PICK k \in {"exit", "killed"} :
          kev' = [u \in Tid |-> IF u = Leader THEN NoEvent
                                ELSE IF u \in Live THEN Event(k, 0) ELSE kev[u]]
    BY <1>6 DEF DieTogether
  <2>2. \A x \in Tid : kev'[x].kind \in {"none", k, kev[x].kind}
    BY <2>1 DEF Event, NoEvent
  <2>3. \A x \in Tid : kst[x] = "none" => kev'[x].kind \in {"none", kev[x].kind}
    BY <2>1 DEF Event, NoEvent, Live
  <2>4. \A x \in Tid : kst[x] = "stop" => kev'[x].kind \in {"none", k}
    BY <2>1 DEF Event, NoEvent, Live
  <2>5. \A x \in Tid : kst'[x] = IF kst[x] = "none" THEN "none" ELSE "dead"
    BY <1>6 DEF DieTogether
  <2>6. call' = call /\ tasks' = tasks /\ kst[t] \in {"run", "step", "born"}
    BY <1>6 DEF DieTogether, processVars, Active
  <2>7. \A x \in Tid : ~Moving(x)' /\ kst'[x] # "stop"
    BY <2>5
  <2>8. \A x \in Tid : kev'[x].kind \in {"none", k}
    BY <2>2, <2>4, <2>6, SMT
  <2>9. \A x \in Tid : kst[x] = "none" => kev'[x].kind = "none"
    BY <2>3, SMT
  <2>10. (OneMover /\ QuietMove /\ EventsOfStopped /\ Unregistered)'
    BY <2>5, <2>7, <2>8, <2>9
  <2>11. (LoneReport /\ ExecAlone /\ ExecPending)'
    BY <2>5, <2>7, <2>8, SMT
  <2>12. RegistryExists'
    BY <2>5, <2>6, SMT
  <2>. QED
    BY <2>10, <2>11, <2>12
<1>7. ASSUME ReportLeader PROVE ControlInv'
  <2>1. PICK k \in {"exit", "killed"} : kev' = [kev EXCEPT ![Leader] = Event(k, 0)]
    BY <1>7 DEF ReportLeader
  <2>2. \A x \in Tid : kev'[x].kind = IF x = Leader THEN k ELSE kev[x].kind
    BY <2>1, SMT DEF TypeOK, Event
  <2>3. \A x \in Tid : kst[x] = IF x = Leader THEN "dead" ELSE "none"
    BY <1>7, SMT DEF ReportLeader, Present
  <2>4. call' = call /\ tasks' = tasks /\ kst' = kst
    BY <1>7 DEF ReportLeader, processVars
  <2>. QED
    BY <2>2, <2>3, <2>4, SMT
<1>8. ASSUME NEW t \in Tid, BeginExec(t) PROVE ControlInv'
  <2>1. \A x \in Tid : kev'[x].kind = IF x # t /\ x # Leader /\ x \in Live THEN "exit"
                                      ELSE IF x = Leader THEN "none" ELSE kev[x].kind
    BY <1>8 DEF BeginExec, Event, NoEvent
  <2>2. \A x \in Tid : kst'[x] = IF x = t THEN "exec"
                                 ELSE IF kst[x] = "none" \/ x = Leader THEN "none" ELSE "dead"
    BY <1>8 DEF BeginExec
  <2>3. call' = call /\ tasks' = tasks /\ Active(t)
    BY <1>8 DEF BeginExec, processVars
  <2>4. \A x, y \in Tid : x # t /\ y # t /\ kst[x] # "none" /\ kst[y] # "none" => x = y
    <3>1. \A x, y \in Present \ {t} : x = y
      BY <1>8 DEF BeginExec
    <3>. QED BY <3>1 DEF Present
  <2>5. \A x \in Tid : kev'[x].kind # "none" =>
          kev'[x].kind = "exit" /\ x # t /\ kst[x] \notin {"none", "dead"}
    BY <2>1, <2>3, SMT DEF Live
  <2>6. \A x \in Tid : kev'[x].kind # "none" => kst[x] = "stop" /\ tasks[x] # "none"
    BY <2>3, <2>5, SMT DEF TypeOK
  <2>7. \A x \in Tid : tasks[x] = "Stopped" => kst[x] # "none" /\ x # t
    <3>1. \A x \in Tid : kst[x] # "exec" /\ kev[x].kind # "exec"
      BY <2>3, SMT
    <3>. QED
      BY <2>3, <3>1
  <2>8. \A x \in Tid : kst'[x] \in {"none", "dead", "exec"} /\ (kst'[x] = "exec" <=> x = t)
    BY <2>2, SMT
  <2>9. (OneMover /\ QuietMove /\ EventsOfStopped /\ Unregistered)'
    BY <2>1, <2>2, <2>3, <2>5, <2>8, SMT
  <2>10. (LoneReport /\ ExecPending)'
    BY <2>3, <2>4, <2>5, SMT
  <2>11. ExecAlone'
    BY <2>3, <2>4, <2>5, <2>6, <2>7, <2>8, SMT
  <2>12. RegistryExists'
    BY <2>8
  <2>. QED
    BY <2>9, <2>10, <2>11, <2>12
<1>9. ASSUME NEW t \in Tid, FinishExec(t) PROVE ControlInv'
  <2>1. \A x \in Tid : kev'[x].kind = IF x = Leader THEN "exec" ELSE "none"
    BY <1>9 DEF FinishExec, Event, NoEvent
  <2>2. \A x \in Tid : kst'[x] = IF x = Leader THEN "stop" ELSE "none"
    BY <1>9 DEF FinishExec
  <2>3. call' = call /\ tasks' = tasks /\ kst[t] = "exec"
    BY <1>9 DEF FinishExec, processVars
  <2>4. Waiting' /\ \A x \in Tid : ~Moving(x)'
    BY <2>2, <2>3
  <2>5. (OneMover /\ QuietMove /\ EventsOfStopped /\ Unregistered)'
    BY <2>1, <2>2, <2>4, SMT
  <2>6. (LoneReport /\ ExecAlone /\ ExecPending /\ RegistryExists)'
    BY <1>0, <2>1, <2>2, <2>4, SMT
  <2>. QED
    BY <2>5, <2>6
<1>. QED
  BY <1>1, <1>2, <1>3, <1>4, <1>5, <1>6, <1>7, <1>8, <1>9 DEF Kernel

\* The user's commands preserve it: the prompt is quiet, and a resumed thread
\* is the only one that moves.
LEMMA ControlUser ==
  ASSUME TypeOK, ControlInv, User
  PROVE  ControlInv'
<1>. USE DEF ControlInv, OneMover, QuietMove, EventsOfStopped, Unregistered, LoneReport,
         ExecAlone, ExecPending, RegistryExists, Moving, Active, Waiting, Traced
<1>1. ASSUME call = "idle", UNCHANGED <<kst, kev, tasks>>, call' \in {call, "threw"} PROVE ControlInv'
  <2>1. \A x \in Tid : ~Moving(x) /\ kev[x].kind # "exec"
    BY <1>1
  <2>2. (OneMover /\ QuietMove /\ EventsOfStopped)'
    BY <1>1, <2>1
  <2>3. (Unregistered /\ LoneReport)'
    BY <1>1, <2>1
  <2>4. (ExecAlone /\ ExecPending /\ RegistryExists)'
    BY <1>1, <2>1
  <2>. QED
    BY <2>2, <2>3, <2>4
<1>2. ASSUME NEW a \in Addr, add_breakpoint(a) \/ remove_breakpoint(a) PROVE ControlInv'
  BY <1>1, <1>2 DEF add_breakpoint, remove_breakpoint, Idle, Throw, kernelVars, processVars
<1>3. ASSUME NEW lo, NEW hi, NEW w, write_memory(lo, hi, w) PROVE ControlInv'
  BY <1>1, <1>3 DEF write_memory, Idle, processVars
<1>4. ASSUME NEW t \in Tid, select_thread(t) PROVE ControlInv'
  BY <1>1, <1>4 DEF select_thread, Idle, kernelVars
<1>5. ASSUME MotionFails PROVE ControlInv'
  BY <1>1, <1>5 DEF MotionFails, Idle, Throw, kernelVars, processVars
<1>6. ASSUME NEW how \in {"run", "step"}, cur \in Tid, call = "idle", kst[cur] = "stop",
             kst' = [kst EXCEPT ![cur] = how], kev' = [kev EXCEPT ![cur] = NoEvent],
             tasks' = [tasks EXCEPT ![cur] = "Running"], Waiting'
      PROVE  ControlInv'
  <2>1. /\ \A x \in Tid : kst'[x] = IF x = cur THEN how ELSE kst[x]
        /\ \A x \in Tid : kev'[x].kind = IF x = cur THEN "none" ELSE kev[x].kind
        /\ \A x \in Tid : tasks'[x] = IF x = cur THEN "Running" ELSE tasks[x]
    BY <1>6, SMT DEF TypeOK, NoEvent
  <2>2. \A x \in Tid : ~Moving(x) /\ kev[x].kind \in {"none", "clone"}
    BY <1>6
  <2>. HIDE DEF ControlInv, OneMover, QuietMove, EventsOfStopped, Unregistered, LoneReport,
            ExecAlone, ExecPending, RegistryExists
  <2>3. \A x \in Tid : /\ Moving(x)' => x = cur
                       /\ kst'[x] # "exec" /\ kev'[x].kind \in {"none", "clone"}
    BY <1>6, <2>1, <2>2, SMT
  <2>4. OneMover' /\ QuietMove'
    BY <1>6, <2>3 DEF OneMover, QuietMove
  <2>5. EventsOfStopped'
    BY <1>6, <2>1, <2>2, <2>3, SMT DEF ControlInv, EventsOfStopped
  <2>6. LoneReport' /\ ExecAlone' /\ ExecPending'
    BY <2>3 DEF LoneReport, ExecAlone, ExecPending
  <2>7. \A x \in Tid : kst[x] = "stop" => tasks[x] # "none"
    BY <1>6, <2>2 DEF ControlInv, Unregistered
  <2>8. Unregistered'
    BY <2>1, <2>7 DEF Unregistered
  <2>9. \A x \in Tid : tasks[x] = "Stopped" => kst[x] # "none"
    BY <2>2 DEF ControlInv, RegistryExists
  <2>10. RegistryExists'
    BY <1>6, <2>1, <2>9, SMT DEF RegistryExists
  <2>. QED
    BY <2>4, <2>5, <2>6, <2>8, <2>10 DEF ControlInv
<1>7. ASSUME NEW command \in {"continue", "stepi"}, NEW how \in {"run", "step"},
             Resume(command, how)
      PROVE  ControlInv'
  <2>1. cur \in Tid /\ kst[cur] = "stop" /\ call = "idle" /\ Waiting'
    BY <1>7 DEF Resume, TypeOK, stopped_tid_ok, Reachable, Idle
  <2>. QED
    BY <1>6, <1>7, <2>1 DEF Resume, mark_running
<1>8. ASSUME NEW command \in {"continue", "stepi"}, step_over_pending_breakpoint(command)
      PROVE  ControlInv'
  <2>1. cur \in Tid /\ kst[cur] = "stop" /\ call = "idle" /\ Waiting'
    BY <1>8 DEF step_over_pending_breakpoint, TypeOK, stopped_tid_ok, Reachable, Idle
  <2>. QED
    BY <1>6, <1>8, <2>1 DEF step_over_pending_breakpoint, mark_running
<1>9. ASSUME detach PROVE ControlInv'
  <2>1. CASE call' = "threw"
    BY <1>1, <1>9, <2>1 DEF detach, Idle, kernelVars
  <2>2. CASE call' = "detached"
    <3>1. kst' = kst /\ kev' = kev /\ call = "idle"
      BY <1>9 DEF detach, Idle, kernelVars
    <3>2. \A x \in Tid : tasks'[x] = "none"
      BY <1>9, <2>2 DEF detach, Throw
    <3>. QED
      BY <2>2, <3>1, <3>2, SMT
  <2>. QED
    BY <1>9, <2>1, <2>2 DEF detach, Throw
<1>10. ASSUME destroy PROVE ControlInv'
  <2>1. ~Waiting /\ call' = "gone" /\ \A x \in Tid : tasks'[x] = "none"
    BY <1>10 DEF destroy, Idle
  <2>2. CASE kst' = kst /\ kev' = kev
    BY <2>1, <2>2, SMT
  <2>3. CASE \A x \in Tid : kst'[x] = "none" /\ kev'[x].kind = "none"
    BY <2>1, <2>3
  <2>. QED
    BY <1>10, <2>2, <2>3 DEF destroy, NoEvent
<1>. QED
  BY <1>2, <1>3, <1>4, <1>5, <1>7, <1>8, <1>9, <1>10
  DEF User, continue_execution, single_step

\* Collecting a death outside of execve preserves it: nothing moves then, so
\* the debugger may return, wait on or throw.
LEMMA ControlReap ==
  ASSUME TypeOK, ControlInv, NEW t \in Tid, Waiting, Traced',
         kev[t].kind \in {"exit", "killed"},
         \A x \in Tid : kst[x] # "exec",
         \A x \in Tid : kst'[x] = IF x = t THEN "none" ELSE kst[x],
         \A x \in Tid : kev'[x].kind = IF x = t THEN "none" ELSE kev[x].kind,
         \A x \in Tid : tasks'[x] = IF x = t THEN "none" ELSE tasks[x]
  PROVE  ControlInv'
<1>1. \A x \in Tid : ~Moving(x)
  BY DEF ControlInv, QuietMove, Moving
<1>2. \A x \in Tid : ~Moving(x)'
  BY <1>1 DEF Moving
<1>3. OneMover'
  BY <1>2 DEF OneMover
<1>4. QuietMove'
  BY <1>2 DEF QuietMove, Moving
<1>5. EventsOfStopped'
  BY <1>2, SMT DEF ControlInv, EventsOfStopped, Moving
<1>6. \A x \in Tid : x # t /\ kev[x].kind \notin {"none", "clone"} =>
        \A y \in Tid : kst[y] \in {"none", "dead"}
  BY DEF ControlInv, LoneReport
<1>7. \A x \in Tid : kev[x].kind # "exec" /\ kev'[x].kind # "exec"
  BY <1>6, SMT DEF ControlInv, EventsOfStopped
<1>8. LoneReport'
  BY <1>6 DEF LoneReport
<1>9. ExecAlone' /\ ExecPending'
  BY <1>2, <1>7 DEF ExecAlone, ExecPending, Moving
<1>10. Unregistered'
  BY <1>2 DEF ControlInv, Unregistered, Waiting, Traced
<1>11. \A x \in Tid : tasks[x] = "Stopped" => kst[x] # "none"
  BY <1>7 DEF ControlInv, RegistryExists
<1>12. RegistryExists'
  BY <1>11 DEF RegistryExists
<1>. QED
  BY <1>3, <1>4, <1>5, <1>8, <1>9, <1>10, <1>12 DEF ControlInv

\* Collecting a death during an execve: the only stopped entry of the registry
\* goes, so the wait goes on.
LEMMA ControlReapInExec ==
  ASSUME TypeOK, ControlInv, NEW t \in Tid, WaitExit(t), NEW e \in Tid, kst[e] = "exec"
  PROVE  ControlInv'
<1>. DEFINE ts == [tasks EXCEPT ![t] = "none"]
<1>1. /\ \A x \in Tid : kst'[x] = IF x = t THEN "none" ELSE kst[x]
      /\ \A x \in Tid : kev'[x].kind = IF x = t THEN "none" ELSE kev[x].kind
      /\ \A x \in Tid : tasks'[x] = IF x = t THEN "none" ELSE tasks[x]
  BY DEF WaitExit, TypeOK, NoEvent
<1>2. Waiting /\ kev[t].kind \in {"exit", "killed"}
  BY DEF WaitExit
<1>3. /\ e # t /\ \A x \in Tid : x # e => kst[x] \in {"none", "dead"}
      /\ \A x \in Tid : tasks[x] = "Stopped" => x = t
  BY <1>2 DEF ControlInv, ExecAlone
<1>4. tasks[e] = "Running"
  BY DEF ControlInv, EventsOfStopped
<1>5. \A x \in Tid : kev'[x].kind = "none"
  <2>1. SUFFICES ASSUME NEW x \in Tid, x # t, kev[x].kind # "none" PROVE FALSE
    BY <1>1
  <2>2. kev[x].kind = "exit" /\ kev[t].kind # "none"
    BY <1>2, <2>1 DEF ControlInv, ExecAlone
  <2>3. kst[e] \in {"none", "dead"} \/ kev[x].kind \in {"none", "clone"}
    BY <1>2, <2>1, <2>2 DEF ControlInv, LoneReport
  <2>. QED
    BY <2>2, <2>3
<1>6. tids(ts) # {} /\ StoppedTids(ts) = {}
  BY <1>3, <1>4 DEF tids, StoppedTids, TypeOK
<1>7. call' = call
  <2>1. update_aggregate_state(ts) = "Running"
    BY <1>6 DEF update_aggregate_state
  <2>2. \/ tids(ts) = {} \/ update_aggregate_state(ts) = "Stopped" \/ call' = call
    BY DEF WaitExit
  <2>. QED
    BY <1>6, <2>1, <2>2
<1>8. \A x \in Tid : Moving(x)' => x = e
  BY <1>1, <1>3 DEF Moving
<1>9. Waiting'
  BY <1>2, <1>7 DEF Waiting
<1>10. OneMover'
  BY <1>8, <1>9 DEF OneMover
<1>11. QuietMove' /\ LoneReport' /\ ExecPending'
  BY <1>5 DEF QuietMove, LoneReport, ExecPending
<1>12. EventsOfStopped'
  BY <1>1, <1>3, <1>4, <1>5 DEF EventsOfStopped
<1>13. ExecAlone'
  BY <1>1, <1>3, <1>5 DEF ExecAlone
<1>14. Unregistered'
  BY <1>1, <1>3 DEF Unregistered
<1>15. RegistryExists'
  BY <1>1, <1>3 DEF RegistryExists
<1>. QED
  BY <1>10, <1>11, <1>12, <1>13, <1>14, <1>15 DEF ControlInv

\* A collected wait status preserves it: a stop or the last death returns
\* only when nothing moves, and during an execve the wait goes on.
LEMMA ControlWait ==
  ASSUME TypeOK, ControlInv, NEW t \in Tid, wait_and_classify(t)
  PROVE  ControlInv'
<1>1. ASSUME kev[t].kind \in {"sig", "trap"}, Waiting
      PROVE  /\ kst[t] = "stop" /\ \A x \in Tid : ~Moving(x)
             /\ \A x \in Tid : x # t => kev[x].kind \in {"none", "clone"}
             /\ \A x \in Tid : kev[x].kind # "exec"
             /\ \A x \in Tid : tasks[x] = "Stopped" => kst[x] # "none"
  <2>1. kst[t] = "stop"
    BY <1>1 DEF ControlInv, EventsOfStopped
  <2>2. \A x \in Tid : kst[x] # "exec"
    BY <1>1 DEF ControlInv, ExecAlone
  <2>3. ASSUME NEW x \in Tid, Moving(x) PROVE FALSE
    <3>1. kst[x] \in {"born", "run", "step"}
      BY <2>2, <2>3 DEF Moving
    <3>2. kev[t].kind \in {"none", "clone"}
      BY <3>1 DEF ControlInv, QuietMove
    <3>. QED
      BY <1>1, <3>2
  <2>4. \A x \in Tid : x # t => kev[x].kind \in {"none", "clone"}
    BY <1>1, <2>1 DEF ControlInv, LoneReport
  <2>5. ASSUME NEW x \in Tid PROVE kev[x].kind # "exec"
    <3>1. CASE x = t
      BY <1>1, <3>1
    <3>2. CASE x # t
      BY <2>4, <3>2
    <3>. QED
      BY <3>1, <3>2
  <2>. QED
    BY <2>1, <2>2, <2>3, <2>4, <2>5 DEF ControlInv, RegistryExists
<1>2. ASSUME kev[t].kind \in {"sig", "trap"}, Waiting, kst' = kst,
             kev' = [kev EXCEPT ![t] = NoEvent], tasks' = [tasks EXCEPT ![t] = "Stopped"],
             call' \in {"idle", "threw"}
      PROVE  ControlInv'
  <2>1. /\ \A x \in Tid : kev'[x].kind = IF x = t THEN "none" ELSE kev[x].kind
        /\ \A x \in Tid : tasks'[x] = IF x = t THEN "Stopped" ELSE tasks[x]
    BY <1>2 DEF TypeOK, NoEvent
  <2>2. \A x \in Tid : ~Moving(x)' /\ kst'[x] # "exec" /\ kev'[x].kind \in {"none", "clone"}
    BY <1>1, <1>2, <2>1 DEF Moving
  <2>3. OneMover' /\ QuietMove'
    BY <2>2 DEF OneMover, QuietMove, Moving
  <2>4. EventsOfStopped'
    BY <1>1, <1>2, <2>1, <2>2, SMT DEF ControlInv, EventsOfStopped, Moving
  <2>5. LoneReport' /\ ExecAlone' /\ ExecPending'
    BY <2>2 DEF LoneReport, ExecAlone, ExecPending
  <2>6. Unregistered'
    BY <1>2, <2>1, <2>2, SMT DEF ControlInv, Unregistered, Waiting, Traced
  <2>7. RegistryExists'
    BY <1>1, <1>2, <2>1, SMT DEF RegistryExists
  <2>. QED
    BY <2>3, <2>4, <2>5, <2>6, <2>7 DEF ControlInv
<1>3. CASE WaitStop(t)
  BY <1>2, <1>3 DEF WaitStop, RecordStop, Return, StepOverReturns, Throw
<1>4. CASE WaitBreakpoint(t)
  BY <1>2, <1>4 DEF WaitBreakpoint, RecordStop
<1>5. CASE WaitDisplacedStep(t)
  <2>1. /\ kev[t].kind \in {"sig", "trap"} /\ Waiting /\ Waiting'
        /\ kev' = [kev EXCEPT ![t] = NoEvent]
        /\ kst' = [kst EXCEPT ![t] = "run"] /\ tasks' = [tasks EXCEPT ![t] = "Running"]
    BY <1>5 DEF WaitDisplacedStep, RecordStop, Waiting
  <2>2. /\ \A x \in Tid : kst'[x] = IF x = t THEN "run" ELSE kst[x]
        /\ \A x \in Tid : kev'[x].kind = IF x = t THEN "none" ELSE kev[x].kind
        /\ \A x \in Tid : tasks'[x] = IF x = t THEN "Running" ELSE tasks[x]
    BY <2>1 DEF TypeOK, NoEvent
  <2>3. \A x \in Tid : /\ Moving(x)' => x = t
                       /\ kst'[x] # "exec" /\ kev'[x].kind \in {"none", "clone"}
    BY <1>1, <2>1, <2>2, SMT DEF Moving
  <2>4. OneMover' /\ QuietMove'
    BY <2>1, <2>3 DEF OneMover, QuietMove
  <2>5. EventsOfStopped'
    BY <1>1, <2>1, <2>2, <2>3, SMT DEF ControlInv, EventsOfStopped, Moving
  <2>6. LoneReport' /\ ExecAlone' /\ ExecPending'
    BY <2>3 DEF LoneReport, ExecAlone, ExecPending
  <2>7. \A x \in Tid : x # t /\ kst[x] = "stop" => tasks[x] # "none"
    BY <1>1, <2>1 DEF ControlInv, Unregistered, Waiting, Traced
  <2>8. Unregistered'
    BY <2>2, <2>7 DEF Unregistered
  <2>9. RegistryExists'
    BY <1>1, <2>1, <2>2, SMT DEF RegistryExists
  <2>. QED
    BY <2>4, <2>5, <2>6, <2>8, <2>9 DEF ControlInv
<1>6. CASE WaitClone(t)
  <2>1. /\ \A x \in Tid : kev'[x].kind = IF x = t THEN "none" ELSE kev[x].kind
        /\ \A x \in Tid : tasks'[x] = "Stopped" => x = t \/ tasks[x] = "Stopped"
        /\ \A x \in Tid : tasks'[x] = "none" => tasks[x] = "none"
        /\ \A x \in Tid : tasks[x] = "Running" => x = t \/ tasks'[x] = "Running"
    BY <1>6 DEF WaitClone, TypeOK, NoEvent
  <2>2. Waiting /\ kev[t].kind = "clone" /\ kst' = kst /\ call' = call /\ Traced
    BY <1>6 DEF WaitClone, Waiting, Traced
  <2>3. kst[t] = "stop"
    BY <2>2 DEF ControlInv, EventsOfStopped
  <2>4. \A x \in Tid : kst[x] # "exec" /\ kst'[x] # "exec"
    BY <2>2 DEF ControlInv, ExecAlone
  <2>5. \A x \in Tid : Moving(x)' <=> Moving(x)
    BY <2>2 DEF Moving
  <2>6. OneMover'
    BY <2>2, <2>5 DEF ControlInv, OneMover, Waiting
  <2>7. QuietMove'
    BY <2>1, <2>2 DEF ControlInv, QuietMove
  <2>8. EventsOfStopped'
    BY <2>1, <2>2, <2>3 DEF ControlInv, EventsOfStopped
  <2>9. LoneReport'
    BY <2>1, <2>2 DEF ControlInv, LoneReport, Waiting
  <2>10. ExecAlone'
    BY <2>4 DEF ExecAlone
  <2>11. \A x \in Tid : kev[x].kind # "exec" /\ kev'[x].kind # "exec"
    BY <2>1, <2>2, <2>3 DEF ControlInv, ExecPending
  <2>12. ExecPending'
    BY <2>11 DEF ExecPending
  <2>13. Unregistered'
    <3>1. SUFFICES ASSUME NEW u \in Tid, kst'[u] = "stop", tasks'[u] = "none"
                   PROVE  kev'[u].kind \in {"sig", "exec"} /\ \A x \in Tid : ~Moving(x)'
      BY DEF Unregistered
    <3>2. kst[u] = "stop" /\ tasks[u] = "none"
      BY <2>1, <2>2, <3>1
    <3>3. kev[u].kind \in {"sig", "exec"} /\ \A x \in Tid : ~Moving(x)
      BY <2>2, <3>2 DEF ControlInv, Unregistered
    <3>. QED
      BY <2>1, <2>2, <2>5, <3>3
  <2>14. RegistryExists'
    BY <2>1, <2>2, <2>3, <2>4, <2>11 DEF ControlInv, RegistryExists
  <2>. QED
    BY <2>6, <2>7, <2>8, <2>9, <2>10, <2>12, <2>13, <2>14 DEF ControlInv
<1>7. CASE WaitExit(t)
  <2>1. CASE \E e \in Tid : kst[e] = "exec"
    BY <1>7, <2>1, ControlReapInExec
  <2>2. CASE \A e \in Tid : kst[e] # "exec"
    <3>1. /\ \A x \in Tid : kst'[x] = IF x = t THEN "none" ELSE kst[x]
          /\ \A x \in Tid : kev'[x].kind = IF x = t THEN "none" ELSE kev[x].kind
          /\ \A x \in Tid : tasks'[x] = IF x = t THEN "none" ELSE tasks[x]
      BY <1>7 DEF WaitExit, TypeOK, NoEvent
    <3>2. Waiting /\ kev[t].kind \in {"exit", "killed"}
      BY <1>7 DEF WaitExit
    <3>3. Traced'
      <4>1. call' \in {"idle", "threw", call}
        BY <1>7 DEF WaitExit, Return, StepOverReturns, Throw
      <4>. QED
        BY <3>2, <4>1 DEF Traced, Waiting
    <3>. QED
      BY <2>2, <3>1, <3>2, <3>3, ControlReap
  <2>. QED
    BY <2>1, <2>2
<1>8. CASE WaitExec(t)
  <2>1. /\ \A x \in Tid : kev'[x].kind = IF x = t THEN "none" ELSE kev[x].kind
        /\ \A x \in Tid : tasks'[x] = IF x = t THEN "Stopped" ELSE "none"
        /\ kst' = kst /\ call' = "idle" /\ kev[t].kind = "exec"
    BY <1>8 DEF WaitExec, TypeOK, NoEvent
  <2>2. \A x \in Tid : x # t => kst[x] = "none" /\ kev[x].kind = "none"
    BY <2>1 DEF ControlInv, ExecPending
  <2>3. kst[t] = "stop"
    BY <2>1 DEF ControlInv, EventsOfStopped
  <2>4. \A x \in Tid : /\ ~Moving(x)' /\ kev'[x].kind = "none"
                       /\ kst'[x] = IF x = t THEN "stop" ELSE "none"
    BY <2>1, <2>2, <2>3 DEF Moving
  <2>5. OneMover' /\ QuietMove' /\ LoneReport' /\ ExecPending'
    BY <2>4 DEF OneMover, QuietMove, LoneReport, ExecPending
  <2>6. EventsOfStopped' /\ ExecAlone'
    BY <2>4 DEF EventsOfStopped, ExecAlone
  <2>7. Unregistered' /\ RegistryExists'
    BY <2>1, <2>4 DEF Unregistered, RegistryExists
  <2>. QED
    BY <2>5, <2>6, <2>7 DEF ControlInv
<1>9. CASE WaitUntracked(t)
  <2>1. /\ \A x \in Tid : kst'[x] = IF x = t THEN "none" ELSE kst[x]
        /\ \A x \in Tid : kev'[x].kind = IF x = t THEN "none" ELSE kev[x].kind
        /\ \A x \in Tid : tasks'[x] = IF x = t THEN "none" ELSE tasks[x]
    BY <1>9 DEF WaitUntracked, TypeOK, NoEvent, processVars
  <2>2. Waiting /\ kev[t].kind \in {"exit", "killed"} /\ tasks[t] = "none" /\ Traced'
    BY <1>9 DEF WaitUntracked, Throw, Traced
  <2>3. \A x \in Tid : kst[x] # "exec"
    BY <2>2 DEF ControlInv, ExecAlone
  <2>. QED
    BY <2>1, <2>2, <2>3, ControlReap
<1>. QED
  BY <1>3, <1>4, <1>5, <1>6, <1>7, <1>8, <1>9 DEF wait_and_classify

\* The control invariant is inductive.
LEMMA ControlStep ==
  ASSUME "late_exec" \notin Races, TypeOK, ControlInv, [Next]_vars
  PROVE  ControlInv'
<1>1. CASE UNCHANGED vars
  <2>1. kst' = kst /\ kev' = kev /\ tasks' = tasks /\ call' = call
    BY <1>1 DEF vars
  <2>2. OneMover' /\ QuietMove' /\ EventsOfStopped'
    BY <2>1 DEF ControlInv, OneMover, QuietMove, EventsOfStopped, Moving, Waiting
  <2>3. Unregistered' /\ LoneReport'
    BY <2>1 DEF ControlInv, Unregistered, LoneReport, Moving, Waiting, Traced
  <2>4. ExecAlone' /\ ExecPending' /\ RegistryExists'
    BY <2>1, SMT DEF ControlInv, ExecAlone, ExecPending, RegistryExists, Waiting
  <2>. QED
    BY <2>2, <2>3, <2>4 DEF ControlInv
<1>. QED
  BY <1>1, ControlKernel, ControlUser, ControlWait DEF Next

\* The control invariant holds throughout a session in which an execve takes
\* at most one other thread with it.
LEMMA ControlInvariant ==
  ASSUME "late_exec" \notin Races
  PROVE  Spec => [](TypeOK /\ ControlInv)
<1>1. Init => TypeOK /\ ControlInv
  BY TypeInit, ControlInit
<1>2. TypeOK /\ ControlInv /\ [Next]_vars => (TypeOK /\ ControlInv)'
  BY TypeStep, ControlStep
<1>. QED
  BY <1>1, <1>2, PTL DEF Spec

-----------------------------------------------------------------------------
(* Byte accounting.                                                        *)

\* The breakpoint table: installed breakpoints exist, a displaced step in
\* progress has an address, and the image of an uncollected exec is untouched.
TableOK ==
  /\ \A a \in Addr : bp[a].installed => bp[a].id # 0
  /\ Over => pend.address \in Addr
  /\ pend # NoPend => pend.address \in Addr /\ pend.tid \in Tid
  /\ nextId # 0
  /\ ~ImageCurrent => mem = prog

IInv == TypeOK /\ ControlInv /\ TableOK /\ PatchDiscipline

\* The bytes at one address are accounted for.
Accounted(a) ==
  /\ mem[a] = IF bp[a].installed THEN INT3 ELSE prog[a]
  /\ bp[a].id # 0 => bp[a].original_byte = prog[a]

\* No breakpoint exists when a session starts.
LEMMA TableInit == Init => TableOK /\ PatchDiscipline
<1>. SUFFICES ASSUME Init PROVE TableOK /\ PatchDiscipline
  OBVIOUS
<1>1. /\ \A a \in Addr : bp[a].id = 0 /\ bp[a].installed = FALSE
      /\ pend = NoPend /\ nextId = 1 /\ mem = prog /\ call = "idle"
  BY BreakpointFacts DEF Init
<1>. QED
  BY <1>1, SMT DEF TableOK, PatchDiscipline, Over

\* Steps that touch neither memory nor the table.
LEMMA TableUntouched ==
  ASSUME TableOK, PatchDiscipline, UNCHANGED <<mem, prog, bp, pend, nextId>>,
         ImageCurrent, ImageCurrent', Traced' => Traced, Over' => pend.address \in Addr
  PROVE  (TableOK /\ PatchDiscipline)'
BY DEF TableOK, PatchDiscipline

\* While a thread runs, or a stop or a death can be collected, no exec stop
\* is uncollected.
LEMMA ImageIsCurrent ==
  ASSUME ControlInv, NEW t \in Tid,
         \/ kst[t] \in {"born", "run", "step", "exec"}
         \/ kev[t].kind \notin {"none", "exec"}
         \/ ~Waiting
  PROVE  ImageCurrent
BY DEF ControlInv, QuietMove, ExecAlone, ExecPending, ImageCurrent

\* The kernel writes memory only when an execve ends, and then all of it.
LEMMA TableKernel ==
  ASSUME TypeOK, ControlInv, TableOK, PatchDiscipline, Kernel
  PROVE  (TableOK /\ PatchDiscipline)'
<1>1. CASE \E t \in Tid : FinishExec(t)
  <2>1. PICK t \in Tid : FinishExec(t)
    BY <1>1
  <2>2. mem' = prog' /\ UNCHANGED <<bp, pend, nextId, call>>
    BY <2>1 DEF FinishExec
  <2>3. kev'[Leader].kind = "exec"
    BY <2>1, TidAssumption DEF FinishExec, Event
  <2>. QED
    BY <2>2, <2>3, TidAssumption DEF TableOK, PatchDiscipline, ImageCurrent, Over
<1>2. ASSUME UNCHANGED <<mem, prog, bp, pend, nextId, call>>, ImageCurrent,
             \A x \in Tid : kev'[x].kind # "exec"
      PROVE  (TableOK /\ PatchDiscipline)'
  BY <1>2 DEF TableOK, PatchDiscipline, ImageCurrent, Over, Traced
<1>3. ASSUME NEW t \in Tid, Active(t) \/ kst[t] = "born" PROVE ImageCurrent
  BY <1>3, ImageIsCurrent DEF Active
<1>4. ASSUME NEW t \in Tid, Execute(t) PROVE (TableOK /\ PatchDiscipline)'
  <2>1. \/ kev' = kev
        \/ kev' = [kev EXCEPT ![t] = Event("trap", 0)]
    BY <1>4 DEF Execute
  <2>2. \A x \in Tid : kev'[x].kind \in {kev[x].kind, "trap"}
    BY <2>1, SMT DEF TypeOK, Event
  <2>. QED
    BY <1>2, <1>3, <1>4, <2>2 DEF Execute, ImageCurrent
<1>5. ASSUME NEW t \in Tid, TakeSignal(t) PROVE (TableOK /\ PatchDiscipline)'
  <2>1. \A x \in Tid : kev'[x].kind \in {kev[x].kind, "sig"}
    BY <1>5, SMT DEF TakeSignal, TypeOK, Event
  <2>. QED
    BY <1>2, <1>3, <1>5, <2>1 DEF TakeSignal, ImageCurrent
<1>6. ASSUME NEW t \in Tid, NEW u \in Tid, Clone(t, u) PROVE (TableOK /\ PatchDiscipline)'
  <2>1. \A x \in Tid : kev'[x].kind \in {kev[x].kind, "clone"}
    BY <1>6 DEF Clone, TypeOK, Event
  <2>. QED
    BY <1>2, <1>3, <1>6, <2>1 DEF Clone, ImageCurrent
<1>7. ASSUME NEW t \in Tid, Start(t) PROVE (TableOK /\ PatchDiscipline)'
  <2>1. \A x \in Tid : kev'[x].kind \in {kev[x].kind, "sig"}
    BY <1>7 DEF Start, TypeOK, Event
  <2>. QED
    BY <1>2, <1>3, <1>7, <2>1 DEF Start, ImageCurrent
<1>8. ASSUME NEW t \in Tid, Die(t) PROVE (TableOK /\ PatchDiscipline)'
  <2>1. PICK k \in {"exit", "killed"} :
          kev' = IF t = Leader THEN kev ELSE [kev EXCEPT ![t] = Event(k, 0)]
    BY <1>8 DEF Die
  <2>2. \A x \in Tid : kev'[x].kind \in {kev[x].kind, k}
    BY <2>1 DEF TypeOK, Event
  <2>. QED
    BY <1>2, <1>3, <1>8, <2>2 DEF Die, ImageCurrent
<1>9. ASSUME NEW t \in Tid, DieTogether(t) PROVE (TableOK /\ PatchDiscipline)'
  <2>1. PICK k \in {"exit", "killed"} :
          kev' = [u \in Tid |-> IF u = Leader THEN NoEvent
                                ELSE IF u \in Live THEN Event(k, 0) ELSE kev[u]]
    BY <1>9 DEF DieTogether
  <2>2. \A x \in Tid : kev'[x].kind \in {"none", kev[x].kind, k}
    BY <2>1 DEF Event, NoEvent
  <2>. QED
    BY <1>2, <1>3, <1>9, <2>2 DEF DieTogether, ImageCurrent
<1>10. ASSUME ReportLeader PROVE (TableOK /\ PatchDiscipline)'
  <2>1. \A x \in Tid : kev'[x].kind \in {kev[x].kind, "exit", "killed"}
    BY <1>10, SMT DEF ReportLeader, TypeOK, Event
  <2>2. \A x \in Tid : kst[x] \in {"dead", "none"}
    BY <1>10 DEF ReportLeader, Present
  <2>3. ImageCurrent
    BY <2>2 DEF ControlInv, EventsOfStopped, ImageCurrent
  <2>. QED
    BY <1>2, <1>10, <2>1, <2>3 DEF ReportLeader, ImageCurrent
<1>11. ASSUME NEW t \in Tid, BeginExec(t) PROVE (TableOK /\ PatchDiscipline)'
  <2>1. \A x \in Tid : kev'[x].kind \in {"none", kev[x].kind, "exit"}
    BY <1>11 DEF BeginExec, Event, NoEvent
  <2>. QED
    BY <1>2, <1>3, <1>11, <2>1 DEF BeginExec, ImageCurrent
<1>. QED
  BY <1>1, <1>4, <1>5, <1>6, <1>7, <1>8, <1>9, <1>10, <1>11 DEF Kernel

\* The user's commands account for every byte they write.
LEMMA TableUser ==
  ASSUME TypeOK, ControlInv, TableOK, PatchDiscipline, User
  PROVE  (TableOK /\ PatchDiscipline)'
<1>1. ~Waiting
  <2>1. call \in {"idle", "threw"}
    BY DEF User, add_breakpoint, remove_breakpoint, write_memory, select_thread,
      continue_execution, single_step, Resume, step_over_pending_breakpoint, MotionFails, detach,
      destroy, Idle
  <2>. QED
    BY <2>1 DEF Waiting
<1>2. \A x \in Tid : kev[x].kind # "exec"
  BY <1>1, PromptIsQuiet
<1>3. \A x \in Tid : kev'[x].kind \in {"none", kev[x].kind}
  <2>1. \/ kev' = kev
        \/ kev' = [kev EXCEPT ![cur] = NoEvent]
        \/ kev' = [t \in Tid |-> NoEvent]
    BY DEF User, add_breakpoint, remove_breakpoint, write_memory, select_thread,
      continue_execution, single_step, Resume, step_over_pending_breakpoint, MotionFails, detach,
      destroy, kernelVars
  <2>. QED
    BY <2>1, SMT DEF TypeOK, NoEvent
<1>4. ImageCurrent /\ ImageCurrent'
  BY <1>2, <1>3 DEF ImageCurrent
<1>5. ASSUME Traced PROVE \A a \in Addr : Accounted(a)
  BY <1>4, <1>5 DEF PatchDiscipline, Accounted
<1>6. ASSUME \A a \in Addr : (Accounted(a) /\ (bp[a].installed => bp[a].id # 0))',
             ~Over', nextId' # 0, pend' \in {pend, NoPend}
      PROVE  (TableOK /\ PatchDiscipline)'
  BY <1>4, <1>6 DEF TableOK, PatchDiscipline, Accounted
<1>7. ASSUME NEW a \in Addr, add_breakpoint(a) PROVE (TableOK /\ PatchDiscipline)'
  <2>1. \A x \in Addr :
          /\ mem'[x] = IF x = a THEN INT3 ELSE mem[x]
          /\ bp'[x].id = IF x = a THEN nextId ELSE bp[x].id
          /\ bp'[x].original_byte = IF x = a THEN mem[x] ELSE bp[x].original_byte
          /\ bp'[x].installed = IF x = a THEN TRUE ELSE bp[x].installed
    BY <1>7 DEF add_breakpoint, TypeOK
  <2>2. prog' = prog /\ bp[a].id = 0 /\ call' = "idle" /\ Traced /\ pend' = pend
    BY <1>7 DEF add_breakpoint, Idle, kernelVars, Traced
  <2>3. nextId' # 0
    BY <1>7, SMT DEF add_breakpoint, TypeOK
  <2>4. \A x \in Addr : (Accounted(x) /\ (bp[x].installed => bp[x].id # 0))'
    BY <1>5, <2>1, <2>2 DEF Accounted, TableOK
  <2>. QED
    BY <1>6, <2>2, <2>3, <2>4 DEF Over
<1>8. ASSUME NEW a \in Addr, remove_breakpoint(a) PROVE (TableOK /\ PatchDiscipline)'
  <2>1. prog' = prog /\ ~Over' /\ Traced /\ nextId' = nextId /\ pend' \in {pend, NoPend}
    BY <1>8 DEF remove_breakpoint, Idle, kernelVars, Traced, Over, Throw
  <2>2. CASE UNCHANGED <<mem, bp>>
    BY <1>5, <1>6, <2>1, <2>2 DEF Accounted, TableOK
  <2>3. CASE /\ mem' = IF bp[a].installed THEN [mem EXCEPT ![a] = bp[a].original_byte] ELSE mem
             /\ bp' = [bp EXCEPT ![a] = NoBreak]
    <3>1. \A x \in Addr :
            /\ mem'[x] = IF x = a /\ bp[a].installed THEN bp[a].original_byte ELSE mem[x]
            /\ bp'[x] = IF x = a THEN NoBreak ELSE bp[x]
      BY <2>3 DEF TypeOK
    <3>2. \A x \in Addr : (Accounted(x) /\ (bp[x].installed => bp[x].id # 0))'
      BY <1>5, <2>1, <3>1, BreakpointFacts DEF Accounted, TableOK
    <3>. QED
      BY <1>6, <2>1, <3>2 DEF TableOK
  <2>. QED
    BY <1>8, <2>2, <2>3 DEF remove_breakpoint
<1>9. ASSUME NEW lo \in Addr, NEW hi \in 0 .. CodeSize, NEW w \in [lo .. hi -> Byte],
             write_memory(lo, hi, w)
      PROVE (TableOK /\ PatchDiscipline)'
  <2>. DEFINE range == (lo .. hi) \cap Addr
              written(x) == hi \in Addr \/ bp[x].id = 0
  <2>1. Traced /\ UNCHANGED <<nextId, pend, call>> /\ ~Over'
    BY <1>9 DEF write_memory, Idle, Traced, Over
  <2>2. \A x \in range : bp[x].id # 0 => bp[x].installed
    BY <1>9 DEF write_memory
  <2>3. \A x \in Addr :
          /\ mem'[x] = IF x \in range /\ bp[x].id = 0 THEN w[x] ELSE mem[x]
          /\ bp'[x] = IF x \in range /\ bp[x].id # 0 /\ hi \in Addr
                      THEN [bp[x] EXCEPT !.original_byte = w[x]] ELSE bp[x]
          /\ prog'[x] = IF x \in range /\ written(x) THEN w[x] ELSE prog[x]
    BY <1>9 DEF write_memory
  <2>4. \A x \in Addr :
          /\ bp'[x].id = bp[x].id /\ bp'[x].installed = bp[x].installed
          /\ bp'[x].original_byte = IF x \in range /\ bp[x].id # 0 /\ hi \in Addr
                                    THEN w[x] ELSE bp[x].original_byte
    <3>. HIDE DEF range
    <3>1. SUFFICES ASSUME NEW x \in Addr
                   PROVE  /\ bp'[x].id = bp[x].id /\ bp'[x].installed = bp[x].installed
                          /\ bp'[x].original_byte = IF x \in range /\ bp[x].id # 0 /\ hi \in Addr
                                                    THEN w[x] ELSE bp[x].original_byte
      OBVIOUS
    <3>2. bp[x] \in [id : Nat, original_byte : Byte, installed : BOOLEAN]
      BY DEF TypeOK, Breakpoint
    <3>3. bp'[x] = IF x \in range /\ bp[x].id # 0 /\ hi \in Addr
                   THEN [bp[x] EXCEPT !.original_byte = w[x]] ELSE bp[x]
      BY <2>3
    <3>. QED
      BY <3>2, <3>3
  <2>5. ASSUME NEW x \in Addr PROVE (Accounted(x) /\ (bp[x].installed => bp[x].id # 0))'
    <3>. HIDE DEF range
    <3>1. Accounted(x) /\ (bp[x].installed => bp[x].id # 0)
      BY <1>5, <2>1 DEF TableOK
    <3>2. CASE x \notin range
      BY <2>3, <2>4, <3>1, <3>2 DEF Accounted
    <3>3. CASE x \in range /\ bp[x].id = 0
      BY <2>3, <2>4, <3>1, <3>3 DEF Accounted
    <3>4. CASE x \in range /\ bp[x].id # 0
      BY <2>2, <2>3, <2>4, <3>1, <3>4 DEF Accounted
    <3>. QED
      BY <3>2, <3>3, <3>4
  <2>. QED
    BY <1>6, <2>1, <2>5 DEF TableOK
<1>10. ASSUME UNCHANGED <<mem, prog, bp, pend, nextId>>, Traced,
              Over' => pend # NoPend
       PROVE  (TableOK /\ PatchDiscipline)'
  BY <1>4, <1>10, TableUntouched DEF TableOK
<1>11. ASSUME NEW t \in Tid, select_thread(t) PROVE (TableOK /\ PatchDiscipline)'
  BY <1>10, <1>11 DEF select_thread, Idle, kernelVars, breakVars, Over, Traced
<1>12. ASSUME NEW command \in {"continue", "stepi"}, NEW how, Resume(command, how)
       PROVE (TableOK /\ PatchDiscipline)'
  BY <1>10, <1>12 DEF Resume, Idle, breakVars, Over, Traced
<1>13. ASSUME NEW command \in {"continue", "stepi"}, step_over_pending_breakpoint(command)
       PROVE (TableOK /\ PatchDiscipline)'
  BY <1>10, <1>13 DEF step_over_pending_breakpoint, Idle, breakVars, Traced
<1>14. ASSUME MotionFails PROVE (TableOK /\ PatchDiscipline)'
  BY <1>10, <1>14 DEF MotionFails, Throw, Idle, kernelVars, breakVars, Over, Traced
<1>15. ASSUME \A a \in Addr : bp'[a] = NoBreak, pend' = NoPend, nextId' = nextId,
              call' \in {"detached", "gone"}
       PROVE  (TableOK /\ PatchDiscipline)'
  BY <1>4, <1>15, BreakpointFacts DEF TableOK, PatchDiscipline, Over, Traced
<1>16. ASSUME detach PROVE (TableOK /\ PatchDiscipline)'
  <2>1. Traced /\ prog' = prog /\ nextId' = nextId
    BY <1>16 DEF detach, Idle, kernelVars, Traced
  <2>2. CASE UNCHANGED <<mem, bp, pend>> /\ call' = "threw"
    BY <1>10, <2>1, <2>2 DEF Over
  <2>3. CASE mem' = restored_mem /\ bp' = restored_bp /\ pend' = NoPend /\ call' = "threw"
    <3>1. \A x \in Addr :
            /\ mem'[x] = IF bp[x].installed THEN bp[x].original_byte ELSE mem[x]
            /\ bp'[x].id = bp[x].id /\ bp'[x].original_byte = bp[x].original_byte
            /\ bp'[x].installed = FALSE
      BY <2>3, SMT DEF restored_mem, restored_bp, TypeOK, Breakpoint
    <3>2. \A x \in Addr : (Accounted(x) /\ (bp[x].installed => bp[x].id # 0))'
      BY <1>5, <2>1, <3>1 DEF Accounted, TableOK
    <3>. QED
      BY <1>6, <2>1, <2>3, <3>2 DEF TableOK, Over
  <2>4. CASE bp' = [a \in Addr |-> NoBreak] /\ pend' = NoPend /\ call' = "detached"
    BY <1>15, <2>1, <2>4
  <2>. QED
    BY <1>16, <2>2, <2>3, <2>4 DEF detach, Throw
<1>17. ASSUME destroy PROVE (TableOK /\ PatchDiscipline)'
  BY <1>15, <1>17 DEF destroy
<1>. QED
  BY <1>7, <1>8, <1>9, <1>11, <1>12, <1>13, <1>14, <1>16, <1>17
  DEF User, continue_execution, single_step

\* So do the hits, reinsertions and discards of a collected wait status.
LEMMA TableWait ==
  ASSUME TypeOK, ControlInv, TableOK, PatchDiscipline, NEW t \in Tid, wait_and_classify(t)
  PROVE  (TableOK /\ PatchDiscipline)'
<1>1. Waiting /\ Traced /\ kev[t].kind # "none"
  BY DEF wait_and_classify, WaitStop, WaitBreakpoint, WaitDisplacedStep, RecordStop, WaitClone,
    WaitExit, WaitExec, WaitUntracked, Waiting, Traced
<1>2. kev' = [kev EXCEPT ![t] = NoEvent] /\ UNCHANGED <<prog, nextId>>
  BY DEF wait_and_classify, WaitStop, WaitBreakpoint, WaitDisplacedStep, RecordStop, WaitClone,
    WaitExit, WaitExec, WaitUntracked, breakVars
<1>3. \A x \in Tid : kev'[x].kind = IF x = t THEN "none" ELSE kev[x].kind
  BY <1>2 DEF TypeOK, NoEvent
<1>4. ImageCurrent'
  BY <1>1, <1>3 DEF ControlInv, ExecPending, ImageCurrent
<1>5. CASE WaitExec(t)
  <2>1. mem = prog
    BY <1>5 DEF WaitExec, TableOK, ImageCurrent
  <2>2. /\ \A x \in Addr : bp'[x] = NoBreak
        /\ mem' = mem /\ pend' = NoPend /\ call' = "idle"
    BY <1>5 DEF WaitExec
  <2>. QED
    BY <1>2, <1>4, <2>1, <2>2, BreakpointFacts DEF TableOK, PatchDiscipline, Over
<1>6. ASSUME kev[t].kind # "exec" PROVE ImageCurrent /\ \A a \in Addr : Accounted(a)
  BY <1>1, <1>6, ImageIsCurrent DEF PatchDiscipline, Accounted
<1>7. ASSUME \A a \in Addr : (Accounted(a) /\ (bp[a].installed => bp[a].id # 0))',
             ~Over', pend' = NoPend \/ (pend'.address \in Addr /\ pend'.tid \in Tid)
      PROVE  (TableOK /\ PatchDiscipline)'
  BY <1>2, <1>4, <1>7 DEF TableOK, PatchDiscipline, Accounted
<1>8. ASSUME kev[t].kind # "exec", UNCHANGED <<mem, bp>>, pend' \in {pend, NoPend},
             Over' => Over /\ pend' = pend
      PROVE  (TableOK /\ PatchDiscipline)'
  BY <1>1, <1>2, <1>4, <1>6, <1>8 DEF TableOK, PatchDiscipline, Accounted
<1>9. ASSUME kev[t].kind # "exec", Over, ~Over', mem' = reinserted_mem(pend.address),
             bp' = reinserted_bp(pend.address), pend' = NoPend
      PROVE  (TableOK /\ PatchDiscipline)'
  <2>1. pend.address \in Addr
    BY <1>9 DEF TableOK
  <2>2. CASE bp[pend.address].id = 0
    BY <1>8, <1>9, <2>2 DEF reinserted_mem, reinserted_bp
  <2>3. CASE bp[pend.address].id # 0
    <3>1. \A x \in Addr :
            /\ mem'[x] = IF x = pend.address THEN INT3 ELSE mem[x]
            /\ bp'[x].id = bp[x].id /\ bp'[x].original_byte = bp[x].original_byte
            /\ bp'[x].installed = IF x = pend.address THEN TRUE ELSE bp[x].installed
      BY <1>9, <2>1, <2>3 DEF reinserted_mem, reinserted_bp, TypeOK, Breakpoint
    <3>2. prog' = prog /\ \A x \in Addr : Accounted(x) /\ (bp[x].installed => bp[x].id # 0)
      BY <1>2, <1>6, <1>9 DEF TableOK
    <3>3. ASSUME NEW x \in Addr PROVE (Accounted(x) /\ (bp[x].installed => bp[x].id # 0))'
      <4>1. CASE x = pend.address
        BY <2>3, <3>1, <3>2, <4>1 DEF Accounted
      <4>2. CASE x # pend.address
        BY <3>1, <3>2, <4>2 DEF Accounted
      <4>. QED
        BY <4>1, <4>2
    <3>. QED
      BY <1>7, <1>9, <3>3
  <2>. QED
    BY <2>2, <2>3
<1>10. ASSUME NEW ts, NEW c, kev[t].kind # "exec", Return(ts, c)
       PROVE  (TableOK /\ PatchDiscipline)'
  BY <1>8, <1>9, <1>10 DEF Return, StepOverReturns, Throw, Over
<1>11. CASE WaitStop(t)
  BY <1>10, <1>11 DEF WaitStop, RecordStop
<1>12. CASE WaitBreakpoint(t)
  <2>. DEFINE a == rip[t] - 1
  <2>1. a \in Addr /\ bp[a].id # 0 /\ bp[a].installed
    BY <1>12 DEF WaitBreakpoint, trap_address, rewound, Reason, BreakpointAt
  <2>2. /\ mem' = [mem EXCEPT ![a] = bp[a].original_byte]
        /\ bp' = [bp EXCEPT ![a].installed = FALSE]
        /\ pend' = [address |-> a, tid |-> t] /\ call' = "idle" /\ kev[t].kind # "exec"
    BY <1>12 DEF WaitBreakpoint, trap_address, rewound, RecordStop
  <2>. HIDE DEF a
  <2>3. \A x \in Addr :
          /\ mem'[x] = IF x = a THEN bp[a].original_byte ELSE mem[x]
          /\ bp'[x].id = bp[x].id /\ bp'[x].original_byte = bp[x].original_byte
          /\ bp'[x].installed = IF x = a THEN FALSE ELSE bp[x].installed
    BY <2>1, <2>2 DEF TypeOK, Breakpoint
  <2>4. prog' = prog /\ \A x \in Addr : Accounted(x) /\ (bp[x].installed => bp[x].id # 0)
    BY <1>2, <1>6, <2>2 DEF TableOK
  <2>5. \A x \in Addr : (Accounted(x) /\ (bp[x].installed => bp[x].id # 0))'
    BY <2>1, <2>3, <2>4 DEF Accounted
  <2>. QED
    BY <1>7, <2>1, <2>2, <2>5 DEF Over
<1>13. CASE WaitDisplacedStep(t)
  BY <1>9, <1>13 DEF WaitDisplacedStep, RecordStop, Over
<1>14. CASE WaitClone(t)
  BY <1>8, <1>14 DEF WaitClone, breakVars, Over
<1>15. CASE WaitExit(t)
  <2>1. kev[t].kind # "exec"
    BY <1>15 DEF WaitExit
  <2>2. \/ UNCHANGED <<mem, bp>> /\ pend' = NoPend /\ call' = "idle"
        \/ \E ts, c : Return(ts, c)
        \/ UNCHANGED <<mem, bp, pend, call>>
    BY <1>15 DEF WaitExit
  <2>. QED
    BY <1>8, <1>10, <2>1, <2>2 DEF Over
<1>16. CASE WaitUntracked(t)
  BY <1>8, <1>16 DEF WaitUntracked, breakVars, Throw, Over
<1>. QED
  BY <1>5, <1>11, <1>12, <1>13, <1>14, <1>15, <1>16 DEF wait_and_classify

-----------------------------------------------------------------------------
(* The bytes of the code.                                                  *)

\* The inductive invariant holds throughout a session in which an execve
\* takes at most one other thread with it.
LEMMA Inductive ==
  ASSUME "late_exec" \notin Races
  PROVE  Spec => []IInv
<1>1. Init => IInv
  BY TypeInit, ControlInit, TableInit DEF IInv
<1>2. IInv /\ [Next]_vars => IInv'
  <2>. SUFFICES ASSUME IInv, [Next]_vars PROVE IInv'
    OBVIOUS
  <2>1. TypeOK' /\ ControlInv'
    BY TypeStep, ControlStep DEF IInv
  <2>2. (TableOK /\ PatchDiscipline)'
    <3>1. CASE UNCHANGED vars
      BY <3>1 DEF IInv, vars, TableOK, PatchDiscipline, ImageCurrent, Over, Traced
    <3>. QED
      BY <3>1, TableKernel, TableUser, TableWait DEF IInv, Next
  <2>. QED
    BY <2>1, <2>2 DEF IInv
<1>. QED
  BY <1>1, <1>2, PTL DEF Spec

\* Byte accounting, for any number of threads, breakpoints and commands: the
\* INT3s the debugger plants and the bytes it saves for them are exact after
\* every hit, displaced step, overlapping write, removal, failed detach and
\* exec, as long as an execve takes at most one other thread with it.
THEOREM BytesAccounted ==
  ASSUME "late_exec" \notin Races
  PROVE  Spec => []PatchDiscipline
<1>1. IInv => PatchDiscipline
  BY DEF IInv
<1>. QED
  BY <1>1, Inductive, PTL
=============================================================================
