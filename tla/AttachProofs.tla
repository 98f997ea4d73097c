---------------------------- MODULE AttachProofs ----------------------------
(***************************************************************************)
(* What attach leaves behind, proved for every set of threads, leader,     *)
(* bounds and set of races.                                                *)
(***************************************************************************)
EXTENDS Attach, TLAPS, WellFoundedInduction

\* Registry and kernel agree.  A thread registered as stopped cannot run; only
\* the awaited one is registered as running; a living traced thread is always
\* registered, so that cleanup can let it go.
Registered ==
  /\ \A t \in Tid : tasks[t] = "Running" => pc = "wait" /\ t = FirstOf(todo)
  /\ \A t \in Tid : tasks[t] = "Stopped" =>
       kst[t] \in {"SIGSTOP", "zombie"} /\ t \in traced /\ pstate = "Stopped"
  /\ \A t \in traced : kst[t] # "absent" /\ (Live(t) => tasks[t] # "none")
  /\ \A t \in Tid : Trapped(t) => t \in traced
  /\ pc \notin Ended => stopq \subseteq traced

\* Where the sweep is.
Swept ==
  /\ pc \in {"wait", "option"} => todo # {}
  /\ pc = "wait" => tasks[FirstOf(todo)] = "Running" /\ FirstOf(todo) \in traced
  /\ pc = "failed" => \A t \in Tid : tasks[t] = "none"
  /\ pc \in {"options", "attached"} =>
       /\ \A t \in Tid : kst[t] # "absent" => tasks[t] = "Stopped"
       /\ cur = Leader /\ pstate = "Stopped" /\ tasks[Leader] = "Stopped"
  /\ pc = "attached" => \A t \in Tid : tasks[t] = "Stopped" => kst[t] = "SIGSTOP"

\* The inductive invariant; inside a sweep, `pass` is short of its bound.
AttachInv ==
  /\ TypeOK /\ Registered /\ Swept
  /\ pc \in {"attach", "wait", "option", "rescan"} => pass < MaxPasses

-----------------------------------------------------------------------------
\* A step that throws: if cleanup finds every living traced thread registered
\* as stopped, the invariant holds after it.
LEMMA CleanupStep ==
  ASSUME TypeOK,
         NEW ts \in [Tid -> TaskState], NEW ps \in ProcessState \cup {"Detached"},
         NEW K \in [Tid -> KernelState], NEW T \in SUBSET Tid,
         \A t \in Tid : ts[t] = "Stopped" => ps = "Stopped",
         \A t \in T : K[t] # "absent" /\ K[t] # "running",
         \A t \in Tid : K[t] \in {"SIGSTOP", "signal"} => t \in T /\ ts[t] = "Stopped",
         cleanup(ts, ps, K, T)
  PROVE  AttachInv'
<1>. DEFINE R == released(ts, ps, K)
<1>1. R = {t \in Tid : K[t] \in {"SIGSTOP", "signal"}}
  BY DEF released, StoppedTids
<1>. HIDE DEF R
<1>2. /\ kst' = [t \in Tid |-> IF t \in R THEN "running" ELSE K[t]]
      /\ traced' = T \ R
      /\ tasks' = [t \in Tid |-> "none"]
      /\ cur' = NoTid
      /\ pstate' = IF ps \in {"Exited", "Signaled"} THEN ps ELSE "Detached"
      /\ pc' = "failed"
      /\ stopq' = stopq /\ pass' = pass /\ todo' = todo
  BY DEF cleanup, R
<1>3. \A t \in Tid : kst'[t] = IF t \in R THEN "running" ELSE K[t]
  BY <1>2
<1>4. \A t \in Tid : kst'[t] \notin {"SIGSTOP", "signal"}
  BY <1>1, <1>3
<1>5. \A t \in traced' : kst'[t] = "zombie"
  BY <1>1, <1>2, <1>3 DEF KernelState
<1>6. TypeOK'
  <2>1. kst' \in [Tid -> KernelState]
    BY <1>2 DEF KernelState
  <2>. QED
    BY <1>2, <2>1 DEF TypeOK, TaskState, ProcessState, Ended
<1>7. Registered'
  BY <1>2, <1>4, <1>5 DEF Registered, Live, Trapped, Ended
<1>8. Swept'
  BY <1>2 DEF Swept
<1>. QED
  BY <1>2, <1>6, <1>7, <1>8 DEF AttachInv

\* Outside the wait, cleanup finds what CleanupStep asks for.
LEMMA ThrowStep ==
  ASSUME AttachInv, pc # "wait", Throw
  PROVE  AttachInv'
<1>1. /\ tasks \in [Tid -> TaskState] /\ pstate \in ProcessState \cup {"Detached"}
      /\ kst \in [Tid -> KernelState] /\ traced \in SUBSET Tid
  BY DEF AttachInv, TypeOK
<1>2. \A t \in Tid : tasks[t] = "Stopped" => pstate = "Stopped"
  BY DEF AttachInv, Registered
<1>3. \A t \in Tid : tasks[t] \in {"none", "Stopped"}
  BY <1>1 DEF AttachInv, Registered, TaskState
<1>4. \A t \in traced : kst[t] # "absent" /\ kst[t] # "running"
  BY <1>1, <1>3 DEF AttachInv, Registered, Live
<1>5. \A t \in Tid : kst[t] \in {"SIGSTOP", "signal"} => t \in traced /\ tasks[t] = "Stopped"
  BY <1>1, <1>3 DEF AttachInv, Registered, Live, Trapped
<1>6. cleanup(tasks, pstate, kst, traced)
  BY DEF Throw
<1>. QED
  BY <1>1, <1>2, <1>4, <1>5, <1>6, CleanupStep DEF AttachInv

\* The awaited thread, and the first of a list, are threads.
LEMMA FirstTodo ==
  ASSUME TypeOK, todo # {}
  PROVE  FirstOf(todo) \in todo /\ FirstOf(todo) \in Tid
<1>1. todo \in SUBSET Nat /\ todo \subseteq Tid
  BY TidAssumption DEF TypeOK
<1>2. \E x \in todo : \A y \in todo : <<y, x>> \notin OpToRel(<, Nat)
  BY <1>1, NatLessThanWellFounded, WFMin, Zenon
<1>3. \A x, y \in Nat : <<y, x>> \notin OpToRel(<, Nat) => x <= y
  BY SMT DEF OpToRel
<1>. QED BY <1>1, <1>2, <1>3, Zenon DEF FirstOf

\* What the target does keeps the invariant.
LEMMA TargetStep ==
  ASSUME AttachInv, Target
  PROVE  AttachInv'
<1>. USE DEF AttachInv
<1>1. ASSUME NEW t \in Tid, NEW u \in Tid, Clone(t, u)
      PROVE  AttachInv'
  <2>1. \A x \in Tid : kst'[x] = IF x = u THEN "running" ELSE kst[x]
    BY <1>1 DEF Clone, TypeOK
  <2>2. UNCHANGED <<traced, stopq, tasks, cur, pstate, pass, todo, pc>>
    BY <1>1 DEF Clone, process
  <2>3. kst[t] = "running" /\ kst[u] = "absent" /\ pc \notin Ended
    BY <1>1 DEF Clone
  <2>4. TypeOK'
    BY <1>1, <2>2 DEF Clone, TypeOK, KernelState
  <2>5. u \notin traced /\ tasks[u] # "Stopped"
    BY <2>3 DEF Registered
  <2>6. Registered'
    BY <2>1, <2>2, <2>3, <2>5 DEF Registered, Live, Trapped, TypeOK
  <2>7. pc \notin {"options", "attached"}
    BY <2>3 DEF Swept, Registered, Ended
  <2>8. Swept'
    BY <2>2, <2>3, <2>7 DEF Swept, Ended
  <2>. QED
    BY <2>2, <2>4, <2>6, <2>8
<1>2. ASSUME NEW t \in Tid, Exit(t) \/ Stop(t) \/ SignalStop(t)
      PROVE  AttachInv'
  <2>1. /\ kst[t] = "running" /\ pc \notin Ended
        /\ UNCHANGED <<traced, tasks, cur, pstate, pass, todo, pc>>
        /\ stopq' \subseteq stopq
    BY <1>2 DEF Exit, Stop, SignalStop, process
  <2>2. /\ \A x \in Tid : x # t => kst'[x] = kst[x]
        /\ kst'[t] \in {"zombie", "absent", "SIGSTOP", "signal"}
        /\ kst'[t] = "absent" => t \notin traced
        /\ kst'[t] \in {"SIGSTOP", "signal"} => t \in traced
    BY <1>2 DEF Exit, Stop, SignalStop, TypeOK, Registered
  <2>3. kst' \in [Tid -> KernelState]
    BY <1>2 DEF Exit, Stop, SignalStop, TypeOK, KernelState
  <2>4. TypeOK'
    BY <2>1, <2>3 DEF TypeOK
  <2>5. tasks[t] # "Stopped"
    BY <2>1 DEF Registered
  <2>6. t \in traced => tasks[t] # "none"
    BY <2>1 DEF Registered, Live
  <2>7. Registered'
    <3>1. \A x \in traced : kst'[x] # "absent" /\ (Live(x)' => tasks[x] # "none")
      BY <2>1, <2>2, <2>6 DEF Registered, Live, Trapped, TypeOK
    <3>2. \A x \in Tid : Trapped(x)' => x \in traced
      BY <2>1, <2>2 DEF Registered, Trapped
    <3>3. \A x \in Tid : tasks[x] = "Stopped" => kst'[x] \in {"SIGSTOP", "zombie"}
      BY <2>2, <2>5 DEF Registered
    <3>. QED
      BY <2>1, <3>1, <3>2, <3>3 DEF Registered
  <2>8. pc \notin {"options", "attached"}
    BY <2>1, <2>5 DEF Swept, Ended
  <2>9. Swept'
    BY <2>1, <2>8 DEF Swept, Ended
  <2>. QED
    BY <2>1, <2>4, <2>7, <2>9
<1>3. CASE ExitGroup
  <2>1. /\ pc \notin Ended /\ stopq' = {}
        /\ UNCHANGED <<traced, tasks, cur, pstate, pass, todo, pc>>
    BY <1>3 DEF ExitGroup, process
  <2>2. \A x \in Tid : /\ kst'[x] \in {"zombie", "absent"}
                       /\ x \in traced => kst'[x] = "zombie"
                       /\ kst'[x] # "absent" => kst[x] # "absent"
    BY <1>3 DEF ExitGroup, Registered
  <2>3. kst' \in [Tid -> KernelState]
    BY <1>3 DEF ExitGroup, KernelState
  <2>4. TypeOK'
    BY <2>1, <2>3 DEF TypeOK
  <2>5. Registered'
    BY <2>1, <2>2 DEF Registered, Live, Trapped, TypeOK
  <2>6. Swept'
    BY <2>1, <2>2 DEF Swept, Ended
  <2>. QED
    BY <2>1, <2>4, <2>5, <2>6
<1>. QED
  BY <1>1, <1>2, <1>3 DEF Target

-----------------------------------------------------------------------------
\* The steps of the sweep that neither wait nor throw touch the target only
\* by PTRACE_ATTACH.
LEMMA SweepStep ==
  ASSUME AttachInv, Scan \/ SkipThread \/ AttachThread \/ RefuseThread \/ EndPass
  PROVE  AttachInv'
<1>. USE DEF AttachInv
<1>1. CASE Scan
  <2>1. CASE Throw
    BY <1>1, <2>1, ThrowStep DEF Scan
  <2>2. CASE ~Throw
    <3>1. /\ pc = "scan" /\ pc' = "attach" /\ pass < MaxPasses
          /\ todo' = thread_ids
          /\ UNCHANGED <<kst, traced, stopq, tasks, cur, pstate, pass>>
      BY <1>1, <2>2 DEF Scan, target, process
    <3>2. TypeOK'
      BY <3>1 DEF TypeOK, thread_ids
    <3>3. Registered'
      BY <3>1 DEF Registered, Live, Trapped, Ended
    <3>. QED
      BY <3>1, <3>2, <3>3 DEF Swept
  <2>. QED
    BY <2>1, <2>2
<1>2. CASE SkipThread
  <2>1. /\ pc = "attach" /\ todo' \subseteq todo
        /\ UNCHANGED <<kst, traced, stopq, tasks, cur, pstate, pass, pc>>
    BY <1>2 DEF SkipThread, target, process
  <2>2. TypeOK'
    BY <2>1 DEF TypeOK
  <2>3. Registered'
    BY <2>1 DEF Registered, Live, Trapped
  <2>. QED
    BY <2>1, <2>2, <2>3 DEF Swept
<1>3. CASE AttachThread
  <2>. DEFINE f == FirstOf(todo)
  <2>1. f \in Tid /\ todo # {}
    BY <1>3, FirstTodo DEF AttachThread
  <2>. HIDE DEF f
  <2>2. /\ pc = "attach" /\ pc' = "wait"
        /\ tasks[f] = "none" /\ kst[f] = "running"
        /\ traced' = traced \cup {f} /\ stopq' = stopq \cup {f}
        /\ tasks' = [tasks EXCEPT ![f] = "Running"]
        /\ UNCHANGED <<kst, cur, pstate, pass, todo>>
    BY <1>3 DEF AttachThread, f
  <2>3. \A x \in Tid : tasks'[x] = IF x = f THEN "Running" ELSE tasks[x]
    BY <2>1, <2>2 DEF TypeOK
  <2>4. TypeOK'
    BY <2>1, <2>2 DEF TypeOK, TaskState
  <2>5. f = FirstOf(todo')
    BY <2>2 DEF f
  <2>6. Registered'
    <3>1. \A x \in Tid : tasks'[x] = "Running" => x = f
      BY <2>2, <2>3 DEF Registered
    <3>2. \A x \in Tid : tasks'[x] = "Stopped" =>
            kst'[x] \in {"SIGSTOP", "zombie"} /\ x \in traced' /\ pstate' = "Stopped"
      BY <2>2, <2>3 DEF Registered
    <3>3. \A x \in traced' : kst'[x] # "absent" /\ (Live(x)' => tasks'[x] # "none")
      BY <2>1, <2>2, <2>3 DEF Registered, Live, Trapped, TypeOK
    <3>4. \A x \in Tid : Trapped(x)' => x \in traced'
      BY <2>2 DEF Registered, Trapped
    <3>5. stopq' \subseteq traced'
      BY <2>2 DEF Registered, Ended
    <3>. QED
      BY <2>2, <2>5, <3>1, <3>2, <3>3, <3>4, <3>5 DEF Registered
  <2>7. Swept'
    BY <2>1, <2>2, <2>3, <2>5 DEF Swept
  <2>. QED
    BY <2>2, <2>4, <2>6, <2>7
<1>4. CASE RefuseThread
  BY <1>4, ThrowStep DEF RefuseThread
<1>5. CASE EndPass
  <2>1. /\ pc = "attach" /\ pc' = "rescan"
        /\ UNCHANGED <<kst, traced, stopq, tasks, cur, pstate, pass, todo>>
    BY <1>5 DEF EndPass, target, process
  <2>2. TypeOK'
    BY <2>1 DEF TypeOK
  <2>3. Registered'
    BY <2>1 DEF Registered, Live, Trapped, Ended
  <2>. QED
    BY <2>1, <2>2, <2>3 DEF Swept
<1>. QED
  BY <1>1, <1>2, <1>3, <1>4, <1>5

\* wait_for: the awaited thread stops, or dies, or stops for another signal.
LEMMA WaitStep ==
  ASSUME AttachInv, WaitStop \/ WaitExit
  PROVE  AttachInv'
<1>. USE DEF AttachInv
<1>. DEFINE f == FirstOf(todo)
<1>1. /\ pc = "wait" /\ todo # {} /\ f \in Tid
      /\ tasks[f] = "Running" /\ f \in traced
  BY FirstTodo DEF WaitStop, WaitExit, Swept
<1>2. \A x \in Tid \ {f} : tasks[x] \in {"none", "Stopped"}
  BY DEF Registered, TypeOK, TaskState
<1>. HIDE DEF f
<1>3. \A x \in traced \ {f} : kst[x] # "absent" /\ kst[x] # "running"
  BY <1>2 DEF Registered, Live, TypeOK
<1>4. \A x \in Tid \ {f} :
        kst[x] \in {"SIGSTOP", "signal"} => x \in traced /\ tasks[x] = "Stopped"
  BY <1>2 DEF Registered, Live, Trapped, TypeOK
<1>5. CASE WaitStop
  <2>. DEFINE ts == [tasks EXCEPT ![f] = "Stopped"]
  <2>1. /\ ts \in [Tid -> TaskState]
        /\ \A x \in Tid : ts[x] = IF x = f THEN "Stopped" ELSE tasks[x]
    BY <1>1 DEF TypeOK, TaskState
  <2>2. \/ /\ kst[f] = "SIGSTOP" /\ tasks' = ts /\ cur' = f /\ pstate' = "Stopped"
           /\ pc' = "option" /\ UNCHANGED <<kst, traced, stopq, pass, todo>>
        \/ kst[f] = "signal" /\ cleanup(ts, "Stopped", kst, traced)
    BY <1>5 DEF WaitStop, f, target
  <2>. HIDE DEF ts
  <2>3. CASE kst[f] = "signal" /\ cleanup(ts, "Stopped", kst, traced)
    <3>1. \A x \in traced : kst[x] # "absent" /\ kst[x] # "running"
      BY <1>3, <2>3
    <3>2. \A x \in Tid : kst[x] \in {"SIGSTOP", "signal"} =>
            x \in traced /\ ts[x] = "Stopped"
      BY <1>1, <1>4, <2>1
    <3>3. kst \in [Tid -> KernelState] /\ traced \in SUBSET Tid
      BY DEF TypeOK
    <3>4. "Stopped" \in ProcessState \cup {"Detached"}
      BY DEF ProcessState
    <3>. QED
      BY <2>1, <2>3, <3>1, <3>2, <3>3, <3>4, CleanupStep
  <2>4. CASE /\ kst[f] = "SIGSTOP" /\ tasks' = ts /\ cur' = f /\ pstate' = "Stopped"
             /\ pc' = "option" /\ UNCHANGED <<kst, traced, stopq, pass, todo>>
    <3>1. TypeOK'
      BY <1>1, <2>1, <2>4 DEF TypeOK, ProcessState
    <3>2. Registered'
      BY <1>1, <1>2, <2>1, <2>4 DEF Registered, Live, Trapped, TypeOK, Ended
    <3>. QED
      BY <1>1, <2>4, <3>1, <3>2 DEF Swept
  <2>. QED
    BY <2>2, <2>3, <2>4
<1>6. CASE WaitExit
  <2>. DEFINE ts == [tasks EXCEPT ![f] = "none"]
              K == [kst EXCEPT ![f] = "absent"]
  <2>1. PICK how \in {"Exited", "Signaled"} :
          cleanup(ts, IF tids(ts) = {} THEN how ELSE update_aggregate_state(ts),
                  K, traced \ {f})
    BY <1>6 DEF WaitExit, f
  <2>. DEFINE ps == IF tids(ts) = {} THEN how ELSE update_aggregate_state(ts)
  <2>2. /\ ts \in [Tid -> TaskState] /\ K \in [Tid -> KernelState]
        /\ traced \ {f} \in SUBSET Tid
    BY <1>1 DEF TypeOK, TaskState, KernelState
  <2>3. \A x \in Tid : /\ ts[x] = IF x = f THEN "none" ELSE tasks[x]
                       /\ K[x] = IF x = f THEN "absent" ELSE kst[x]
    BY <1>1 DEF TypeOK
  <2>. HIDE DEF ts, K
  <2>4. /\ ps \in ProcessState \cup {"Detached"}
        /\ \A x \in Tid : ts[x] = "Stopped" => ps = "Stopped"
    BY DEF ProcessState, tids, StoppedTids, update_aggregate_state
  <2>5. cleanup(ts, ps, K, traced \ {f})
    BY <2>1
  <2>. HIDE DEF ps
  <2>6. \A x \in traced \ {f} : K[x] # "absent" /\ K[x] # "running"
    BY <1>3, <2>3 DEF TypeOK
  <2>7. \A x \in Tid : K[x] \in {"SIGSTOP", "signal"} =>
          x \in traced \ {f} /\ ts[x] = "Stopped"
    BY <1>4, <2>3
  <2>. QED
    BY <2>2, <2>4, <2>5, <2>6, <2>7, CleanupStep
<1>. QED
  BY <1>5, <1>6

\* set_options and the second listing.
LEMMA FinishStep ==
  ASSUME AttachInv, SetOption \/ Rescan \/ SetAllOptions
  PROVE  AttachInv'
<1>. USE DEF AttachInv
<1>1. CASE Throw
  <2>1. pc # "wait"
    BY DEF SetOption, Rescan, SetAllOptions
  <2>. QED
    BY <1>1, <2>1, ThrowStep
<1>2. CASE SetOption /\ ~Throw
  <2>1. /\ pc = "option" /\ pc' = "attach" /\ todo' \subseteq todo
        /\ UNCHANGED <<kst, traced, stopq, tasks, cur, pstate, pass>>
    BY <1>2 DEF SetOption, target, process
  <2>2. TypeOK'
    BY <2>1 DEF TypeOK
  <2>3. Registered'
    BY <2>1 DEF Registered, Live, Trapped, Ended
  <2>. QED
    BY <2>1, <2>2, <2>3 DEF Swept
<1>3. CASE Rescan /\ ~Throw
  <2>1. /\ pc = "rescan"
        /\ \/ /\ pass' = pass + 1 /\ pc' = "scan"
              /\ UNCHANGED <<cur, pstate>>
           \/ /\ complete /\ tasks[Leader] # "none"
              /\ cur' = Leader /\ pstate' = "Stopped" /\ pc' = "options" /\ pass' = pass
        /\ UNCHANGED <<kst, traced, stopq, tasks, todo>>
    BY <1>3 DEF Rescan, target, process
  <2>2. \A t \in Tid : tasks[t] \in {"none", "Stopped"}
    BY <2>1 DEF Registered, TypeOK, TaskState
  <2>3. TypeOK'
    BY <2>1, TidAssumption, AttachAssumption DEF TypeOK, ProcessState
  <2>4. Registered'
    BY <2>1 DEF Registered, Live, Trapped, Ended
  <2>5. complete => \A t \in Tid : kst[t] # "absent" => tasks[t] = "Stopped"
    BY <2>2 DEF complete, thread_ids, tids
  <2>6. Swept'
    BY <2>1, <2>2, <2>5, TidAssumption DEF Swept
  <2>. QED
    BY <2>1, <2>3, <2>4, <2>6
<1>4. CASE SetAllOptions /\ ~Throw
  <2>1. /\ pc = "options" /\ pc' = "attached"
        /\ \A t \in tids(tasks) : Trapped(t)
        /\ UNCHANGED <<kst, traced, stopq, tasks, cur, pstate, pass, todo>>
    BY <1>4 DEF SetAllOptions, target, process
  <2>2. TypeOK'
    BY <2>1 DEF TypeOK, Ended
  <2>3. Registered'
    BY <2>1 DEF Registered, Live, Trapped, Ended
  <2>4. \A t \in Tid : tasks[t] = "Stopped" => kst[t] = "SIGSTOP"
    BY <2>1 DEF Registered, Trapped, tids
  <2>5. Swept'
    BY <2>1, <2>4 DEF Swept
  <2>. QED
    BY <2>1, <2>2, <2>3, <2>5
<1>. QED
  BY <1>1, <1>2, <1>3, <1>4

\* AttachInv is an invariant.
LEMMA AttachInvariant == Spec => []AttachInv
<1>1. Init => AttachInv
  <2>. SUFFICES ASSUME Init PROVE AttachInv
    OBVIOUS
  <2>1. kst \in [Tid -> {"running", "absent"}]
    BY DEF Init
  <2>2. TypeOK
    BY <2>1, AttachAssumption
    DEF Init, TypeOK, KernelState, TaskState, ProcessState, NoTid, Ended
  <2>3. Registered
    BY <2>1 DEF Init, Registered, Trapped, Live
  <2>4. Swept
    BY DEF Init, Swept
  <2>. QED
    BY <2>2, <2>3, <2>4 DEF AttachInv, Init
<1>2. AttachInv /\ [Next]_vars => AttachInv'
  <2>. SUFFICES ASSUME AttachInv, [Next]_vars PROVE AttachInv'
    OBVIOUS
  <2>1. CASE Attacher
    BY <2>1, SweepStep, WaitStep, FinishStep DEF Attacher
  <2>2. CASE Target
    BY <2>2, TargetStep
  <2>3. CASE UNCHANGED vars
    <3>1. UNCHANGED <<kst, traced, stopq, tasks, cur, pstate, pass, todo, pc>>
      BY <2>3 DEF vars, target, process
    <3>. QED
      BY <3>1 DEF AttachInv, TypeOK, Registered, Swept, Live, Trapped
  <2>. QED
    BY <2>1, <2>2, <2>3 DEF Next
<1>. QED
  BY <1>1, <1>2, PTL DEF Spec

\* A successful attach has every thread of the process, registered and stopped
\* (Process::attach), whatever the target did during the sweeps.
THEOREM AttachHasEveryThread == Spec => []AttachComplete
<1>1. AttachInv => AttachComplete
  <2>. SUFFICES ASSUME AttachInv, pc = "attached" PROVE AttachComplete
    BY DEF AttachComplete
  <2>1. \A t \in Tid : tasks[t] \in {"none", "Stopped"}
    BY DEF AttachInv, TypeOK, Registered, TaskState
  <2>2. \A t \in Tid : tasks[t] = "Stopped" => kst[t] = "SIGSTOP" /\ t \in traced
    BY DEF AttachInv, Registered, Swept
  <2>3. /\ \A t \in Tid : kst[t] # "absent" => tasks[t] = "Stopped"
        /\ cur = Leader /\ pstate = "Stopped" /\ tasks[Leader] = "Stopped"
    BY DEF AttachInv, Swept
  <2>. QED
    BY <2>1, <2>2, <2>3, TidAssumption DEF AttachComplete, tids
<1>. QED
  BY <1>1, AttachInvariant, PTL

\* A failed attach keeps no living thread (Process::cleanup), wherever it threw.
THEOREM FailedAttachLetsGo == Spec => []FailedAttachReleases
<1>1. AttachInv => FailedAttachReleases
  BY DEF AttachInv, TypeOK, Registered, Swept, FailedAttachReleases, Live
<1>. QED
  BY <1>1, AttachInvariant, PTL
=============================================================================
