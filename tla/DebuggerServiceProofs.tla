------------------------ MODULE DebuggerServiceProofs -----------------------
(***************************************************************************)
(* What the registry says of the threads, and that Debugger implements     *)
(* BreakpointService, for every set of threads, code size and image.       *)
(*                                                                         *)
(* The registry follows the threads because nearly every one is stopped:   *)
(* one moves at a time, its report is the only one, and it is collected by *)
(* the debugger that waits for it.  A new thread moves while its creator   *)
(* is held, an exec and a common death are the cases with several reports. *)
(*                                                                         *)
(* For the refinement one has to know which traps are the debugger's own   *)
(* INT3s (exactly the ones of threads that are owed a rewind), where the   *)
(* thread of a displaced step stands, and that a thread runs no            *)
(* instruction before its creation is reported.                            *)
(***************************************************************************)
EXTENDS DebuggerProofs, DebuggerService

\* Most leaves are first-order; the others name their prover.
USE Zenon

-----------------------------------------------------------------------------
(* The registry.                                                           *)

NoExec == \A t \in Tid : kst[t] # "exec" /\ kev[t].kind # "exec"

\* Outside of exec, while threads live, the registry has none as stopped that
\* is not in a ptrace stop.
StoppedStops ==
  NoExec /\ Live # {} => \A t \in Tid : tasks[t] = "Stopped" => kst[t] = "stop"

\* Whoever gets control back, the user or the exception's handler, finds a
\* current thread that the registry has as stopped.
PromptReady ==
  /\ call \in {"idle", "threw"} /\ Live # {} =>
       pstate = "Stopped" /\ cur \in Tid /\ tasks[cur] = "Stopped"
  /\ Idle => cur \in Tid /\ tasks[cur] = "Stopped"

\* An unregistered thread's death is reported only when all threads are dead.
DeathsKnown ==
  Traced => \A t \in Tid : kev[t].kind \in {"exit", "killed"} /\ tasks[t] = "none" => Live = {}

\* A new thread waits for its creator's clone event to be collected.
CloneFirst == \A t \in Tid : kev[t].kind = "clone" => kst[kev[t].val] = "born"

\* A thread the registry has as running moves, has a wait status to collect,
\* or is the leader, dead.
RunningMoves ==
  ImageCurrent => \A t \in Tid : tasks[t] = "Running" =>
    Moving(t) \/ kev[t].kind # "none" \/ (t = Leader /\ kst[t] = "dead")

\* Where a dead leader without a report leaves the other threads.
DeadLeader ==
  kst[Leader] = "dead" /\ kev[Leader].kind = "none" =>
    \/ Waiting /\ Present = {Leader}
    \/ /\ "leader_exit" \in Races /\ Waiting
       /\ \A t \in Tid : kev[t].kind = "none" /\ ~Moving(t)
    \/ "group_exit" \in Races /\ Live = {}

\* The death of any other thread is reported at once.
DeadReported ==
  \A t \in Tid : t # Leader /\ kst[t] = "dead" => kev[t].kind \in {"exit", "killed"}

\* Unless threads die together there is one report at a time, for a debugger
\* that waits.
OneReport ==
  "group_exit" \notin Races =>
    \A u \in Tid : kev[u].kind \notin {"none", "clone"} =>
      Waiting /\ \A x \in Tid : x # u => kev[x].kind \in {"none", "clone"}

\* waitpid is entered and re-entered with a running thread in the registry.
WaitingRuns == Waiting /\ ImageCurrent => \E t \in Tid : tasks[t] = "Running"

Release == StoppedStops /\ PromptReady /\ DeathsKnown

Births ==
  CloneFirst /\ RunningMoves /\ DeadLeader /\ DeadReported /\ OneReport /\ WaitingRuns

RegistryInv == Release /\ ("child_first" \notin Races => Births)

\* A thread that runs or is being born: the debugger waits, and nothing else
\* moves.
LEMMA MoverFacts ==
  ASSUME TypeOK, ControlInv, NEW t \in Tid, kst[t] \in {"born", "run", "step"}
  PROVE  /\ Waiting /\ Traced /\ t \in Live /\ NoExec /\ ImageCurrent
         /\ \A x \in Tid : kev[x].kind \in {"none", "clone"}
         /\ \A x \in Tid : Moving(x) => x = t
<1>1. Waiting /\ \A x \in Tid : Moving(x) => x = t
  BY DEF ControlInv, OneMover, Moving
<1>2. \A x \in Tid : kev[x].kind \in {"none", "clone"}
  BY DEF ControlInv, QuietMove
<1>. QED
  BY <1>1, <1>2 DEF Waiting, Traced, Live, NoExec, ImageCurrent, Moving

\* The leader has not died silently before it, and while it runs no creator's
\* clone event is left.
LEMMA MoverBirths ==
  ASSUME TypeOK, ControlInv, Births, NEW t \in Tid, kst[t] \in {"born", "run", "step"}
  PROVE  /\ kst[Leader] # "dead"
         /\ kst[t] # "born" => \A x \in Tid : kev[x].kind = "none"
<1>0. Leader \in Tid
  BY TidAssumption
<1>1. /\ \A x \in Tid : kev[x].kind \in {"none", "clone"}
      /\ \A x \in Tid : Moving(x) => x = t
      /\ t \in Live /\ Moving(t)
  BY MoverFacts DEF Moving
<1>2. kst[Leader] # "dead"
  <2>. SUFFICES ASSUME kst[Leader] = "dead" PROVE FALSE
    OBVIOUS
  <2>1. kev[Leader].kind = "none"
    BY <1>0, <1>1 DEF ControlInv, EventsOfStopped
  <2>2. t # Leader /\ t \in Present /\ Live # {}
    BY <1>1 DEF Live, Present
  <2>. QED
    BY <1>1, <2>1, <2>2 DEF Births, DeadLeader
<1>3. ASSUME NEW x \in Tid, kev[x].kind = "clone", kst[t] # "born" PROVE FALSE
  <2>1. kev[x].val \in Tid /\ kst[kev[x].val] = "born"
    BY <1>3 DEF TypeOK, Births, CloneFirst
  <2>. QED
    BY <1>1, <1>3, <2>1 DEF Moving
<1>. QED
  BY <1>1, <1>2, <1>3

\* A session starts with every thread stopped and registered.
LEMMA RegistryInit == Init => RegistryInv
<1>. SUFFICES ASSUME Init PROVE RegistryInv
  OBVIOUS
<1>1. /\ \A t \in Tid : kst[t] \in {"stop", "none"} /\ kev[t].kind = "none"
      /\ \A t \in Tid : kst[t] = "stop" <=> tasks[t] = "Stopped"
      /\ \A t \in Tid : tasks[t] \in {"Stopped", "none"}
      /\ Leader \in Tid /\ cur = Leader /\ kst[Leader] = "stop" /\ pstate = "Stopped" /\ call = "idle"
  BY TidAssumption DEF Init, NoEvent
<1>2. Release
  BY <1>1 DEF Release, StoppedStops, PromptReady, DeathsKnown
<1>3. Births
  BY <1>1 DEF Births, CloneFirst, RunningMoves, DeadLeader, DeadReported, OneReport, WaitingRuns, Waiting
<1>. QED
  BY <1>2, <1>3 DEF RegistryInv

\* The kernel's steps: the registry does not change, and a thread that stops
\* or dies leaves a report.
LEMMA RegistryKernel ==
  ASSUME TypeOK, ControlInv, OwnerInv, RegistryInv, Kernel, "late_exec" \notin Races
  PROVE  RegistryInv'
<1>0. Leader \in Tid /\ Traced
  BY TidAssumption DEF Kernel, Execute, TakeSignal, Clone, Start, Die, DieTogether, ReportLeader,
    BeginExec, FinishExec
<1>1. UNCHANGED <<call, tasks, cur, pstate>>
  BY DEF Kernel, Execute, TakeSignal, Clone, Start, Die, DieTogether, ReportLeader, BeginExec,
    FinishExec, processVars
<1>2. Waiting' = Waiting /\ Traced' = Traced /\ Idle' = Idle
  BY <1>1 DEF Waiting, Traced, Idle
<1>3. ASSUME Waiting \/ kst' = kst PROVE PromptReady'
  BY <1>1, <1>2, <1>3 DEF RegistryInv, Release, PromptReady, Waiting, Idle, Live
\* A thread that stops with a report: an instruction, a signal, a start.
<1>4. ASSUME NEW t \in Tid, NEW k \in {"trap", "sig"}, kst[t] \in {"born", "run", "step"},
             kst[t] = "born" /\ "child_first" \notin Races => \A x \in Tid : kev[x].kind = "none",
             \A x \in Tid : kst'[x] = IF x = t THEN "stop" ELSE kst[x],
             \A x \in Tid : x # t => kev'[x] = kev[x],
             kev'[t].kind = k
      PROVE  RegistryInv'
  <2>1. /\ Waiting /\ Traced /\ t \in Live /\ NoExec /\ ImageCurrent
        /\ \A x \in Tid : kev[x].kind \in {"none", "clone"}
        /\ \A x \in Tid : Moving(x) => x = t
    BY <1>4, MoverFacts
  <2>2. StoppedStops'
    <3>1. Live # {}
      BY <2>1
    <3>. QED
      BY <1>1, <1>4, <2>1, <3>1 DEF RegistryInv, Release, StoppedStops
  <2>3. DeathsKnown'
    BY <1>4, <2>1 DEF DeathsKnown
  <2>4. ASSUME "child_first" \notin Races PROVE Births'
    <3>1. Births /\ kst[Leader] # "dead" /\ \A x \in Tid : kev[x].kind = "none"
      BY <1>4, <2>4, MoverBirths DEF RegistryInv
    <3>2. CloneFirst' /\ DeadLeader' /\ OneReport'
      BY <1>0, <1>2, <1>4, <2>1, <3>1 DEF CloneFirst, DeadLeader, OneReport
    <3>3. RunningMoves'
      BY <1>1, <1>4, <2>1, <3>1 DEF Births, RunningMoves, Moving
    <3>4. DeadReported'
      BY <1>4, <3>1 DEF Births, DeadReported
    <3>5. WaitingRuns'
      BY <1>1, <1>2, <2>1, <3>1 DEF Births, WaitingRuns
    <3>. QED
      BY <3>2, <3>3, <3>4, <3>5 DEF Births
  <2>. QED
    BY <1>3, <2>1, <2>2, <2>3, <2>4 DEF RegistryInv, Release
<1>5. ASSUME kst' = kst, kev' = kev PROVE RegistryInv'
  <2>1. Release'
    BY <1>1, <1>2, <1>5 DEF RegistryInv, Release, StoppedStops, PromptReady, DeathsKnown, NoExec, Live
  <2>2. Births => Births'
    BY <1>1, <1>2, <1>5 DEF Births, CloneFirst, RunningMoves, DeadLeader, DeadReported, OneReport,
      WaitingRuns, ImageCurrent, Live, Present, Moving
  <2>. QED
    BY <2>1, <2>2 DEF RegistryInv
<1>6. ASSUME NEW t \in Tid, Execute(t) PROVE RegistryInv'
  <2>1. \/ kst' = kst /\ kev' = kev
        \/ /\ \A x \in Tid : kst'[x] = IF x = t THEN "stop" ELSE kst[x]
           /\ \A x \in Tid : x # t => kev'[x] = kev[x]
           /\ kev'[t].kind = "trap"
    BY <1>6, SMT DEF Execute, TypeOK, Event
  <2>2. kst[t] \in {"run", "step"}
    BY <1>6 DEF Execute, Active
  <2>. QED
    BY <1>4, <1>5, <2>1, <2>2
<1>7. ASSUME NEW t \in Tid, TakeSignal(t) PROVE RegistryInv'
  <2>1. /\ \A x \in Tid : kst'[x] = IF x = t THEN "stop" ELSE kst[x]
        /\ \A x \in Tid : x # t => kev'[x] = kev[x]
        /\ kev'[t].kind = "sig"
    BY <1>7, SMT DEF TakeSignal, TypeOK, Event
  <2>2. kst[t] \in {"run", "step"}
    BY <1>7 DEF TakeSignal, Active
  <2>. QED
    BY <1>4, <2>1, <2>2
<1>8. ASSUME NEW t \in Tid, Start(t) PROVE RegistryInv'
  <2>1. /\ \A x \in Tid : kst'[x] = IF x = t THEN "stop" ELSE kst[x]
        /\ \A x \in Tid : x # t => kev'[x] = kev[x]
        /\ kev'[t].kind = "sig"
    BY <1>8 DEF Start, TypeOK, Event
  <2>2. kst[t] = "born"
    BY <1>8 DEF Start
  <2>3. ASSUME "child_first" \notin Races, NEW x \in Tid PROVE kev[x].kind = "none"
    <3>1. kev[x] # Event("clone", t)
      BY <1>8, <2>3 DEF Start
    <3>2. kev[x] \in WaitStatus
      BY DEF TypeOK
    <3>3. kev[x].kind # "clone" \/ kev[x].val # t
      BY <3>1, <3>2 DEF WaitStatus, Event
    <3>4. kev[x].kind = "clone" => kst[kev[x].val] = "born" /\ kev[x].val \in Tid
      BY <2>3 DEF RegistryInv, Births, CloneFirst, TypeOK
    <3>5. kev[x].kind \in {"none", "clone"} /\ \A y \in Tid : Moving(y) => y = t
      BY <2>2, MoverFacts
    <3>. QED
      BY <3>3, <3>4, <3>5 DEF Moving
  <2>. QED
    BY <1>4, <2>1, <2>2, <2>3
<1>9. ASSUME NEW t \in Tid, NEW u \in Tid, Clone(t, u) PROVE RegistryInv'
  <2>1. kst[t] \in {"run", "step"} /\ kst[u] = "none" /\ u # t
    BY <1>9 DEF Clone, Active
  <2>2. /\ \A x \in Tid : kst'[x] = IF x = u THEN "born" ELSE IF x = t THEN "stop" ELSE kst[x]
        /\ \A x \in Tid : x # t => kev'[x] = kev[x]
        /\ kev'[t].kind = "clone" /\ kev'[t].val = u
    BY <1>9, <2>1 DEF Clone, TypeOK, Event
  <2>3. /\ Waiting /\ Traced /\ t \in Live /\ NoExec /\ ImageCurrent
        /\ \A x \in Tid : kev[x].kind \in {"none", "clone"}
        /\ \A x \in Tid : Moving(x) => x = t
    BY <2>1, MoverFacts
  <2>4. tasks[u] # "Stopped" /\ tasks[t] = "Running"
    BY <2>1, <2>3 DEF ControlInv, RegistryExists, NoExec, EventsOfStopped
  <2>5. StoppedStops'
    <3>1. Live # {}
      BY <2>3
    <3>. QED
      BY <1>1, <2>2, <2>3, <2>4, <3>1 DEF RegistryInv, Release, StoppedStops
  <2>6. DeathsKnown'
    BY <2>2, <2>3 DEF DeathsKnown
  <2>7. ASSUME "child_first" \notin Races PROVE Births'
    <3>1. Births /\ kst[Leader] # "dead" /\ \A x \in Tid : kev[x].kind = "none"
      BY <2>1, <2>7, MoverBirths DEF RegistryInv
    <3>2. CloneFirst' /\ DeadLeader' /\ OneReport'
      BY <1>0, <2>1, <2>2, <3>1, SMT DEF CloneFirst, DeadLeader, OneReport
    <3>3. RunningMoves'
      BY <1>1, <2>2, <2>3, <3>1 DEF Births, RunningMoves, Moving
    <3>4. DeadReported'
      BY <2>2, <3>1 DEF Births, DeadReported
    <3>5. WaitingRuns'
      BY <1>1, <1>2, <2>3, <3>1 DEF Births, WaitingRuns
    <3>. QED
      BY <3>2, <3>3, <3>4, <3>5 DEF Births
  <2>. QED
    BY <1>3, <2>3, <2>5, <2>6, <2>7 DEF RegistryInv, Release
<1>10. ASSUME NEW t \in Tid, Die(t) PROVE RegistryInv'
  <2>1. PICK k \in {"exit", "killed"} :
          kev' = IF t = Leader THEN kev ELSE [kev EXCEPT ![t] = Event(k, 0)]
    BY <1>10 DEF Die
  <2>2. /\ \A x \in Tid : kst'[x] = IF x = t THEN "dead" ELSE kst[x]
        /\ \A x \in Tid : x # t \/ t = Leader => kev'[x] = kev[x]
        /\ t # Leader => kev'[t].kind = k
    BY <1>10, <2>1 DEF Die, TypeOK, Event
  <2>3. kst[t] \in {"run", "step"} /\ (t = Leader => Present = {t} \/ "leader_exit" \in Races)
    BY <1>10 DEF Die, Active
  <2>4. /\ Waiting /\ Traced /\ t \in Live /\ NoExec /\ ImageCurrent
        /\ \A x \in Tid : kev[x].kind \in {"none", "clone"}
        /\ \A x \in Tid : Moving(x) => x = t
    BY <2>3, MoverFacts
  <2>5. tasks[t] = "Running"
    BY <2>3 DEF ControlInv, EventsOfStopped
  <2>6. StoppedStops'
    <3>1. Live # {}
      BY <2>4
    <3>. QED
      BY <1>1, <2>2, <2>4, <2>5, <3>1 DEF RegistryInv, Release, StoppedStops
  <2>7. DeathsKnown'
    BY <1>1, <2>2, <2>4, <2>5 DEF DeathsKnown
  <2>8. ASSUME "child_first" \notin Races PROVE Births'
    <3>1. Births /\ kst[Leader] # "dead" /\ \A x \in Tid : kev[x].kind = "none"
      BY <2>3, <2>8, MoverBirths DEF RegistryInv
    <3>2. CloneFirst' /\ OneReport'
      BY <1>2, <2>2, <2>4, <3>1 DEF CloneFirst, OneReport
    <3>3. RunningMoves'
      BY <1>1, <2>2, <2>4, <3>1 DEF Births, RunningMoves, Moving
    <3>4. DeadReported'
      BY <2>2, <3>1 DEF Births, DeadReported
    <3>5. WaitingRuns'
      BY <1>1, <1>2, <2>4, <3>1 DEF Births, WaitingRuns
    <3>6. DeadLeader'
      <4>1. CASE t # Leader
        BY <1>0, <2>2, <3>1, <4>1 DEF DeadLeader
      <4>2. CASE t = Leader
        <5>1. \A x \in Tid : kev'[x].kind = "none" /\ ~Moving(x)'
          BY <2>2, <2>4, <3>1, <4>2 DEF Moving
        <5>2. Present' = Present
          BY <2>2, <2>3 DEF Present
        <5>. QED
          BY <1>2, <2>3, <2>4, <4>2, <5>1, <5>2 DEF DeadLeader
      <4>. QED
        BY <4>1, <4>2
    <3>. QED
      BY <3>2, <3>3, <3>4, <3>5, <3>6 DEF Births
  <2>. QED
    BY <1>3, <2>4, <2>6, <2>7, <2>8 DEF RegistryInv, Release
<1>11. ASSUME NEW t \in Tid, DieTogether(t) PROVE RegistryInv'
  <2>1. PICK k \in {"exit", "killed"} :
          kev' = [u \in Tid |-> IF u = Leader THEN NoEvent
                                ELSE IF u \in Live THEN Event(k, 0) ELSE kev[u]]
    BY <1>11 DEF DieTogether
  <2>2. \A x \in Tid : kev'[x].kind = IF x = Leader THEN "none"
                                      ELSE IF x \in Live THEN k ELSE kev[x].kind
    BY <2>1 DEF Event, NoEvent
  <2>3. \A x \in Tid : kst'[x] = IF kst[x] = "none" THEN "none" ELSE "dead"
    BY <1>11 DEF DieTogether
  <2>4. kst[t] \in {"born", "run", "step"} /\ "group_exit" \in Races
    BY <1>11 DEF DieTogether, Active
  <2>5. /\ Waiting /\ Traced /\ ImageCurrent
        /\ \A x \in Tid : kev[x].kind \in {"none", "clone"}
        /\ \A x \in Tid : Moving(x) => x = t
    BY <2>4, MoverFacts
  <2>6. Live' = {}
    BY <2>3 DEF Live
  <2>7. StoppedStops' /\ DeathsKnown'
    BY <2>6 DEF StoppedStops, DeathsKnown
  <2>8. ASSUME "child_first" \notin Races PROVE Births'
    <3>1. Births /\ kst[Leader] # "dead"
      BY <2>4, <2>8, MoverBirths DEF RegistryInv
    <3>2. \A x \in Tid : kev'[x].kind # "clone"
      BY <2>2, <2>5 DEF ControlInv, EventsOfStopped, Live
    <3>3. CloneFirst' /\ OneReport' /\ DeadLeader'
      BY <2>4, <2>6, <3>2 DEF CloneFirst, OneReport, DeadLeader
    <3>4. \A x \in Tid : kst[x] = "dead" => kev[x].kind \in {"exit", "killed"}
      BY <3>1 DEF Births, DeadReported
    <3>5. DeadReported'
      BY <2>2, <2>3, <3>4 DEF DeadReported, Live
    <3>6. ASSUME NEW x \in Tid, tasks[x] = "Running" PROVE kst[x] # "none"
      BY <2>5, <3>1, <3>6, <1>0 DEF Births, RunningMoves, ControlInv, EventsOfStopped, Moving
    <3>7. RunningMoves'
      BY <1>1, <2>2, <2>3, <3>4, <3>6 DEF RunningMoves, Live
    <3>8. WaitingRuns'
      BY <1>1, <1>2, <2>5, <3>1 DEF Births, WaitingRuns
    <3>. QED
      BY <3>3, <3>5, <3>7, <3>8 DEF Births
  <2>. QED
    BY <1>3, <2>5, <2>7, <2>8 DEF RegistryInv, Release
<1>12. ASSUME ReportLeader PROVE RegistryInv'
  <2>1. PICK k \in {"exit", "killed"} : kev' = [kev EXCEPT ![Leader] = Event(k, 0)]
    BY <1>12 DEF ReportLeader
  <2>2. /\ kst' = kst /\ kev'[Leader].kind = k
        /\ \A x \in Tid : x # Leader => kev'[x] = kev[x]
    BY <1>0, <1>12, <2>1 DEF ReportLeader, TypeOK, Event
  <2>3. /\ kst[Leader] = "dead" /\ kev[Leader].kind = "none"
        /\ \A x \in Tid : x # Leader => kst[x] = "none"
    BY <1>12, SMT DEF ReportLeader, Present, NoEvent
  <2>4. Live' = {} /\ \A x \in Tid : x # Leader => kev'[x].kind = "none"
    BY <2>2, <2>3 DEF Live, ControlInv, EventsOfStopped
  <2>5. StoppedStops' /\ DeathsKnown'
    BY <2>4 DEF StoppedStops, DeathsKnown
  <2>6. ASSUME "child_first" \notin Races PROVE Births'
    <3>1. Births
      BY <2>6 DEF RegistryInv
    <3>2. "group_exit" \notin Races => Waiting
      BY <2>3, <3>1 DEF Births, DeadLeader
    <3>3. CloneFirst' /\ DeadLeader' /\ OneReport'
      BY <1>2, <2>2, <2>4, <3>2 DEF CloneFirst, DeadLeader, OneReport
    <3>4. DeadReported'
      BY <2>2, <2>3 DEF DeadReported
    <3>5. ImageCurrent
      <4>1. \A x \in Tid : kst[x] # "stop"
        BY <2>3
      <4>2. EventsOfStopped
        BY DEF ControlInv
      <4>. QED
        BY <4>1, <4>2 DEF ImageCurrent, EventsOfStopped
    <3>6. RunningMoves'
      BY <1>1, <2>2, <3>1, <3>5 DEF Births, RunningMoves, Moving
    <3>7. WaitingRuns'
      BY <1>1, <1>2, <3>1, <3>5 DEF Births, WaitingRuns
    <3>. QED
      BY <3>3, <3>4, <3>6, <3>7 DEF Births
  <2>. QED
    BY <1>3, <2>2, <2>5, <2>6 DEF RegistryInv, Release
<1>13. ASSUME NEW t \in Tid, BeginExec(t) PROVE RegistryInv'
  <2>1. kst[t] \in {"run", "step"} /\ \A u, v \in Present \ {t} : u = v
    BY <1>13 DEF BeginExec, Active
  <2>2. \A x \in Tid : kst'[x] = IF x = t THEN "exec"
                                  ELSE IF kst[x] = "none" \/ x = Leader THEN "none" ELSE "dead"
    BY <1>13 DEF BeginExec
  <2>3. \A x \in Tid : kev'[x].kind = IF x # t /\ x # Leader /\ x \in Live THEN "exit"
                                       ELSE IF x = Leader THEN "none" ELSE kev[x].kind
    BY <1>13 DEF BeginExec, Event, NoEvent
  <2>4. /\ Waiting /\ Traced /\ ImageCurrent
        /\ \A x \in Tid : kev[x].kind \in {"none", "clone"}
        /\ \A x \in Tid : Moving(x) => x = t
    BY <2>1, MoverFacts
  <2>5. StoppedStops'
    BY <2>2 DEF StoppedStops, NoExec
  <2>6. \A x \in Tid : x # t /\ x \in Live => kst[x] = "stop" /\ tasks[x] # "none"
    BY <2>1, <2>4 DEF Live, Moving, TypeOK, ControlInv, Unregistered
  <2>7. DeathsKnown'
    BY <1>1, <2>3, <2>4, <2>6 DEF DeathsKnown
  <2>8. ASSUME "child_first" \notin Races PROVE Births'
    <3>1. Births /\ kst[Leader] # "dead" /\ \A x \in Tid : kev[x].kind = "none"
      BY <2>1, <2>8, MoverBirths DEF RegistryInv
    <3>2. CloneFirst' /\ DeadLeader'
      BY <1>0, <2>2, <2>3, <3>1 DEF CloneFirst, DeadLeader
    <3>3. \A x \in Tid : kst[x] # "dead" \/ x = Leader
      <4>1. DeadReported
        BY <3>1 DEF Births
      <4>. QED
        BY <3>1, <4>1 DEF DeadReported
    <3>4. DeadReported'
      BY <2>2, <2>3, <3>3 DEF DeadReported, Live
    <3>5. \A x \in Tid : tasks[x] = "Running" => x = t
      BY <2>4, <3>1 DEF Births, RunningMoves
    <3>6. RunningMoves' /\ WaitingRuns'
      BY <1>1, <1>2, <2>2, <2>4, <3>1, <3>5 DEF Births, RunningMoves, WaitingRuns, Moving
    <3>7. OneReport'
      BY <1>2, <2>1, <2>3, <2>4, <3>1, SMT DEF OneReport, Present, Live
    <3>. QED
      BY <3>2, <3>4, <3>6, <3>7 DEF Births
  <2>. QED
    BY <1>3, <2>4, <2>5, <2>7, <2>8 DEF RegistryInv, Release
<1>14. ASSUME NEW t \in Tid, FinishExec(t) PROVE RegistryInv'
  <2>1. kst[t] = "exec" /\ Waiting
    BY <1>14 DEF FinishExec, ControlInv, OneMover, Moving
  <2>2. /\ \A x \in Tid : kst'[x] = IF x = Leader THEN "stop" ELSE "none"
        /\ \A x \in Tid : kev'[x].kind = IF x = Leader THEN "exec" ELSE "none"
    BY <1>14 DEF FinishExec, Event, NoEvent
  <2>3. StoppedStops' /\ DeathsKnown'
    BY <1>0, <2>2 DEF StoppedStops, DeathsKnown, NoExec
  <2>4. Births'
    BY <1>0, <1>2, <2>1, <2>2 DEF Births, CloneFirst, RunningMoves, DeadLeader, DeadReported, OneReport,
      WaitingRuns, ImageCurrent
  <2>. QED
    BY <1>3, <2>1, <2>3, <2>4 DEF RegistryInv, Release
<1>. QED
  BY <1>6, <1>7, <1>8, <1>9, <1>10, <1>11, <1>12, <1>13, <1>14 DEF Kernel

\* The user's commands: nothing moves and no report is left but clone events,
\* or the threads died together.
LEMMA RegistryUser ==
  ASSUME TypeOK, ControlInv, OwnerInv, RegistryInv, User
  PROVE  RegistryInv'
<1>0. Leader \in Tid
  BY TidAssumption
<1>1. call \in {"idle", "threw"}
  BY DEF User, add_breakpoint, remove_breakpoint, write_memory, select_thread,
    continue_execution, single_step, Resume, step_over_pending_breakpoint, MotionFails, detach,
    destroy, Idle
<1>2. /\ ~Waiting /\ Traced
      /\ \A x \in Tid : ~Moving(x) /\ kev[x].kind # "exec"
  BY <1>1, PromptIsQuiet DEF Waiting, Traced
<1>3. NoExec /\ ImageCurrent
  BY <1>2 DEF NoExec, ImageCurrent, Moving
<1>4. Release
  BY DEF RegistryInv
\* A command that returns or throws.
<1>5. ASSUME UNCHANGED <<kst, kev, tasks, pstate>>, call' \in {call, "threw"},
             cur' = cur \/ (tasks[cur'] = "Stopped" /\ cur' \in Tid),
             call' # call => call = "idle"
      PROVE  RegistryInv'
  <2>1. /\ ~Waiting' /\ Traced' /\ Live' = Live /\ Present' = Present
        /\ \A x \in Tid : Moving(x)' = Moving(x)
        /\ ImageCurrent' = ImageCurrent
    BY <1>1, <1>5 DEF Waiting, Traced, Live, Present, Moving, ImageCurrent
  <2>2. StoppedStops' /\ DeathsKnown'
    BY <1>2, <1>4, <1>5, <2>1 DEF Release, StoppedStops, DeathsKnown, NoExec
  <2>3. PromptReady'
    BY <1>1, <1>4, <1>5, <2>1 DEF Release, PromptReady, Idle
  <2>4. ASSUME Births PROVE Births'
    <3>1. CloneFirst' /\ RunningMoves' /\ DeadReported'
      BY <1>5, <2>1, <2>4 DEF Births, CloneFirst, RunningMoves, DeadReported
    <3>2. DeadLeader' /\ OneReport' /\ WaitingRuns'
      BY <1>2, <1>5, <2>1, <2>4 DEF Births, DeadLeader, OneReport, WaitingRuns
    <3>. QED
      BY <3>1, <3>2 DEF Births
  <2>. QED
    BY <2>2, <2>3, <2>4 DEF RegistryInv, Release
\* A command that resumes the current thread.
<1>6. ASSUME NEW how \in {"run", "step"}, cur \in Tid, kst[cur] = "stop",
             kst' = [kst EXCEPT ![cur] = how], kev' = [kev EXCEPT ![cur] = NoEvent],
             tasks' = [tasks EXCEPT ![cur] = "Running"], Waiting'
      PROVE  RegistryInv'
  <2>1. /\ \A x \in Tid : kst'[x] = IF x = cur THEN how ELSE kst[x]
        /\ \A x \in Tid : x # cur => kev'[x] = kev[x]
        /\ kev'[cur].kind = "none"
        /\ \A x \in Tid : tasks'[x] = IF x = cur THEN "Running" ELSE tasks[x]
    BY <1>6 DEF TypeOK, NoEvent
  <2>2. cur \in Live
    BY <1>6 DEF Live
  <2>3. StoppedStops'
    BY <1>3, <1>4, <1>6, <2>1, <2>2, SMT DEF Release, StoppedStops
  <2>4. \A x \in Tid : kev[x].kind \in {"none", "clone"}
    BY <1>2, <1>6, PromptIsQuiet
  <2>5. DeathsKnown' /\ PromptReady'
    BY <1>6, <2>1, <2>4 DEF DeathsKnown, PromptReady, Waiting, Idle
  <2>6. ASSUME Births PROVE Births'
    <3>1. ASSUME NEW x \in Tid PROVE kev[x].kind = "none"
      <4>1. kev[x].kind = "clone" => Moving(kev[x].val) /\ kev[x].val \in Tid
        BY <2>6 DEF Births, CloneFirst, Moving, TypeOK
      <4>. QED
        BY <1>2, <2>4, <4>1
    <3>2. CloneFirst' /\ OneReport'
      BY <2>1, <3>1 DEF CloneFirst, OneReport
    <3>3. RunningMoves' /\ WaitingRuns'
      BY <1>3, <1>6, <2>1, <2>6, <3>1, SMT DEF Births, RunningMoves, WaitingRuns, Moving
    <3>4. DeadReported'
      BY <2>1, <2>6 DEF Births, DeadReported
    <3>5. kst[Leader] # "dead"
      BY <1>0, <1>2, <2>2, <2>6, <3>1 DEF Births, DeadLeader
    <3>6. DeadLeader'
      BY <1>0, <2>1, <3>5 DEF DeadLeader
    <3>. QED
      BY <3>2, <3>3, <3>4, <3>6 DEF Births
  <2>. QED
    BY <2>3, <2>5, <2>6 DEF RegistryInv, Release
\* The end of the session.
<1>7. ASSUME call' \in {"detached", "gone"}, \A x \in Tid : tasks'[x] = "none",
             \/ kst' = kst /\ kev' = kev
             \/ \A x \in Tid : kst'[x] = "none" /\ kev'[x] = NoEvent
      PROVE  RegistryInv'
  <2>1. ~Waiting' /\ ~Traced'
    BY <1>7 DEF Waiting, Traced
  <2>2. Release'
    BY <1>7, <2>1 DEF Release, StoppedStops, PromptReady, DeathsKnown, Idle
  <2>3. RunningMoves' /\ WaitingRuns'
    BY <1>7, <2>1 DEF RunningMoves, WaitingRuns
  <2>4. ASSUME Births PROVE CloneFirst' /\ DeadReported' /\ DeadLeader' /\ OneReport'
    <3>1. CASE kst' = kst /\ kev' = kev
      BY <1>2, <2>4, <3>1 DEF Births, CloneFirst, DeadReported, DeadLeader, OneReport, Live
    <3>2. CASE \A x \in Tid : kst'[x] = "none" /\ kev'[x] = NoEvent
      BY <1>0, <3>2, SMT DEF CloneFirst, DeadReported, DeadLeader, OneReport, NoEvent
    <3>. QED
      BY <1>7, <3>1, <3>2
  <2>. QED
    BY <2>2, <2>3, <2>4 DEF RegistryInv, Births
<1>8. ASSUME NEW a \in Addr, add_breakpoint(a) \/ remove_breakpoint(a) PROVE RegistryInv'
  <2>1. UNCHANGED <<kst, kev, tasks, pstate, cur>> /\ call = "idle" /\ call' \in {call, "threw"}
    BY <1>8 DEF add_breakpoint, remove_breakpoint, Throw, Idle, kernelVars, processVars
  <2>. QED
    BY <1>5, <2>1
<1>9. ASSUME NEW lo \in Addr, NEW hi \in 0 .. CodeSize, NEW w \in [lo .. hi -> Byte],
             write_memory(lo, hi, w)
      PROVE  RegistryInv'
  <2>1. UNCHANGED <<kst, kev, tasks, pstate, cur, call>>
    BY <1>9 DEF write_memory, processVars
  <2>. QED
    BY <1>5, <2>1
<1>10. ASSUME NEW t \in Tid, select_thread(t) PROVE RegistryInv'
  BY <1>5, <1>10 DEF select_thread, tids, kernelVars
<1>11. ASSUME NEW command \in {"continue", "stepi"}, NEW how \in {"run", "step"}, Resume(command, how)
       PROVE  RegistryInv'
  <2>1. cur \in Tid
    BY <1>4, <1>11 DEF Resume, Release, PromptReady
  <2>. QED
    BY <1>6, <1>11, <2>1 DEF Resume, mark_running, Reachable, Waiting
<1>12. ASSUME NEW command \in {"continue", "stepi"}, step_over_pending_breakpoint(command)
       PROVE  RegistryInv'
  <2>1. cur \in Tid
    BY <1>4, <1>12 DEF step_over_pending_breakpoint, Release, PromptReady
  <2>. QED
    BY <1>6, <1>12, <2>1 DEF step_over_pending_breakpoint, mark_running, Reachable, Waiting
<1>13. ASSUME MotionFails PROVE RegistryInv'
  <2>1. UNCHANGED <<kst, kev, tasks, pstate, cur>> /\ call = "idle" /\ call' = "threw"
    BY <1>13 DEF MotionFails, Throw, Idle, kernelVars, processVars
  <2>. QED
    BY <1>5, <2>1
<1>14. ASSUME detach PROVE RegistryInv'
  <2>1. UNCHANGED <<kst, kev, pstate>> /\ call = "idle"
    BY <1>14 DEF detach, Idle, kernelVars
  <2>2. CASE call' = "threw" /\ UNCHANGED <<tasks, cur>>
    BY <1>5, <2>1, <2>2
  <2>3. CASE call' = "detached" /\ tasks' = [t \in Tid |-> "none"]
    BY <1>7, <2>1, <2>3
  <2>. QED
    BY <1>14, <2>2, <2>3 DEF detach, Throw
<1>15. ASSUME destroy PROVE RegistryInv'
  BY <1>7, <1>15 DEF destroy
<1>. QED
  BY <1>8, <1>9, <1>10, <1>11, <1>12, <1>13, <1>14, <1>15 DEF User, continue_execution, single_step

\* The wait: what is collected leaves the registry true of the threads, and
\* the prompt with a stopped current thread.
LEMMA RegistryWait ==
  ASSUME TypeOK, ControlInv, OwnerInv, RegistryInv, NEW t \in Tid, wait_and_classify(t)
  PROVE  RegistryInv'
<1>0. Leader \in Tid
  BY TidAssumption
<1>1. Waiting /\ Going /\ Traced /\ kev[t].kind # "none"
  BY DEF wait_and_classify, WaitStop, WaitBreakpoint, WaitDisplacedStep, RecordStop, WaitClone,
    WaitExit, WaitExec, WaitUntracked, Waiting, Going, Traced
<1>2. kst[t] # "none" /\ Present # {} /\ tasks[Leader] # "none"
  BY <1>1 DEF ControlInv, EventsOfStopped, Present, OwnerInv, LeaderLast
<1>3. kev' = [kev EXCEPT ![t] = NoEvent]
  BY DEF wait_and_classify, WaitStop, WaitBreakpoint, WaitDisplacedStep, RecordStop, WaitClone,
    WaitExit, WaitExec, WaitUntracked
<1>4. kev'[t].kind = "none" /\ \A x \in Tid : x # t => kev'[x] = kev[x]
  BY <1>3 DEF TypeOK, NoEvent
<1>5. Release
  BY DEF RegistryInv
\* A stop is collected: the thread is held, or goes on.
<1>6. ASSUME kev[t].kind \in {"sig", "trap"}, NEW k \in {"stop", "run"},
             \A x \in Tid : kst'[x] = IF x = t THEN k ELSE kst[x],
             \A x \in Tid : x # t => tasks'[x] = tasks[x],
             tasks'[t] = IF k = "run" THEN "Running" ELSE "Stopped",
             IF k = "run" THEN call' = "continue"
             ELSE call' \in {"idle", "threw"} /\ pstate' = "Stopped" /\ cur' = t
      PROVE  RegistryInv'
  <2>1. kst[t] = "stop" /\ t \in Live
    BY <1>6 DEF ControlInv, EventsOfStopped, Live
  <2>2. \A x \in Tid : x # t => kev[x].kind \in {"none", "clone"}
    BY <1>6, <2>1 DEF ControlInv, LoneReport
  <2>3. NoExec /\ ImageCurrent
    BY <1>6, <2>1, <2>2 DEF ControlInv, ExecAlone, NoExec, ImageCurrent
  <2>4. StoppedStops'
    <3>1. \A x \in Tid : tasks[x] = "Stopped" => kst[x] = "stop"
      BY <1>5, <2>1, <2>3 DEF Release, StoppedStops
    <3>. QED
      BY <1>6, <3>1 DEF StoppedStops
  <2>5. PromptReady' /\ DeathsKnown'
    BY <1>4, <1>6, <2>2 DEF PromptReady, DeathsKnown, Idle
  <2>6. ASSUME Births PROVE Births'
    <3>1. CloneFirst' /\ OneReport'
      BY <1>4, <1>6, <2>1, <2>2, <2>6, SMT DEF Births, CloneFirst, OneReport, TypeOK
    <3>2. RunningMoves'
      BY <1>4, <1>6, <2>3, <2>6 DEF Births, RunningMoves, Moving
    <3>3. DeadReported' /\ WaitingRuns'
      BY <1>4, <1>6, <2>6 DEF Births, DeadReported, WaitingRuns, Waiting
    <3>4. ~(kst[Leader] = "dead" /\ kev[Leader].kind = "none")
      <4>1. (t \in Present /\ Live # {} /\ t # Leader) \/ kst[Leader] = "stop"
        BY <2>1 DEF Present, Live
      <4>. QED
        BY <1>1, <2>1, <2>6, <4>1 DEF Births, DeadLeader
    <3>5. DeadLeader'
      BY <1>0, <1>4, <1>6, <3>4 DEF DeadLeader
    <3>. QED
      BY <3>1, <3>2, <3>3, <3>5 DEF Births
  <2>. QED
    BY <2>4, <2>5, <2>6 DEF RegistryInv, Release
\* A death is collected.
<1>7. ASSUME kev[t].kind \in {"exit", "killed"},
             \A x \in Tid : kst'[x] = IF x = t THEN "none" ELSE kst[x],
             \A x \in Tid : tasks'[x] = IF x = t THEN "none" ELSE tasks[x],
             PromptReady', call' \in {"idle", "threw", call},
             Waiting' => \E x \in Tid : tasks'[x] = "Running"
      PROVE  RegistryInv'
  <2>1. kst[t] = "dead" /\ Live' = Live
    BY <1>7 DEF OwnerInv, LeaderLast, Live
  <2>2. NoExec' => NoExec
    BY <1>4, <1>7, <2>1 DEF NoExec
  <2>3. StoppedStops'
    BY <1>5, <1>7, <2>1, <2>2 DEF Release, StoppedStops
  <2>4. DeathsKnown'
    BY <1>1, <1>4, <1>5, <1>7, <2>1 DEF Release, DeathsKnown
  <2>5. ASSUME Births PROVE Births'
    <3>1. CloneFirst'
      BY <1>4, <1>7, <2>1, <2>5, SMT DEF Births, CloneFirst, TypeOK
    <3>2. OneReport'
      BY <1>4, <1>7, <2>5 DEF Births, OneReport
    <3>3. ImageCurrent
      BY <1>7, ImageIsCurrent
    <3>4. RunningMoves'
      BY <1>4, <1>7, <2>5, <3>3 DEF Births, RunningMoves, Moving
    <3>5. DeadReported' /\ WaitingRuns'
      BY <1>4, <1>7, <2>5 DEF Births, DeadReported, WaitingRuns
    <3>6. DeadLeader'
      <4>. SUFFICES ASSUME kst'[Leader] = "dead", kev'[Leader].kind = "none"
                    PROVE  "group_exit" \in Races /\ Live' = {}
        BY DEF DeadLeader
      <4>1. t # Leader /\ kst[Leader] = "dead" /\ kev[Leader].kind = "none"
        BY <1>0, <1>4, <1>7
      <4>2. t \in Present
        BY <2>1 DEF Present
      <4>. QED
        BY <1>1, <2>1, <2>5, <4>1, <4>2 DEF Births, DeadLeader
    <3>. QED
      BY <3>1, <3>2, <3>4, <3>5, <3>6 DEF Births
  <2>. QED
    BY <1>7, <2>3, <2>4, <2>5 DEF RegistryInv, Release
<1>8. CASE WaitStop(t)
  <2>1. /\ kst' = kst /\ tasks' = [tasks EXCEPT ![t] = "Stopped"] /\ kev[t].kind \in {"sig", "trap"}
        /\ pstate' = "Stopped" /\ cur' = t
    BY <1>8 DEF WaitStop, RecordStop
  <2>2. call' \in {"idle", "threw"}
    BY <1>8 DEF WaitStop, Return, StepOverReturns, Throw
  <2>3. kst[t] = "stop"
    BY <2>1 DEF ControlInv, EventsOfStopped
  <2>4. tasks'[t] = "Stopped" /\ \A x \in Tid : x # t => tasks'[x] = tasks[x]
    BY <2>1 DEF TypeOK
  <2>. QED
    BY <1>6, <2>1, <2>2, <2>3, <2>4
<1>9. CASE WaitBreakpoint(t)
  <2>1. /\ kst' = kst /\ tasks' = [tasks EXCEPT ![t] = "Stopped"] /\ kev[t].kind \in {"sig", "trap"}
        /\ pstate' = "Stopped" /\ cur' = t /\ call' = "idle"
    BY <1>9 DEF WaitBreakpoint, RecordStop
  <2>2. kst[t] = "stop"
    BY <2>1 DEF ControlInv, EventsOfStopped
  <2>3. tasks'[t] = "Stopped" /\ \A x \in Tid : x # t => tasks'[x] = tasks[x]
    BY <2>1 DEF TypeOK
  <2>. QED
    BY <1>6, <2>1, <2>2, <2>3
<1>10. CASE WaitDisplacedStep(t)
  <2>1. /\ kst' = [kst EXCEPT ![t] = "run"] /\ tasks' = [tasks EXCEPT ![t] = "Running"]
        /\ kev[t].kind \in {"sig", "trap"} /\ call' = "continue"
    BY <1>10 DEF WaitDisplacedStep, RecordStop
  <2>2. /\ \A x \in Tid : kst'[x] = IF x = t THEN "run" ELSE kst[x]
        /\ tasks'[t] = "Running" /\ \A x \in Tid : x # t => tasks'[x] = tasks[x]
    BY <2>1 DEF TypeOK
  <2>. QED
    BY <1>6, <2>1, <2>2
<1>11. CASE WaitClone(t)
  <2>. DEFINE u == kev[t].val
  <2>1. /\ kst' = kst /\ call' = call /\ kev[t].kind = "clone"
        /\ \A x \in Tid : tasks'[x] = IF x = t THEN "Stopped"
                                      ELSE IF x = u /\ tasks[u] = "none" THEN "Running" ELSE tasks[x]
    BY <1>11 DEF WaitClone
  <2>2. u \in Tid /\ kst[t] = "stop" /\ t \in Live /\ Waiting'
    BY <1>1, <2>1 DEF TypeOK, ControlInv, EventsOfStopped, Live, Waiting
  <2>. HIDE DEF u
  <2>3. NoExec /\ ImageCurrent
    BY <2>1, <2>2 DEF ControlInv, ExecAlone, ExecPending, NoExec, ImageCurrent
  <2>4. \A x \in Tid : tasks[x] = "Stopped" => kst[x] = "stop"
    BY <1>5, <2>2, <2>3 DEF Release, StoppedStops
  <2>5. StoppedStops'
    BY <2>1, <2>2, <2>4 DEF StoppedStops
  <2>6. PromptReady'
    BY <2>2 DEF PromptReady, Waiting, Idle
  <2>7. DeathsKnown'
    <3>1. Live' = Live
      BY <2>1 DEF Live
    <3>. QED
      BY <1>1, <1>4, <1>5, <2>1, <3>1 DEF Release, DeathsKnown
  <2>8. ASSUME Births PROVE Births'
    <3>1. kst[u] = "born" /\ tasks[u] # "Stopped" /\ u # t
      BY <2>1, <2>2, <2>4, <2>8 DEF Births, CloneFirst, u
    <3>2. tasks'[u] = "Running"
      BY <2>1, <2>2, <3>1 DEF TypeOK, TaskState
    <3>3. CloneFirst' /\ DeadReported'
      BY <1>4, <2>1, <2>8 DEF Births, CloneFirst, DeadReported
    <3>4. OneReport'
      BY <1>1, <1>4, <2>2, <2>8 DEF Births, OneReport
    <3>5. RunningMoves' /\ WaitingRuns'
      BY <1>4, <2>1, <2>2, <2>3, <2>8, <3>1, <3>2 DEF Births, RunningMoves, WaitingRuns, Moving
    <3>6. kst[Leader] # "dead"
      BY <2>2, <2>8, <3>1, MoverBirths
    <3>7. DeadLeader'
      BY <2>1, <3>6 DEF DeadLeader
    <3>. QED
      BY <3>3, <3>4, <3>5, <3>7 DEF Births
  <2>. QED
    BY <2>5, <2>6, <2>7, <2>8 DEF RegistryInv, Release
<1>12. CASE WaitExit(t)
  <2>. DEFINE ts == [tasks EXCEPT ![t] = "none"]
  <2>1. /\ kst' = [kst EXCEPT ![t] = "none"] /\ tasks' = ts /\ cur' = select_current_task(ts)
        /\ kev[t].kind \in {"exit", "killed"}
    BY <1>12 DEF WaitExit
  <2>2. \/ /\ tids(ts) = {} /\ call' = "idle" /\ pstate' # "Stopped"
        \/ /\ update_aggregate_state(ts) = "Stopped" /\ pstate' = "Stopped"
           /\ call' \in {"idle", "threw"}
        \/ /\ tids(ts) # {} /\ update_aggregate_state(ts) = "Running" /\ call' = call
    <3>1. \A c : Return(ts, c) => call' \in {"idle", "threw"}
      BY DEF Return, StepOverReturns, Throw
    <3>2. pstate' \in {"Exited", "Signaled"} => pstate' # "Stopped"
      OBVIOUS
    <3>. QED
      BY <1>12, <3>1, <3>2 DEF WaitExit
  <2>3. /\ \A x \in Tid : kst'[x] = IF x = t THEN "none" ELSE kst[x]
        /\ \A x \in Tid : tasks'[x] = IF x = t THEN "none" ELSE tasks[x]
        /\ ts \in [Tid -> TaskState]
    BY <2>1 DEF TypeOK, TaskState
  <2>. HIDE DEF ts
  <2>4. CASE tids(ts) = {} /\ call' = "idle" /\ pstate' # "Stopped"
    <3>1. t = Leader
      BY <1>0, <1>2, <2>1, <2>3, <2>4 DEF tids
    <3>2. Live' = {}
      BY <2>1, <2>3, <3>1, SMT DEF OwnerInv, LeaderLast, Live
    <3>3. PromptReady' /\ ~Waiting'
      BY <2>4, <3>2 DEF PromptReady, Idle, Waiting
    <3>. QED
      BY <1>7, <2>1, <2>3, <2>4, <3>3
  <2>5. CASE /\ update_aggregate_state(ts) = "Stopped" /\ pstate' = "Stopped"
             /\ call' \in {"idle", "threw"}
    <3>1. select_current_task(ts) \in StoppedTids(ts)
      BY <2>3, <2>5, SelectCurrentTask DEF update_aggregate_state
    <3>2. PromptReady' /\ ~Waiting'
      BY <2>1, <2>5, <3>1 DEF PromptReady, Idle, Waiting, StoppedTids
    <3>. QED
      BY <1>7, <2>1, <2>3, <2>5, <3>2
  <2>6. CASE tids(ts) # {} /\ update_aggregate_state(ts) = "Running" /\ call' = call
    <3>1. StoppedTids(ts) = {}
      BY <2>6 DEF update_aggregate_state
    <3>2. \E x \in Tid : ts[x] = "Running"
      BY <2>3, <2>6, <3>1 DEF tids, StoppedTids, TaskState
    <3>3. PromptReady'
      BY <1>1, <2>6 DEF PromptReady, Idle, Waiting
    <3>. QED
      BY <1>7, <2>1, <2>3, <2>6, <3>2, <3>3
  <2>. QED
    BY <2>2, <2>4, <2>5, <2>6
<1>13. CASE WaitExec(t)
  <2>1. /\ kst' = kst /\ kev[t].kind = "exec" /\ call' = "idle" /\ cur' = t /\ pstate' = "Stopped"
        /\ \A x \in Tid : tasks'[x] = IF x = t THEN "Stopped" ELSE "none"
    BY <1>13 DEF WaitExec
  <2>2. kst[t] = "stop" /\ \A x \in Tid : x # t => kst[x] = "none" /\ kev[x].kind = "none"
    BY <2>1 DEF ControlInv, EventsOfStopped, ExecPending
  <2>3. \A x \in Tid : kev'[x].kind = "none"
    BY <1>4, <2>2
  <2>4. Release'
    BY <2>1, <2>2, <2>3 DEF Release, StoppedStops, PromptReady, DeathsKnown
  <2>5. Births'
    BY <1>0, <2>1, <2>2, <2>3 DEF Births, CloneFirst, RunningMoves, DeadLeader, DeadReported, OneReport,
      WaitingRuns, Waiting
  <2>. QED
    BY <2>4, <2>5 DEF RegistryInv
<1>14. CASE WaitUntracked(t)
  <2>1. /\ kst' = [kst EXCEPT ![t] = "none"] /\ call' = "threw" /\ tasks' = tasks
        /\ kev[t].kind \in {"exit", "killed"} /\ tasks[t] = "none"
    BY <1>14 DEF WaitUntracked, Throw, processVars
  <2>2. Live = {}
    BY <1>1, <1>5, <2>1 DEF Release, DeathsKnown
  <2>3. /\ \A x \in Tid : kst'[x] = IF x = t THEN "none" ELSE kst[x]
        /\ \A x \in Tid : tasks'[x] = IF x = t THEN "none" ELSE tasks[x]
    BY <2>1 DEF TypeOK
  <2>4. PromptReady' /\ ~Waiting'
    BY <2>1, <2>2, <2>3 DEF PromptReady, Live, Idle, Waiting
  <2>. QED
    BY <1>7, <2>1, <2>3, <2>4
<1>. QED
  BY <1>8, <1>9, <1>10, <1>11, <1>12, <1>13, <1>14 DEF wait_and_classify

\* At the prompt the saved bytes put the program back.
LEMMA RestoredIsProgram ==
  ASSUME IInv, ~Waiting, Traced
  PROVE  restored_mem = prog
<1>1. ImageCurrent
  <2>1. ControlInv
    BY DEF IInv
  <2>. QED
    BY <2>1, PromptIsQuiet DEF ImageCurrent
<1>2. \A a \in Addr : (IF bp[a].installed THEN bp[a].original_byte ELSE mem[a]) = prog[a]
  BY <1>1 DEF IInv, TableOK, PatchDiscipline
<1>. QED
  BY <1>2 DEF restored_mem, IInv, TypeOK

\* Releasing an attached process puts its bytes back: whoever has control
\* has a stopped thread to write through while threads live.
LEMMA PristineStep ==
  ASSUME IInv, RegistryInv, ReleasedPristine, [Next]_vars
  PROVE  ReleasedPristine'
<1>1. CASE UNCHANGED vars
  BY <1>1 DEF vars, ReleasedPristine, Live
<1>2. CASE Kernel
  <2>1. Traced /\ call' = call
    BY <1>2 DEF Kernel, Execute, TakeSignal, Clone, Start, Die, DieTogether, ReportLeader, BeginExec,
      FinishExec
  <2>. QED
    BY <2>1 DEF Traced, ReleasedPristine
<1>3. ASSUME NEW t \in Tid, wait_and_classify(t) PROVE ReleasedPristine'
  <2>1. Waiting
    BY <1>3 DEF wait_and_classify, WaitStop, WaitBreakpoint, WaitDisplacedStep, RecordStop,
      WaitClone, WaitExit, WaitExec, WaitUntracked
  <2>2. call' \in {"idle", "threw", "continue", call}
    BY <1>3 DEF wait_and_classify, WaitStop, WaitBreakpoint, WaitDisplacedStep, WaitClone, WaitExit,
      WaitExec, WaitUntracked, Return, StepOverReturns, Throw
  <2>. QED
    BY <2>1, <2>2 DEF Waiting, ReleasedPristine
<1>4. ASSUME Traced, call' = call \/ call' \in {"threw", "continue", "stepi", "over_continue", "over_stepi"}
      PROVE  ReleasedPristine'
  BY <1>4 DEF Traced, ReleasedPristine
<1>5. ASSUME detach PROVE ReleasedPristine'
  <2>1. call = "idle" /\ ~Waiting /\ Traced
    BY <1>5 DEF detach, Idle, Waiting, Traced
  <2>2. call' = "threw" \/ (mem' = restored_mem /\ prog' = prog)
    BY <1>5 DEF detach, Throw, kernelVars
  <2>. QED
    BY <1>4, <2>1, <2>2, RestoredIsProgram DEF ReleasedPristine
<1>6. ASSUME destroy PROVE ReleasedPristine'
  <2>. SUFFICES ASSUME origin' = "Attached", Live' # {} PROVE mem' = prog'
    BY DEF ReleasedPristine
  <2>1. call \in {"idle", "threw"} /\ ~Waiting /\ Traced
    BY <1>6 DEF destroy, Idle, Waiting, Traced
  <2>2. origin = "Attached" /\ kst' = kst /\ prog' = prog
    BY <1>6 DEF destroy
  <2>3. Live # {}
    BY <2>2 DEF Live
  <2>4. pstate = "Stopped" /\ cur \in Tid /\ tasks[cur] = "Stopped"
    BY <2>1, <2>3 DEF RegistryInv, Release, PromptReady
  <2>5. NoExec
    BY <2>1, PromptIsQuiet DEF IInv, NoExec, Moving
  <2>6. kst[cur] = "stop"
    BY <2>3, <2>4, <2>5 DEF RegistryInv, Release, StoppedStops
  <2>7. ~restore_fails
    BY <2>4, <2>6, TidAssumption DEF restore_fails, stopped_tid_ok, Reachable, NoTid
  <2>8. mem' = restored_mem
    BY <1>6, <2>2, <2>4, <2>7 DEF destroy
  <2>. QED
    BY <2>1, <2>2, <2>8, RestoredIsProgram
<1>7. CASE User
  <2>1. detach \/ destroy \/ call' = call
          \/ call' \in {"threw", "continue", "stepi", "over_continue", "over_stepi"}
    BY <1>7 DEF User, add_breakpoint, remove_breakpoint, write_memory, select_thread, continue_execution,
      single_step, Resume, step_over_pending_breakpoint, MotionFails, Throw
  <2>2. detach \/ destroy \/ Idle
    BY <1>7 DEF User, add_breakpoint, remove_breakpoint, write_memory, select_thread, continue_execution,
      single_step, Resume, step_over_pending_breakpoint, MotionFails
  <2>3. Idle => Traced
    BY DEF Idle, Traced
  <2>. QED
    BY <1>4, <1>5, <1>6, <2>1, <2>2, <2>3
<1>. QED
  BY <1>1, <1>2, <1>3, <1>7 DEF Next

\* The registry invariant, and what a release leaves behind, hold throughout a
\* session in which an execve takes at most one other thread with it.
LEMMA RegistryInvariant ==
  ASSUME "late_exec" \notin Races
  PROVE  Spec => [](IInv /\ RegistryInv /\ ReleasedPristine)
<1>1. Init => RegistryInv /\ ReleasedPristine
  <2>1. Init => ReleasedPristine
    BY DEF Init, ReleasedPristine
  <2>. QED
    BY <2>1, RegistryInit
<1>2. IInv /\ OwnerInv /\ RegistryInv /\ [Next]_vars => RegistryInv'
  <2>. SUFFICES ASSUME IInv, OwnerInv, RegistryInv, [Next]_vars PROVE RegistryInv'
    OBVIOUS
  <2>1. CASE UNCHANGED vars
    <3>1. UNCHANGED <<kst, kev, tasks, cur, pstate, call>>
      BY <2>1 DEF vars
    <3>2. Release'
      BY <3>1 DEF RegistryInv, Release, StoppedStops, PromptReady, DeathsKnown, NoExec, Live, Idle, Traced
    <3>3. Births => Births'
      BY <3>1 DEF Births, CloneFirst, RunningMoves, DeadLeader, DeadReported, OneReport, WaitingRuns,
        ImageCurrent, Live, Present, Moving, Waiting
    <3>. QED
      BY <3>2, <3>3 DEF RegistryInv
  <2>. QED
    BY <2>1, RegistryKernel, RegistryUser, RegistryWait DEF IInv, Next
<1>3. IInv /\ RegistryInv /\ ReleasedPristine /\ [Next]_vars => ReleasedPristine'
  BY PristineStep
<1>. QED
  BY <1>1, <1>2, <1>3, Inductive, OwnerInvariant, PTL DEF Spec

\* Release: an attached process that lives on after detach, quit or an
\* exception has exactly its own bytes, whatever threads were born or died
\* meanwhile and in whatever order that was reported.
THEOREM ReleasedIsPristine ==
  ASSUME "late_exec" \notin Races
  PROVE  Spec => []ReleasedPristine
BY RegistryInvariant, PTL

\* No lost wakeup: waitpid is entered and re-entered only while some thread
\* can still report, for any number of threads that are born, die one by one
\* or together.  A leader that exits alone, a new thread that stops before its
\* creator's clone event and an exec among three threads are the exceptions.
THEOREM WaitEnds ==
  ASSUME Races \subseteq {"group_exit"}
  PROVE  Spec => []NoEndlessWait
<1>0. Leader \in Tid
  BY TidAssumption
<1>1. IInv /\ RegistryInv => NoEndlessWait
  <2>. SUFFICES ASSUME IInv, RegistryInv, Waiting,
                       \A t \in Tid : ~Active(t) /\ kst[t] \notin {"born", "exec"} /\ kev[t] = NoEvent
                PROVE  kst[Leader] = "dead" /\ Present = {Leader}
    BY DEF NoEndlessWait
  <2>1. \A t \in Tid : ~Moving(t) /\ kev[t].kind = "none"
    <3>1. NoEvent.kind = "none"
      BY DEF NoEvent
    <3>2. \A t \in Tid : ~Moving(t)
      BY DEF Moving, Active
    <3>. QED
      BY <3>1, <3>2
  <2>2. Births /\ ImageCurrent
    BY <2>1 DEF RegistryInv, ImageCurrent
  <2>3. PICK t \in Tid : tasks[t] = "Running"
    BY <2>2 DEF Births, WaitingRuns
  <2>4. t = Leader /\ kst[Leader] = "dead"
    BY <2>1, <2>2, <2>3 DEF Births, RunningMoves
  <2>5. CASE Present = {Leader}
    BY <2>4, <2>5
  <2>6. CASE Live = {}
    <3>1. \A x \in Tid : x # Leader => kst[x] = "none"
      BY <2>1, <2>2, <2>6 DEF Births, DeadReported, Live
    <3>. QED
      BY <1>0, <2>4, <3>1 DEF Present
  <2>. QED
    BY <1>0, <2>1, <2>2, <2>4, <2>5, <2>6 DEF Births, DeadLeader
<1>2. "late_exec" \notin Races
  OBVIOUS
<1>. QED
  BY <1>1, <1>2, RegistryInvariant, PTL

\* The registry at the prompt: for any number of threads that are born and
\* die one by one, the leader included, what `info threads' lists as stopped
\* is exactly what the kernel has in a ptrace stop, and nothing is listed as
\* running.
THEOREM PromptRegistryTrue ==
  ASSUME Races \subseteq {"leader_exit"}
  PROVE  Spec => []RegistryFaithful
<1>0. Leader \in Tid
  BY TidAssumption
<1>1. IInv /\ RegistryInv => RegistryFaithful
  <2>. SUFFICES ASSUME IInv, RegistryInv, Idle
                PROVE  /\ \A t \in Tid : tasks[t] = "Stopped" <=> kst[t] = "stop"
                       /\ \A t \in Tid : tasks[t] # "Running"
                       /\ cur \in tids(tasks)
    BY DEF RegistryFaithful
  <2>1. ~Waiting /\ Traced /\ Births /\ Release
    BY DEF Idle, Waiting, Traced, RegistryInv
  <2>2. \A t \in Tid : ~Moving(t) /\ kev[t].kind \in {"none", "clone"}
    <3>1. ControlInv /\ OneReport /\ "group_exit" \notin Races
      BY <2>1 DEF IInv, Births
    <3>2. \A t \in Tid : ~Moving(t)
      BY <2>1, <3>1, PromptIsQuiet
    <3>. QED
      BY <2>1, <3>1, <3>2 DEF OneReport
  <2>3. ASSUME NEW t \in Tid PROVE kev[t].kind = "none"
    <3>1. kev[t].kind = "clone" => Moving(kev[t].val) /\ kev[t].val \in Tid
      BY <2>1 DEF Births, CloneFirst, Moving, IInv, TypeOK
    <3>. QED
      BY <2>2, <3>1
  <2>4. \A t \in Tid : kst[t] # "dead"
    <3>1. DeadLeader /\ DeadReported /\ "group_exit" \notin Races
      BY <2>1 DEF Births
    <3>2. kst[Leader] # "dead"
      BY <1>0, <2>1, <2>3, <3>1 DEF DeadLeader
    <3>. QED
      BY <2>3, <3>1, <3>2 DEF DeadReported
  <2>5. NoExec /\ ImageCurrent
    BY <2>2, <2>3 DEF NoExec, ImageCurrent, Moving
  <2>6. cur \in Tid /\ tasks[cur] = "Stopped" /\ kst[cur] # "none"
    BY <2>1, <2>5 DEF Release, PromptReady, IInv, ControlInv, RegistryExists, NoExec
  <2>7. cur \in Live /\ cur \in tids(tasks)
    BY <2>4, <2>6 DEF Live, tids
  <2>8. \A t \in Tid : tasks[t] = "Stopped" => kst[t] = "stop"
    BY <2>1, <2>5, <2>7 DEF Release, StoppedStops
  <2>9. \A t \in Tid : tasks[t] # "Running"
    <3>1. RunningMoves
      BY <2>1 DEF Births
    <3>. QED
      BY <2>2, <2>3, <2>4, <2>5, <3>1 DEF RunningMoves
  <2>10. \A t \in Tid : kst[t] = "stop" => tasks[t] # "none"
    BY <2>1, <2>3 DEF IInv, ControlInv, Unregistered
  <2>11. \A t \in Tid : tasks[t] \in {"none", "Stopped", "Running"}
    <3>1. tasks \in [Tid -> TaskState]
      BY DEF IInv, TypeOK
    <3>. QED
      BY <3>1 DEF TaskState
  <2>. QED
    BY <2>7, <2>8, <2>9, <2>10, <2>11
<1>2. "late_exec" \notin Races
  OBVIOUS
<1>. QED
  BY <1>1, <1>2, RegistryInvariant, PTL

-----------------------------------------------------------------------------
(* The refinement mapping.                                                 *)

\* The values the refinement mapping gives to the abstract variables.
Breaks == IF ImageCurrent THEN {a \in Addr : bp[a].id # 0} ELSE {}
Pc == [t \in Tid |-> ProgramCounter(t)]
ToldSet == {t \in Tid : Told(t)}

\* What the program does is seen as what it does.
LEMMA RunMaps ==
  ASSUME NEW t \in Tid, NEW u \in Tid, NEW next \in 0 .. CodeSize,
         Pc[t] \in Addr, Pc[t] \in Breaks => t \in ToldSet,
         prog[Pc[t]] = INT3 => next = Pc[t] + 1,
         Pc' = [Pc EXCEPT ![t] = next, ![u] = next],
         ToldSet' = ToldSet \ {t, u}, prog' = prog, Breaks' = Breaks
  PROVE  Service!Next
<1>1. Service!Run(t, u)
  BY DEF Service!Run, Service!Addr, Addr, Pc, ToldSet, Breaks
<1>. QED
  BY <1>1 DEF Service!Next

\* A step that nobody sees.
LEMMA StutterMaps ==
  ASSUME UNCHANGED <<prog, Breaks, Pc, ToldSet>>
  PROVE  UNCHANGED Service!vars
BY DEF Service!vars, Pc, ToldSet, Breaks

\* A step after which no thread is known to be at its breakpoint.
LEMMA RetractMaps ==
  ASSUME UNCHANGED <<prog, Breaks, Pc>>, \A t \in Tid : ~Told(t)'
  PROVE  [Service!Next]_Service!vars
<1>1. ToldSet' = {}
  BY DEF ToldSet
<1>2. CASE \E t \in Tid : ToldSet = {t}
  <2>1. PICK t \in Tid : ToldSet = {t}
    BY <1>2
  <2>2. Service!Retract(t)
    BY <1>1, <2>1 DEF Service!Retract, ToldSet, Pc, Breaks
  <2>. QED
    BY <2>2 DEF Service!Next
<1>3. CASE ToldSet = {}
  BY <1>1, <1>3, StutterMaps
<1>4. \A t \in ToldSet : t = pend.tid
  BY DEF ToldSet, Told
<1>. QED
  BY <1>2, <1>3, <1>4 DEF ToldSet

-----------------------------------------------------------------------------
(* The invariant behind the mapping.                                       *)

\* A trap that ends a continue is the debugger's own INT3 exactly if the
\* thread is owed a rewind, and no other thread is.
TrapOwed ==
  \A t \in Tid :
    /\ owed[t] => kev[t].kind = "trap" /\ call = "continue"
    /\ kev[t].kind = "trap" /\ call = "continue" =>
         rip[t] - 1 \in Addr /\ (owed[t] <=> bp[rip[t] - 1].installed)

\* The thread of the displaced step stands on the lifted breakpoint, at the
\* prompt and until it has run one instruction.
DisplacedAt ==
  /\ \A t \in Tid : kst[t] = "step" => Over
  /\ Over => \A t \in Tid : Active(t) => kst[t] = "step" /\ t = pend.tid /\ rip[t] = pend.address
  /\ call = "idle" /\ pend # NoPend => rip[pend.tid] = pend.address
  /\ (Over \/ call = "idle") /\ pend # NoPend =>
       bp[pend.address].id # 0 /\ ~bp[pend.address].installed

\* A thread whose creation is to be reported has not run.
NewThreads ==
  Going => \A t \in pthr : /\ ~Active(t) /\ kev[t].kind # "trap"
                           /\ kst[t] = "stop" => kev[t].kind \in {"sig", "exec"}

\* The user moves threads with continue.
ContinueOnly == call \notin {"stepi", "over_stepi"}

ServiceInv == TrapOwed /\ DisplacedAt /\ NewThreads /\ ContinueOnly

Base == IInv /\ OwnerInv /\ RegistryInv

\* While a thread moves, no thread is owed a rewind.
LEMMA MoverOwesNone ==
  ASSUME IInv, TrapOwed, NEW t \in Tid, kst[t] \in {"born", "run", "step"}
  PROVE  \A u \in Tid : owed[u] = FALSE
<1>1. \A u \in Tid : kev[u].kind # "trap"
  BY MoverFacts DEF IInv
<1>2. \A u \in Tid : owed[u] \in BOOLEAN
  BY DEF IInv, TypeOK
<1>. QED
  BY <1>1, <1>2 DEF TrapOwed

\* What holds while thread t runs.
LEMMA RunnerFacts ==
  ASSUME IInv, TrapOwed, NEW t \in Tid, Active(t)
  PROVE  /\ Waiting /\ ImageCurrent
         /\ \A u \in Tid : kev[u].kind \in {"none", "clone"} /\ owed[u] = FALSE
         /\ \A u \in Tid : Active(u) => u = t
<1>1. kst[t] \in {"born", "run", "step"} /\ TypeOK /\ ControlInv
  BY DEF Active, IInv
<1>2. \A u \in Tid : owed[u] = FALSE
  BY <1>1, MoverOwesNone
<1>3. /\ Waiting /\ ImageCurrent
      /\ \A u \in Tid : kev[u].kind \in {"none", "clone"}
      /\ \A u \in Tid : Moving(u) => u = t
  BY <1>1, MoverFacts
<1>. QED
  BY <1>2, <1>3 DEF Moving, Active

\* Nothing runs and nothing is lifted when a session starts.
LEMMA ServiceInit == Init => ServiceInv
<1>. SUFFICES ASSUME Init PROVE ServiceInv
  OBVIOUS
<1>1. /\ \A t \in Tid : owed[t] = FALSE /\ kev[t].kind = "none" /\ kst[t] \in {"stop", "none"}
      /\ pend = NoPend /\ pthr = {} /\ call = "idle"
  BY DEF Init, NoEvent
<1>. QED
  BY <1>1 DEF ServiceInv, TrapOwed, DisplacedAt, NewThreads, ContinueOnly, Over, Active

\* The running thread stops, with or without having run an instruction.
LEMMA MoverStops ==
  ASSUME IInv, ServiceInv, NEW t \in Tid, Active(t), UNCHANGED <<bp, pend, pthr, call>>,
         \A u \in Tid : u # t => kst'[u] \notin {"run", "step"} /\ kev'[u].kind # "trap" /\ owed'[u] = FALSE,
         \A u \in Tid : u # t /\ kst'[u] = "stop" => kst[u] = "stop" /\ kev'[u].kind = kev[u].kind,
         kst'[t] \notin {"run", "step"},
         owed'[t] => kev'[t].kind = "trap" /\ call = "continue",
         kev'[t].kind = "trap" /\ call = "continue" =>
           rip'[t] - 1 \in Addr /\ (owed'[t] <=> bp[rip'[t] - 1].installed)
  PROVE  ServiceInv'
<1>1. Waiting /\ Going
  BY MoverFacts DEF IInv, Active, Waiting, Going
<1>2. TrapOwed'
  BY DEF TrapOwed
<1>3. \A u \in Tid : kst'[u] \notin {"run", "step"}
  OBVIOUS
<1>4. DisplacedAt'
  <2>1. call # "idle"
    BY <1>1 DEF Waiting
  <2>. QED
    BY <1>3, <2>1 DEF ServiceInv, DisplacedAt, Over, Active
<1>5. NewThreads'
  <2>1. t \notin pthr
    BY <1>1 DEF ServiceInv, NewThreads
  <2>2. pthr \subseteq Tid
    BY DEF IInv, TypeOK
  <2>. QED
    BY <1>1, <1>3, <2>1, <2>2 DEF ServiceInv, NewThreads, Active
<1>. QED
  BY <1>2, <1>4, <1>5 DEF ServiceInv, ContinueOnly

\* The running thread runs an instruction.
LEMMA ServiceExecute ==
  ASSUME Base, ServiceInv, NEW t \in Tid, Execute(t)
  PROVE  ServiceInv'
<1>1. IInv /\ TypeOK /\ TrapOwed /\ Active(t) /\ UNCHANGED <<bp, pend, pthr, call>> /\ rip[t] \in Addr
  BY DEF Base, IInv, ServiceInv, Execute
<1>2. /\ \A u \in Tid : kev[u].kind \in {"none", "clone"} /\ owed[u] = FALSE
      /\ \A u \in Tid : Active(u) => u = t
      /\ Waiting
  BY <1>1, RunnerFacts
<1>3. rip[t] \in Nat /\ rip[t] + 1 - 1 = rip[t]
  BY <1>1, SMT DEF TypeOK
<1>4. CASE mem[rip[t]] = INT3
  <2>1. /\ rip' = [rip EXCEPT ![t] = @ + 1] /\ kst' = [kst EXCEPT ![t] = "stop"]
        /\ owed' = [owed EXCEPT ![t] = bp[rip[t]].installed]
        /\ kev' = [kev EXCEPT ![t] = Event("trap", 0)]
    BY <1>4 DEF Execute
  <2>2. /\ rip'[t] = rip[t] + 1 /\ kst'[t] = "stop" /\ owed'[t] = bp[rip[t]].installed
        /\ kev'[t].kind = "trap"
    BY <1>1, <2>1 DEF TypeOK, Event
  <2>3. \A u \in Tid : u # t => kst'[u] = kst[u] /\ kev'[u] = kev[u] /\ owed'[u] = owed[u]
    BY <1>1, <2>1 DEF TypeOK
  <2>4. ~bp[rip[t]].installed \/ call = "continue"
    <3>1. CASE Over
      <4>1. rip[t] = pend.address /\ pend.address \in Addr
        BY <1>1, <3>1 DEF ServiceInv, DisplacedAt
      <4>2. pend # NoPend
        BY <4>1, AddrFacts, SMT DEF NoPend
      <4>. QED
        BY <3>1, <4>1, <4>2 DEF ServiceInv, DisplacedAt
    <3>. QED
      BY <1>2, <3>1 DEF Waiting, Over, ServiceInv, ContinueOnly
  <2>5. ServiceInv'
    <3>1. \A u \in Tid : u # t => kst'[u] \notin {"run", "step"} /\ kev'[u].kind # "trap" /\ owed'[u] = FALSE
      BY <1>2, <2>3 DEF Active
    <3>2. \A u \in Tid : u # t /\ kst'[u] = "stop" => kst[u] = "stop" /\ kev'[u].kind = kev[u].kind
      BY <2>3
    <3>3. rip'[t] - 1 = rip[t] /\ (owed'[t] => call = "continue")
      BY <1>3, <2>2, <2>4, SMT
    <3>. QED
      BY <1>1, <2>2, <3>1, <3>2, <3>3, MoverStops
  <2>. QED
    BY <2>5
<1>5. CASE mem[rip[t]] # INT3 /\ kst[t] = "step"
  <2>1. /\ kst' = [kst EXCEPT ![t] = "stop"] /\ UNCHANGED owed
        /\ kev' = [kev EXCEPT ![t] = Event("trap", 0)]
    BY <1>5 DEF Execute
  <2>2. kst'[t] = "stop" /\ owed'[t] = FALSE
    BY <1>1, <1>2, <2>1 DEF TypeOK
  <2>3. \A u \in Tid : u # t => kst'[u] = kst[u] /\ kev'[u] = kev[u] /\ owed'[u] = owed[u]
    BY <1>1, <2>1 DEF TypeOK
  <2>4. call # "continue"
    BY <1>5 DEF ServiceInv, DisplacedAt, Over
  <2>5. \A u \in Tid : u # t => kst'[u] \notin {"run", "step"} /\ kev'[u].kind # "trap" /\ owed'[u] = FALSE
    BY <1>2, <2>3 DEF Active
  <2>6. \A u \in Tid : u # t /\ kst'[u] = "stop" => kst[u] = "stop" /\ kev'[u].kind = kev[u].kind
    BY <2>3
  <2>. QED
    BY <1>1, <2>2, <2>4, <2>5, <2>6, MoverStops
<1>6. CASE mem[rip[t]] # INT3 /\ kst[t] # "step"
  <2>1. UNCHANGED <<kst, kev, owed>>
    BY <1>6 DEF Execute
  <2>2. ~Over /\ call # "idle"
    BY <1>1, <1>2, <1>6 DEF ServiceInv, DisplacedAt, Waiting
  <2>3. TrapOwed'
    BY <1>2, <2>1 DEF TrapOwed
  <2>4. DisplacedAt'
    BY <1>1, <2>1, <2>2 DEF ServiceInv, DisplacedAt, Over
  <2>5. NewThreads'
    BY <1>1, <2>1 DEF ServiceInv, NewThreads, Going, Active
  <2>. QED
    BY <1>1, <2>3, <2>4, <2>5 DEF ServiceInv, ContinueOnly
<1>. QED
  BY <1>4, <1>5, <1>6

\* The other steps of the kernel: a thread stops, is born or dies, and none
\* runs an INT3.
LEMMA ServiceKernel ==
  ASSUME "child_first" \notin Races, Base, ServiceInv, Kernel
  PROVE  ServiceInv'
<1>. USE DEF Active
<1>0. IInv /\ TypeOK /\ ControlInv /\ TrapOwed /\ Births
  BY DEF Base, IInv, ServiceInv, RegistryInv
<1>1. ASSUME NEW t \in Tid, TakeSignal(t) PROVE ServiceInv'
  <2>1. /\ Active(t) /\ kst' = [kst EXCEPT ![t] = "stop"] /\ UNCHANGED <<bp, pend, pthr, call, owed>>
        /\ \E s \in Signal : kev' = [kev EXCEPT ![t] = Event("sig", s)]
    BY <1>1 DEF TakeSignal
  <2>2. /\ \A u \in Tid : kev[u].kind \in {"none", "clone"} /\ owed[u] = FALSE
        /\ \A u \in Tid : Active(u) => u = t
    BY <1>0, <2>1, RunnerFacts
  <2>3. kst'[t] = "stop" /\ kev'[t].kind = "sig"
    BY <1>0, <2>1, SMT DEF TypeOK, Event
  <2>4. \A u \in Tid : u # t => kst'[u] = kst[u] /\ kev'[u] = kev[u]
    BY <1>0, <2>1 DEF TypeOK
  <2>. QED
    BY <1>0, <2>1, <2>2, <2>3, <2>4, MoverStops
<1>2. ASSUME NEW t \in Tid, NEW u \in Tid, Clone(t, u) PROVE ServiceInv'
  <2>1. /\ Active(t) /\ kst[u] = "none" /\ UNCHANGED <<bp, pend, pthr, call, owed>>
        /\ kst' = [kst EXCEPT ![t] = "stop", ![u] = "born"]
        /\ kev' = [kev EXCEPT ![t] = Event("clone", u)]
    BY <1>2 DEF Clone
  <2>2. /\ \A x \in Tid : kev[x].kind \in {"none", "clone"} /\ owed[x] = FALSE
        /\ \A x \in Tid : Active(x) => x = t
    BY <1>0, <2>1, RunnerFacts
  <2>3. t # u /\ kst'[t] = "stop" /\ kev'[t].kind = "clone"
    BY <1>0, <2>1 DEF TypeOK, Event
  <2>4. \A x \in Tid : x # t => kst'[x] = (IF x = u THEN "born" ELSE kst[x]) /\ kev'[x] = kev[x]
    BY <1>0, <2>1 DEF TypeOK
  <2>5. \A x \in Tid : x # t => kst'[x] \notin {"run", "step"} /\ kev'[x].kind # "trap" /\ owed'[x] = FALSE
    <3>1. \A x \in Tid : x # t => kst'[x] \notin {"run", "step"}
      BY <2>2, <2>4
    <3>2. \A x \in Tid : x # t => kev'[x].kind # "trap" /\ owed'[x] = FALSE
      <4>. HIDE DEF Active
      <4>1. owed' = owed
        BY <2>1
      <4>2. \A x \in Tid : x # t => kev'[x] = kev[x]
        BY <2>4
      <4>. QED
        BY <2>2, <4>1, <4>2
    <3>. QED
      BY <3>1, <3>2
  <2>6. \A x \in Tid : x # t /\ kst'[x] = "stop" => kst[x] = "stop" /\ kev'[x].kind = kev[x].kind
    BY <2>4
  <2>7. owed'[t] = FALSE
    BY <2>1, <2>2
  <2>. QED
    BY <1>0, <2>1, <2>3, <2>5, <2>6, <2>7, MoverStops
<1>3. ASSUME NEW u \in Tid, Start(u) PROVE ServiceInv'
  <2>1. /\ kst[u] = "born" /\ kst' = [kst EXCEPT ![u] = "stop"] /\ UNCHANGED <<bp, pend, pthr, call, owed, rip>>
        /\ kev' = [kev EXCEPT ![u] = Event("sig", SIGSTOP)]
    BY <1>3 DEF Start
  <2>2. /\ \A x \in Tid : kev[x].kind \in {"none", "clone"} /\ owed[x] = FALSE
        /\ \A x \in Tid : ~Active(x)
        /\ Waiting
    BY <1>0, <2>1, MoverFacts, MoverOwesNone DEF Moving
  <2>3. \A x \in Tid : IF x = u THEN kst'[x] = "stop" /\ kev'[x].kind = "sig"
                                ELSE kst'[x] = kst[x] /\ kev'[x] = kev[x]
    BY <1>0, <2>1 DEF TypeOK, Event
  <2>4. TrapOwed'
    BY <2>1, <2>2, <2>3 DEF TrapOwed
  <2>5. DisplacedAt'
    <3>1. call # "idle" /\ \A x \in Tid : kst'[x] \notin {"run", "step"}
      BY <2>2, <2>3 DEF Waiting
    <3>. QED
      BY <2>1, <3>1 DEF ServiceInv, DisplacedAt, Over
  <2>6. NewThreads'
    <3>1. pthr \subseteq Tid
      BY <1>0 DEF TypeOK
    <3>. QED
      BY <2>1, <2>2, <2>3, <3>1 DEF ServiceInv, NewThreads, Going
  <2>. QED
    BY <2>1, <2>4, <2>5, <2>6 DEF ServiceInv, ContinueOnly
<1>4. ASSUME NEW t \in Tid, Die(t) PROVE ServiceInv'
  <2>1. /\ Active(t) /\ kst' = [kst EXCEPT ![t] = "dead"] /\ UNCHANGED <<bp, pend, pthr, call>>
        /\ owed' = [owed EXCEPT ![t] = FALSE]
        /\ \E k \in {"exit", "killed"} :
             kev' = IF t = Leader THEN kev ELSE [kev EXCEPT ![t] = Event(k, 0)]
    BY <1>4 DEF Die
  <2>2. /\ \A u \in Tid : kev[u].kind \in {"none", "clone"} /\ owed[u] = FALSE
        /\ \A u \in Tid : Active(u) => u = t
    BY <1>0, <2>1, RunnerFacts
  <2>3. kst'[t] = "dead" /\ kev'[t].kind # "trap" /\ owed'[t] = FALSE
    BY <1>0, <2>1, <2>2, SMT DEF TypeOK, Event
  <2>4. \A u \in Tid : u # t => kst'[u] = kst[u] /\ kev'[u] = kev[u] /\ owed'[u] = owed[u]
    BY <1>0, <2>1 DEF TypeOK
  <2>5. \A u \in Tid : u # t => kst'[u] \notin {"run", "step"} /\ kev'[u].kind # "trap" /\ owed'[u] = FALSE
    BY <2>1, <2>2, <2>4
  <2>6. \A u \in Tid : u # t /\ kst'[u] = "stop" => kst[u] = "stop" /\ kev'[u].kind = kev[u].kind
    BY <2>4
  <2>7. owed'[t] = FALSE
    BY <2>1, <2>2, <2>3
  <2>. QED
    BY <1>0, <2>1, <2>3, <2>5, <2>6, <2>7, MoverStops
<1>5. ASSUME NEW t \in Tid, DieTogether(t) PROVE ServiceInv'
  <2>1. /\ kst[t] \in {"born", "run", "step"} /\ UNCHANGED <<bp, pend, pthr, call>>
        /\ kst' = [u \in Tid |-> IF kst[u] = "none" THEN "none" ELSE "dead"]
        /\ owed' = [u \in Tid |-> FALSE]
        /\ \E k \in {"exit", "killed"} :
             kev' = [u \in Tid |-> IF u = Leader THEN NoEvent
                                   ELSE IF u \in Live THEN Event(k, 0) ELSE kev[u]]
    BY <1>5 DEF DieTogether
  <2>2. Waiting /\ \A u \in Tid : kev[u].kind \in {"none", "clone"}
    BY <1>0, <2>1, MoverFacts
  <2>3. \A u \in Tid : kst'[u] \in {"none", "dead"} /\ owed'[u] = FALSE /\ kev'[u].kind # "trap"
    BY <2>1, <2>2, SMT DEF NoEvent, Event
  <2>. QED
    BY <1>0, <2>1, <2>2, <2>3 DEF ServiceInv, TrapOwed, DisplacedAt, NewThreads, ContinueOnly, Over, Waiting, TypeOK
<1>6. ASSUME NEW t \in Tid, BeginExec(t) PROVE ServiceInv'
  <2>1. /\ Active(t) /\ UNCHANGED <<bp, pend, pthr, call>>
        /\ kst' = [u \in Tid |-> IF u = t THEN "exec"
                                 ELSE IF kst[u] = "none" \/ u = Leader THEN "none" ELSE "dead"]
        /\ kev' = [u \in Tid |-> IF u # t /\ u # Leader /\ u \in Live THEN Event("exit", 0)
                                 ELSE IF u = Leader THEN NoEvent ELSE kev[u]]
        /\ owed' = [u \in Tid |-> FALSE]
    BY <1>6 DEF BeginExec
  <2>2. Waiting /\ \A u \in Tid : kev[u].kind \in {"none", "clone"}
    BY <1>0, <2>1, MoverFacts
  <2>3. \A u \in Tid : kst'[u] \in {"none", "dead", "exec"} /\ owed'[u] = FALSE /\ kev'[u].kind # "trap"
    BY <2>1, <2>2 DEF NoEvent, Event
  <2>. QED
    BY <1>0, <2>1, <2>2, <2>3 DEF ServiceInv, TrapOwed, DisplacedAt, NewThreads, ContinueOnly, Over, Waiting, TypeOK
<1>7. ASSUME NEW t \in Tid, FinishExec(t) PROVE ServiceInv'
  <2>1. /\ kst[t] = "exec" /\ UNCHANGED <<bp, pend, pthr, call, owed>>
        /\ kst' = [u \in Tid |-> IF u = Leader THEN "stop" ELSE "none"]
        /\ kev' = [u \in Tid |-> IF u = Leader THEN Event("exec", 0) ELSE NoEvent]
    BY <1>7 DEF FinishExec
  <2>2. \A u \in Tid : kev[u].kind # "trap"
    BY <1>0, <2>1 DEF ControlInv, ExecAlone
  <2>3. Waiting
    BY <1>0, <2>1 DEF ControlInv, OneMover, Moving
  <2>4. \A u \in Tid : /\ kst'[u] \in {"stop", "none"} /\ kev'[u].kind \in {"exec", "none"}
                       /\ kst'[u] = "stop" => kev'[u].kind = "exec"
    BY <2>1 DEF Event, NoEvent
  <2>5. TrapOwed'
    BY <1>0, <2>1, <2>2, <2>4 DEF TrapOwed
  <2>. QED
    BY <1>0, <2>1, <2>3, <2>4, <2>5 DEF ServiceInv, DisplacedAt, NewThreads, ContinueOnly, Over, Waiting, TypeOK
<1>8. CASE ReportLeader
  <2>1. /\ kst[Leader] = "dead" /\ UNCHANGED <<kst, rip, bp, pend, pthr, call, owed>>
        /\ \E k \in {"exit", "killed"} : kev' = [kev EXCEPT ![Leader] = Event(k, 0)]
        /\ kev[Leader] = NoEvent /\ Leader \in Tid
    BY <1>8, TidAssumption DEF ReportLeader
  <2>2. \A u \in Tid : IF u = Leader THEN kev[u].kind # "trap" /\ kev'[u].kind # "trap"
                                     ELSE kev'[u] = kev[u]
    BY <1>0, <2>1, SMT DEF TypeOK, Event, NoEvent
  <2>3. TrapOwed'
    BY <2>1, <2>2 DEF ServiceInv, TrapOwed
  <2>4. DisplacedAt'
    BY <2>1 DEF ServiceInv, DisplacedAt, Over
  <2>5. NewThreads'
    BY <1>0, <2>1, <2>2 DEF ServiceInv, NewThreads, Going, TypeOK
  <2>. QED
    BY <2>1, <2>3, <2>4, <2>5 DEF ServiceInv, ContinueOnly
<1>. QED
  BY <1>1, <1>2, <1>3, <1>4, <1>5, <1>6, <1>7, <1>8, ServiceExecute DEF Kernel

\* What holds at the prompt.
LEMMA PromptFacts ==
  ASSUME IInv, ServiceInv, call \in {"idle", "threw"}
  PROVE  /\ \A t \in Tid : owed[t] = FALSE /\ ~Active(t) /\ kst[t] # "born" /\ kev[t].kind # "exec"
         /\ \A t, u \in Tid : kst[t] = "stop" => kev[u].kind \in {"none", "clone"}
         /\ ImageCurrent /\ Traced
<1>1. ~Waiting /\ ControlInv /\ TypeOK
  BY DEF Waiting, IInv
<1>2. /\ \A t \in Tid : ~Moving(t) /\ kev[t].kind # "exec"
      /\ \A t, u \in Tid : kst[t] = "stop" => kev[u].kind \in {"none", "clone"}
  BY <1>1, PromptIsQuiet
<1>3. \A t \in Tid : owed[t] = FALSE
  BY <1>1 DEF ServiceInv, TrapOwed, TypeOK
<1>. QED
  BY <1>2, <1>3 DEF Moving, Active, ImageCurrent, Traced

\* A command that returns at once and keeps the lifted breakpoint lifted.
LEMMA PromptKept ==
  ASSUME IInv, ServiceInv, call = "idle", UNCHANGED <<kst, kev, rip, owed, pthr, call>>,
         pend' \in {pend, NoPend},
         pend # NoPend /\ pend' = pend =>
           bp'[pend.address].id = bp[pend.address].id
           /\ bp'[pend.address].installed = bp[pend.address].installed
  PROVE  ServiceInv'
<1>1. TrapOwed'
  BY DEF ServiceInv, TrapOwed
<1>2. DisplacedAt'
  BY DEF ServiceInv, DisplacedAt, Over
<1>3. NewThreads'
  BY DEF ServiceInv, NewThreads, Going, Active
<1>. QED
  BY <1>1, <1>2, <1>3 DEF ServiceInv, ContinueOnly

\* A command that ends the session.
LEMMA SessionEnds ==
  ASSUME IInv, ServiceInv, call \in {"idle", "threw"}, call' \in {"threw", "detached", "gone"},
         UNCHANGED owed, \A t \in Tid : kst'[t] \in {kst[t], "none"}
  PROVE  ServiceInv'
<1>1. \A t \in Tid : owed[t] = FALSE /\ ~Active(t)
  BY PromptFacts
<1>. QED
  BY <1>1 DEF ServiceInv, TrapOwed, DisplacedAt, NewThreads, ContinueOnly, Going, Over, Active

\* The commands.
LEMMA ServiceUser ==
  ASSUME "stepi" \notin Commands, Base, ServiceInv, User
  PROVE  ServiceInv'
<1>0. /\ IInv /\ TypeOK /\ TableOK /\ call \in {"idle", "threw"}
      /\ pend # NoPend => pend.address \in Addr /\ pend.tid \in Tid
  BY DEF Base, IInv, TableOK, User, add_breakpoint, remove_breakpoint, write_memory, select_thread,
    continue_execution, single_step, Resume, step_over_pending_breakpoint, MotionFails, detach, destroy, Idle
<1>1. ASSUME NEW a \in Addr, add_breakpoint(a) PROVE ServiceInv'
  <2>1. /\ call = "idle" /\ bp[a].id = 0 /\ UNCHANGED <<kst, kev, rip, owed, pthr, call, pend>>
        /\ bp' = [bp EXCEPT ![a] = [id |-> nextId, original_byte |-> mem[a], installed |-> TRUE]]
    BY <1>1 DEF add_breakpoint, Idle, kernelVars
  <2>2. pend # NoPend => pend.address # a
    BY <2>1 DEF ServiceInv, DisplacedAt
  <2>3. pend # NoPend => bp'[pend.address] = bp[pend.address]
    BY <1>0, <2>1, <2>2 DEF TypeOK
  <2>. QED
    BY <1>0, <2>1, <2>3, PromptKept
<1>2. ASSUME NEW a \in Addr, remove_breakpoint(a) PROVE ServiceInv'
  <2>1. CASE UNCHANGED call
    <3>1. /\ call = "idle" /\ UNCHANGED <<kst, kev, rip, owed, pthr, call>>
          /\ pend' = IF pend.address = a THEN NoPend ELSE pend
          /\ bp' = [bp EXCEPT ![a] = NoBreak]
      BY <1>2, <2>1 DEF remove_breakpoint, Idle, Throw, kernelVars
    <3>2. pend # NoPend /\ pend' = pend => pend.address # a
      BY <3>1
    <3>3. pend # NoPend /\ pend' = pend => bp'[pend.address] = bp[pend.address]
      BY <1>0, <3>1, <3>2 DEF TypeOK
    <3>. QED
      BY <1>0, <3>1, <3>3, PromptKept
  <2>2. CASE Throw
    <3>1. call = "idle" /\ call' = "threw" /\ UNCHANGED <<kst, owed>>
      BY <1>2, <2>2 DEF remove_breakpoint, Idle, Throw, kernelVars
    <3>. QED
      BY <1>0, <3>1, SessionEnds
  <2>. QED
    BY <1>2, <2>1, <2>2 DEF remove_breakpoint
<1>3. ASSUME NEW lo \in Addr, NEW hi \in 0 .. CodeSize, NEW w \in [lo .. hi -> Byte], write_memory(lo, hi, w)
      PROVE  ServiceInv'
  <2>. DEFINE range == (lo .. hi) \cap Addr
              patched == {a \in range : bp[a].id # 0}
              fails == hi \notin Addr
  <2>1. /\ call = "idle" /\ UNCHANGED <<kst, kev, rip, owed, pthr, call, pend>> /\ pend.address \notin lo .. hi
        /\ bp' = [a \in Addr |-> IF a \in patched /\ ~fails
                                 THEN [bp[a] EXCEPT !.original_byte = w[a]] ELSE bp[a]]
    BY <1>3 DEF write_memory, Idle
  <2>2. pend # NoPend => bp'[pend.address] = bp[pend.address]
    BY <1>0, <2>1
  <2>. QED
    BY <1>0, <2>1, <2>2, PromptKept
<1>4. ASSUME NEW t \in Tid, select_thread(t) PROVE ServiceInv'
  <2>1. call = "idle" /\ UNCHANGED <<kst, kev, rip, owed, pthr, call, pend, bp>>
    BY <1>4 DEF select_thread, Idle, kernelVars, breakVars
  <2>. QED
    BY <1>0, <2>1, PromptKept
<1>5. CASE continue_execution
  <2>1. /\ call = "idle" /\ pend = NoPend /\ kst[cur] = "stop" /\ cur \in Tid
        /\ kst' = [kst EXCEPT ![cur] = "run"] /\ kev' = [kev EXCEPT ![cur] = NoEvent]
        /\ call' = "continue" /\ UNCHANGED <<rip, owed, pthr, pend, bp>>
    BY <1>0, <1>5 DEF continue_execution, Resume, Idle, stopped_tid_ok, Reachable, breakVars, TypeOK
  <2>2. \A t \in Tid : owed[t] = FALSE /\ ~Active(t) /\ kev[t].kind \in {"none", "clone"}
    BY <1>0, <2>1, PromptFacts
  <2>3. \A t \in Tid : /\ kst'[t] = IF t = cur THEN "run" ELSE kst[t]
                       /\ kev'[t] = IF t = cur THEN NoEvent ELSE kev[t]
    BY <1>0, <2>1 DEF TypeOK
  <2>4. \A t \in Tid : kev'[t].kind # "trap"
    BY <2>2, <2>3, SMT DEF NoEvent
  <2>5. TrapOwed'
    BY <2>1, <2>2, <2>4 DEF TrapOwed
  <2>6. DisplacedAt'
    BY <2>1, <2>2, <2>3, SMT DEF DisplacedAt, Over, Active
  <2>7. cur \notin pthr
    BY <2>1, <2>2 DEF ServiceInv, NewThreads, Going
  <2>8. NewThreads'
    BY <1>0, <2>1, <2>2, <2>3, <2>7, SMT DEF ServiceInv, NewThreads, Going, Active, TypeOK
  <2>. QED
    BY <2>1, <2>5, <2>6, <2>8 DEF ServiceInv, ContinueOnly
<1>6. ASSUME NEW command \in {"continue", "stepi"}, step_over_pending_breakpoint(command) PROVE ServiceInv'
  <2>1. /\ call = "idle" /\ pend # NoPend /\ kst[cur] = "stop" /\ cur \in Tid /\ pend.tid = cur
        /\ kst' = [kst EXCEPT ![cur] = "step"] /\ kev' = [kev EXCEPT ![cur] = NoEvent]
        /\ call' = "over_continue" /\ UNCHANGED <<rip, owed, pthr, pend, bp>>
    BY <1>0, <1>6 DEF step_over_pending_breakpoint, Idle, stopped_tid_ok, Reachable, breakVars, TypeOK
  <2>2. \A t \in Tid : owed[t] = FALSE /\ ~Active(t) /\ kev[t].kind \in {"none", "clone"}
    BY <1>0, <2>1, PromptFacts
  <2>3. \A t \in Tid : /\ kst'[t] = IF t = cur THEN "step" ELSE kst[t]
                       /\ kev'[t] = IF t = cur THEN NoEvent ELSE kev[t]
    BY <1>0, <2>1 DEF TypeOK
  <2>4. \A t \in Tid : kev'[t].kind # "trap"
    BY <2>2, <2>3, SMT DEF NoEvent
  <2>5. TrapOwed'
    BY <2>1, <2>2, <2>4 DEF TrapOwed
  <2>6. DisplacedAt'
    <3>1. /\ rip[pend.tid] = pend.address
          /\ bp[pend.address].id # 0 /\ ~bp[pend.address].installed
      BY <2>1 DEF ServiceInv, DisplacedAt
    <3>2. \A t \in Tid : Active(t)' => t = cur /\ kst'[t] = "step"
      BY <2>2, <2>3 DEF Active
    <3>. QED
      BY <2>1, <3>1, <3>2 DEF DisplacedAt, Over
  <2>7. cur \notin pthr
    BY <2>1, <2>2 DEF ServiceInv, NewThreads, Going
  <2>8. NewThreads'
    BY <1>0, <2>1, <2>2, <2>3, <2>7, SMT DEF ServiceInv, NewThreads, Going, Active, TypeOK
  <2>. QED
    BY <2>1, <2>5, <2>6, <2>8 DEF ServiceInv, ContinueOnly
<1>7. CASE MotionFails \/ detach
  <2>1. call = "idle" /\ call' \in {"threw", "detached"} /\ UNCHANGED <<kst, owed>>
    BY <1>7 DEF MotionFails, detach, Idle, Throw, kernelVars
  <2>. QED
    BY <1>0, <2>1, SessionEnds
<1>8. CASE destroy
  <2>1. /\ call' = "gone" /\ UNCHANGED owed
        /\ kst' = IF origin = "Attached" THEN kst ELSE [t \in Tid |-> "none"]
    BY <1>8 DEF destroy
  <2>2. \A t \in Tid : kst'[t] \in {kst[t], "none"}
    BY <2>1
  <2>. QED
    BY <1>0, <2>1, <2>2, SessionEnds
<1>9. ~single_step
  BY DEF single_step, Resume
<1>. QED
  BY <1>1, <1>2, <1>3, <1>4, <1>5, <1>6, <1>7, <1>8, <1>9 DEF User

\* What holds when the wait status of thread t is collected.
LEMMA ReportFacts ==
  ASSUME "child_first" \notin Races, Base, ServiceInv, NEW t \in Tid, Waiting, kev[t].kind # "none"
  PROVE  /\ \A u \in Tid : ~Active(u)
         /\ \A u \in Tid : u # t => kev[u].kind # "trap" /\ owed[u] = FALSE
<1>0. TypeOK /\ ControlInv /\ CloneFirst
  BY DEF Base, IInv, RegistryInv, Births
<1>1. \A u \in Tid : ~Active(u)
  <2>1. CASE kev[t].kind # "clone"
    BY <1>0, <2>1 DEF ControlInv, QuietMove, Active
  <2>2. CASE kev[t].kind = "clone"
    <3>1. kev[t].val \in Tid /\ kst[kev[t].val] = "born"
      BY <1>0, <2>2 DEF TypeOK, CloneFirst
    <3>. QED
      BY <1>0, <3>1 DEF ControlInv, OneMover, Moving, Active
  <2>. QED
    BY <2>1, <2>2
<1>2. \A u \in Tid : u # t => kev[u].kind # "trap"
  <2>. SUFFICES ASSUME NEW u \in Tid, u # t, kev[u].kind = "trap" PROVE FALSE
    OBVIOUS
  <2>1. kst[u] = "stop"
    BY <1>0 DEF ControlInv, EventsOfStopped
  <2>2. kev[t].kind = "clone"
    BY <1>0, <2>1 DEF ControlInv, LoneReport
  <2>3. kev[t].val \in Tid /\ kst[kev[t].val] = "born"
    BY <1>0, <2>2 DEF TypeOK, CloneFirst
  <2>. QED
    BY <1>0, <2>3 DEF ControlInv, QuietMove
<1>3. \A u \in Tid : owed[u] \in BOOLEAN
  BY <1>0 DEF TypeOK
<1>. QED
  BY <1>1, <1>2, <1>3 DEF ServiceInv, TrapOwed

\* A thread that is owed a rewind is reported at its breakpoint, and only such
\* a thread is.
LEMMA OwedIsBreakpoint ==
  ASSUME Base, ServiceInv, NEW t \in Tid, Waiting, kev[t].kind \in {"sig", "trap"}
  PROVE  /\ owed[t] <=> Reason(t) = "Breakpoint"
         /\ owed[t] => trap_address(t) \in Addr /\ bp[trap_address(t)].id # 0
<1>0. TypeOK /\ TableOK /\ Going
  BY DEF Base, IInv, Going, Waiting
<1>1. kev[t].kind = "trap" => t \notin pthr
  BY <1>0 DEF ServiceInv, NewThreads
<1>2. ASSUME owed[t]
      PROVE  Reason(t) = "Breakpoint" /\ trap_address(t) \in Addr /\ bp[trap_address(t)].id # 0
  <2>1. kev[t].kind = "trap" /\ call = "continue" /\ trap_address(t) \in Addr /\ bp[trap_address(t)].installed
    BY <1>2 DEF ServiceInv, TrapOwed, trap_address
  <2>2. bp[trap_address(t)].id # 0
    BY <1>0, <2>1 DEF TableOK
  <2>. QED
    BY <1>1, <2>1, <2>2 DEF Reason, BreakpointAt
<1>3. ASSUME Reason(t) = "Breakpoint" PROVE owed[t]
  <2>1. kev[t].kind = "trap" /\ call = "continue" /\ BreakpointAt(trap_address(t))
    BY <1>3 DEF Reason
  <2>. QED
    BY <2>1 DEF ServiceInv, TrapOwed, BreakpointAt, trap_address
<1>. QED
  BY <1>2, <1>3

\* A command that returns leaves no displaced step pending, and no breakpoint
\* comes or goes.
LEMMA ReturnFacts ==
  ASSUME Base, ServiceInv, Waiting, NEW ts, NEW c, Return(ts, c)
  PROVE  /\ call' \in {"idle", "threw"} /\ (call' = "idle" => pend' = NoPend)
         /\ \A a \in Addr : bp'[a].id = bp[a].id
<1>1. TypeOK /\ (Over => pend.address \in Addr)
  BY DEF Base, IInv, TableOK
<1>2. ~Over => pend = NoPend
  BY DEF Base, OwnerInv, StepOfRunner, Waiting, Over
<1>3. ASSUME Over PROVE \A a \in Addr : reinserted_bp(pend.address)[a].id = bp[a].id
  BY <1>1, <1>3, SMT DEF reinserted_bp, TypeOK, Breakpoint
<1>4. CASE ~Over
  BY <1>2, <1>4 DEF Return
<1>5. CASE Over
  BY <1>3, <1>5 DEF Return, StepOverReturns, Throw
<1>. QED
  BY <1>4, <1>5

\* A status after which nothing runs and nothing is pending.
LEMMA ServiceReturns ==
  ASSUME IInv, ServiceInv, Waiting, NEW t \in Tid,
         \A u \in Tid : owed'[u] = FALSE,
         \A u \in Tid : kst'[u] \notin {"run", "step"} /\ kev'[u].kind # "trap",
         \A u \in Tid : u # t => kst'[u] = kst[u] /\ kev'[u] = kev[u],
         pthr' \subseteq pthr \ {t},
         call' \in {"idle", "threw"}, call' = "idle" => pend' = NoPend
  PROVE  ServiceInv'
<1>1. TrapOwed'
  BY DEF TrapOwed
<1>2. DisplacedAt'
  BY DEF DisplacedAt, Over
<1>3. NewThreads'
  <2>1. pthr \subseteq Tid /\ Going
    BY DEF IInv, TypeOK, Going, Waiting
  <2>. QED
    BY <2>1 DEF ServiceInv, NewThreads, Active
<1>. QED
  BY <1>1, <1>2, <1>3 DEF ServiceInv, ContinueOnly

\* The collected statuses.
LEMMA ServiceWait ==
  ASSUME "child_first" \notin Races, Base, ServiceInv, NEW t \in Tid, wait_and_classify(t)
  PROVE  ServiceInv'
<1>0. IInv /\ TypeOK /\ ControlInv /\ TableOK /\ CloneFirst
  BY DEF Base, IInv, RegistryInv, Births
<1>1. Waiting /\ kev[t].kind # "none" /\ Going
  BY DEF wait_and_classify, WaitStop, WaitBreakpoint, WaitDisplacedStep, WaitClone, WaitExit, WaitExec,
    WaitUntracked, RecordStop, Going, Waiting
<1>2. /\ \A u \in Tid : ~Active(u)
      /\ \A u \in Tid : u # t => kev[u].kind # "trap" /\ owed[u] = FALSE
  BY <1>1, ReportFacts
<1>3. ASSUME kev' = [kev EXCEPT ![t] = NoEvent]
      PROVE  \A u \in Tid : IF u = t THEN kev'[u].kind = "none" ELSE kev'[u] = kev[u]
  BY <1>0, <1>3 DEF TypeOK, NoEvent
<1>4. CASE WaitStop(t)
  <2>1. /\ kev[t].kind \in {"sig", "trap"} /\ Reason(t) # "Breakpoint" /\ UNCHANGED <<kst, rip, owed>>
        /\ kev' = [kev EXCEPT ![t] = NoEvent] /\ pthr' = pthr \ {t} /\ Return(tasks', t)
    BY <1>4 DEF WaitStop, RecordStop
  <2>2. \A u \in Tid : owed[u] = FALSE
    BY <1>0, <1>1, <1>2, <2>1, OwedIsBreakpoint, SMT DEF TypeOK
  <2>3. call' \in {"idle", "threw"} /\ (call' = "idle" => pend' = NoPend)
    BY <1>1, <2>1, ReturnFacts
  <2>4. \A u \in Tid : kst'[u] \notin {"run", "step"} /\ kev'[u].kind # "trap"
    BY <1>2, <1>3, <2>1 DEF Active
  <2>5. \A u \in Tid : u # t => kst'[u] = kst[u] /\ kev'[u] = kev[u]
    BY <1>3, <2>1
  <2>. QED
    BY <1>0, <1>1, <2>1, <2>2, <2>3, <2>4, <2>5, ServiceReturns
<1>5. CASE WaitBreakpoint(t)
  <2>. DEFINE a == trap_address(t)
  <2>1. /\ kev[t].kind \in {"sig", "trap"} /\ Reason(t) = "Breakpoint" /\ UNCHANGED kst
        /\ kev' = [kev EXCEPT ![t] = NoEvent] /\ pthr' = pthr \ {t}
        /\ rip' = [rip EXCEPT ![t] = @ - 1] /\ owed' = [owed EXCEPT ![t] = FALSE]
        /\ bp' = [bp EXCEPT ![a].installed = FALSE]
        /\ pend' = [address |-> a, tid |-> t] /\ call' = "idle"
    BY <1>5 DEF WaitBreakpoint, RecordStop, rewound
  <2>2. a \in Addr /\ bp[a].id # 0
    BY <1>1, <2>1, OwedIsBreakpoint
  <2>3. rip'[t] = a /\ bp'[a].id # 0 /\ ~bp'[a].installed
    BY <1>0, <2>1, <2>2, SMT DEF TypeOK, trap_address, Breakpoint
  <2>. HIDE DEF a
  <2>4. \A u \in Tid : owed'[u] = FALSE
    BY <1>0, <1>2, <2>1 DEF TypeOK
  <2>5. TrapOwed'
    BY <1>0, <2>1, <2>4 DEF TrapOwed
  <2>6. DisplacedAt'
    BY <1>2, <2>1, <2>3, SMT DEF DisplacedAt, Over, Active
  <2>7. NewThreads'
    BY <1>0, <1>1, <1>3, <2>1 DEF ServiceInv, NewThreads, Going, Active, TypeOK
  <2>. QED
    BY <2>1, <2>5, <2>6, <2>7 DEF ServiceInv, ContinueOnly
<1>6. CASE WaitDisplacedStep(t)
  <2>1. /\ call = "over_continue" /\ UNCHANGED <<rip, owed>> /\ kst' = [kst EXCEPT ![t] = "run"]
        /\ kev' = [kev EXCEPT ![t] = NoEvent] /\ pthr' = pthr \ {t} /\ pend' = NoPend
        /\ call' = "continue"
    BY <1>6 DEF WaitDisplacedStep, RecordStop
  <2>2. \A u \in Tid : owed[u] = FALSE
    BY <1>0, <2>1 DEF ServiceInv, TrapOwed, TypeOK
  <2>3. \A u \in Tid : kst'[u] = IF u = t THEN "run" ELSE kst[u]
    BY <1>0, <2>1 DEF TypeOK
  <2>4. \A u \in Tid : kev'[u].kind # "trap"
    BY <1>2, <1>3, <2>1
  <2>5. TrapOwed'
    BY <2>1, <2>2, <2>4 DEF TrapOwed
  <2>6. DisplacedAt'
    BY <1>2, <2>1, <2>3, SMT DEF DisplacedAt, Over, Active
  <2>7. NewThreads'
    BY <1>0, <1>1, <1>3, <2>1, <2>3, SMT DEF ServiceInv, NewThreads, Going, Active, TypeOK
  <2>. QED
    BY <2>1, <2>5, <2>6, <2>7 DEF ServiceInv, ContinueOnly
<1>7. CASE WaitClone(t)
  <2>. DEFINE u == kev[t].val
  <2>1. /\ kev[t].kind = "clone" /\ UNCHANGED <<kst, rip, owed, bp, pend, call>>
        /\ kev' = [kev EXCEPT ![t] = NoEvent] /\ pthr' = pthr \cup {u}
    BY <1>7 DEF WaitClone, breakVars
  <2>2. u \in Tid /\ kst[u] = "born"
    BY <1>0, <2>1 DEF TypeOK, CloneFirst
  <2>3. kst[t] = "stop" /\ kev[u].kind # "trap"
    BY <1>0, <2>1, <2>2 DEF ControlInv, EventsOfStopped
  <2>. HIDE DEF u
  <2>4. TrapOwed'
    BY <1>3, <2>1 DEF ServiceInv, TrapOwed
  <2>5. DisplacedAt'
    BY <2>1 DEF ServiceInv, DisplacedAt, Over, Active
  <2>6. NewThreads'
    <3>1. t \notin pthr /\ t # u
      BY <1>1, <2>1, <2>2, <2>3 DEF ServiceInv, NewThreads
    <3>. QED
      BY <1>0, <1>1, <1>3, <2>1, <2>2, <2>3, <3>1, SMT DEF ServiceInv, NewThreads, Going, Active, TypeOK
  <2>. QED
    BY <2>1, <2>4, <2>5, <2>6 DEF ServiceInv, ContinueOnly
<1>8. CASE WaitExit(t)
  <2>. DEFINE ts == [tasks EXCEPT ![t] = "none"]
  <2>1. /\ kev[t].kind \in {"exit", "killed"} /\ UNCHANGED <<rip, owed>>
        /\ kst' = [kst EXCEPT ![t] = "none"] /\ kev' = [kev EXCEPT ![t] = NoEvent] /\ pthr' = pthr \ {t}
        /\ \/ pend' = NoPend /\ call' = "idle"
           \/ Return(ts, select_current_task(ts))
           \/ UNCHANGED <<bp, pend, call>>
    BY <1>8 DEF WaitExit
  <2>. HIDE DEF ts
  <2>2. \A u \in Tid : owed[u] = FALSE
    BY <1>0, <1>2, <2>1 DEF ServiceInv, TrapOwed, TypeOK
  <2>3. \A u \in Tid : kst'[u] = IF u = t THEN "none" ELSE kst[u]
    BY <1>0, <2>1 DEF TypeOK
  <2>4. \A u \in Tid : kst'[u] \notin {"run", "step"} /\ kev'[u].kind # "trap"
    BY <1>2, <1>3, <2>1, <2>3 DEF Active
  <2>5. \A u \in Tid : u # t => kst'[u] = kst[u] /\ kev'[u] = kev[u]
    BY <1>3, <2>1, <2>3
  <2>6. CASE call' \in {"idle", "threw"} /\ (call' = "idle" => pend' = NoPend)
    BY <1>0, <1>1, <2>1, <2>2, <2>4, <2>5, <2>6, ServiceReturns
  <2>7. CASE UNCHANGED <<bp, pend, call>>
    <3>1. TrapOwed'
      BY <2>1, <2>2, <2>4 DEF TrapOwed
    <3>2. DisplacedAt'
      BY <1>1, <2>4, <2>7 DEF ServiceInv, DisplacedAt, Over, Active, Waiting
    <3>3. NewThreads'
      BY <1>0, <1>1, <2>1, <2>4, <2>5 DEF ServiceInv, NewThreads, Active, TypeOK
    <3>. QED
      BY <2>7, <3>1, <3>2, <3>3 DEF ServiceInv, ContinueOnly
  <2>. QED
    BY <1>1, <2>1, <2>6, <2>7, ReturnFacts
<1>9. CASE WaitExec(t)
  <2>1. /\ kev[t].kind = "exec" /\ UNCHANGED <<kst, rip, owed>> /\ kev' = [kev EXCEPT ![t] = NoEvent]
        /\ pend' = NoPend /\ pthr' = {} /\ call' = "idle"
    BY <1>9 DEF WaitExec
  <2>2. \A u \in Tid : owed[u] = FALSE
    BY <1>0, <1>2, <2>1 DEF ServiceInv, TrapOwed, TypeOK
  <2>4. \A u \in Tid : kst'[u] \notin {"run", "step"} /\ kev'[u].kind # "trap"
    BY <1>2, <1>3, <2>1 DEF Active
  <2>5. \A u \in Tid : u # t => kst'[u] = kst[u] /\ kev'[u] = kev[u]
    BY <1>3, <2>1
  <2>. QED
    BY <1>0, <1>1, <2>1, <2>2, <2>4, <2>5, ServiceReturns
<1>10. CASE WaitUntracked(t)
  <2>1. /\ kev[t].kind \in {"exit", "killed"} /\ UNCHANGED <<rip, owed>> /\ call' = "threw"
        /\ kst' = [kst EXCEPT ![t] = "none"]
    BY <1>10 DEF WaitUntracked, Throw
  <2>2. \A u \in Tid : owed[u] = FALSE
    BY <1>0, <1>2, <2>1 DEF ServiceInv, TrapOwed, TypeOK
  <2>3. \A u \in Tid : kst'[u] \notin {"run", "step"}
    BY <1>0, <1>2, <2>1 DEF TypeOK, Active
  <2>. QED
    BY <2>1, <2>2, <2>3 DEF ServiceInv, TrapOwed, DisplacedAt, NewThreads, ContinueOnly, Going, Over, Active
<1>. QED
  BY <1>4, <1>5, <1>6, <1>7, <1>8, <1>9, <1>10 DEF wait_and_classify

-----------------------------------------------------------------------------
(* Every step is a step of the service, or none.                           *)

\* Reporting a breakpoint to the user is a step of the service.
LEMMA TellMaps ==
  ASSUME NEW t \in Tid, Pc[t] \in Breaks, ToldSet' = ToldSet \cup {t}, UNCHANGED <<prog, Breaks, Pc>>
  PROVE  Service!Next
<1>1. Service!Tell(t)
  BY DEF Service!Tell, Pc, ToldSet, Breaks
<1>. QED
  BY <1>1 DEF Service!Next

\* So is add_breakpoint, whose INT3 the program does not see.
LEMMA SetMaps ==
  ASSUME NEW a \in Addr, Breaks' = Breaks \cup {a}, UNCHANGED <<prog, Pc, ToldSet>>
  PROVE  Service!Next
<1>1. Service!SetBreak(a)
  BY DEF Service!SetBreak, Pc, ToldSet, Breaks
<1>. QED
  BY <1>1 DEF Service!Next, Service!Addr, Addr

\* So is remove_breakpoint, which takes the report back as well.
LEMMA ClearMaps ==
  ASSUME NEW a \in Addr, Breaks' = Breaks \ {a}, ToldSet' = {t \in ToldSet : Pc[t] # a},
         UNCHANGED <<prog, Pc>>
  PROVE  Service!Next
<1>1. Service!ClearBreak(a)
  BY DEF Service!ClearBreak, Pc, ToldSet, Breaks
<1>. QED
  BY <1>1 DEF Service!Next, Service!Addr, Addr

\* So is write_memory, which a reported breakpoint's byte is out of reach of.
LEMMA WriteMaps ==
  ASSUME prog' \in [Addr -> Byte], \A t \in ToldSet : prog'[Pc[t]] = prog[Pc[t]],
         UNCHANGED <<Breaks, Pc, ToldSet>>
  PROVE  Service!Next
<1>1. Service!Write
  BY DEF Service!Write, Service!Addr, Addr, Pc, ToldSet, Breaks
<1>. QED
  BY <1>1 DEF Service!Next

\* So is a collected exec stop: a new program, without breakpoints.
LEMMA ImageMaps ==
  ASSUME prog' \in [Addr -> Byte], Breaks' = {}, ToldSet' = {}, Pc' = [t \in Tid |-> 0]
  PROVE  Service!Next
<1>1. Service!NewImage
  BY DEF Service!NewImage, Service!Addr, Addr, Pc, ToldSet, Breaks
<1>. QED
  BY <1>1 DEF Service!Next

\* So is the end of the session, which takes every breakpoint away.
LEMMA LeaveMaps ==
  ASSUME Breaks' = {}, ToldSet' = {}, UNCHANGED <<prog, Pc>>
  PROVE  Service!Next
<1>1. Service!Leave
  BY DEF Service!Leave, Pc, ToldSet, Breaks
<1>. QED
  BY <1>1 DEF Service!Next

\* Without a displaced step the user was told of no thread.
LEMMA NothingTold ==
  ASSUME pend = NoPend
  PROVE  \A t \in Tid : ~Told(t)
BY TidAssumption DEF Told, NoPend, NoTid

\* A session starts as a service does.
LEMMA InitMaps == Init => Service!Init
<1>. SUFFICES ASSUME Init PROVE Service!Init
  OBVIOUS
<1>1. prog \in [Addr -> Byte] /\ Breaks = {}
  BY ConstantAssumption DEF Init, Breaks, NoBreak
<1>2. Pc \in [Tid -> 0 .. CodeSize]
  BY DEF Init, Pc, ProgramCounter
<1>3. ToldSet = {}
  BY NothingTold DEF Init, ToldSet
<1>. QED
  BY <1>1, <1>2, <1>3 DEF Service!Init, Service!Addr, Addr, Breaks, Pc, ToldSet

\* While thread t runs it is where the program has it, and the user was told
\* if there is a breakpoint.
LEMMA RunnerMaps ==
  ASSUME Base, ServiceInv, NEW t \in Tid, Active(t), rip[t] \in Addr, ~bp[rip[t]].installed
  PROVE  rip[t] \in Breaks => t \in ToldSet
<1>. SUFFICES ASSUME rip[t] \in Breaks PROVE t \in ToldSet
  OBVIOUS
<1>0. IInv /\ TrapOwed
  BY DEF Base, ServiceInv
<1>1. Waiting /\ owed[t] = FALSE /\ bp[rip[t]].id # 0
  BY <1>0, RunnerFacts DEF Breaks
<1>2. pend.address = rip[t]
  <2>1. t \in Present /\ call # "threw"
    BY <1>1 DEF Present, Active, Waiting
  <2>. QED
    BY <1>1, <2>1 DEF Base, OwnerInv, LiftedPending
<1>3. Over
  <2>1. pend # NoPend
    BY <1>2, AddrFacts, SMT DEF NoPend
  <2>. QED
    BY <1>1, <2>1 DEF Base, OwnerInv, StepOfRunner, Waiting, Over
<1>4. kst[t] = "step" /\ pend.tid = t
  BY <1>3 DEF ServiceInv, DisplacedAt
<1>. QED
  BY <1>1, <1>2, <1>4 DEF ToldSet, Told, ProgramCounter

\* No breakpoint comes or goes.
LEMMA BreaksKept ==
  ASSUME \A a \in Addr : bp'[a].id = bp[a].id, ImageCurrent' <=> ImageCurrent
  PROVE  UNCHANGED Breaks
BY DEF Breaks

\* No thread moves in the program.
LEMMA PcKept ==
  ASSUME UNCHANGED rip, \A u \in Tid : owed'[u] = owed[u]
  PROVE  UNCHANGED Pc
BY DEF Pc, ProgramCounter

\* While thread t runs the user was told of no other thread.
LEMMA RunnerTold ==
  ASSUME Base, ServiceInv, NEW t \in Tid, Active(t)
  PROVE  ToldSet \subseteq {t}
<1>1. Waiting /\ \A u \in Tid : Active(u) => u = t
  BY RunnerFacts DEF Base, ServiceInv
<1>. QED
  BY <1>1 DEF ToldSet, Told, Waiting, Active

\* An instruction is run, or the debugger's INT3 in its place.
LEMMA ExecuteMaps ==
  ASSUME Base, ServiceInv, NEW t \in Tid, Execute(t)
  PROVE  [Service!Next]_Service!vars
<1>0. IInv /\ TypeOK /\ TrapOwed /\ PatchDiscipline
  BY DEF Base, IInv, ServiceInv
<1>1. Active(t) /\ Traced /\ rip[t] \in Addr /\ UNCHANGED <<mem, prog, bp, pend, call>>
  BY DEF Execute
<1>2. /\ Waiting /\ ImageCurrent
      /\ \A u \in Tid : kev[u].kind \in {"none", "clone"} /\ owed[u] = FALSE
      /\ \A u \in Tid : Active(u) => u = t
  BY <1>0, <1>1, RunnerFacts
<1>3. mem[rip[t]] = IF bp[rip[t]].installed THEN INT3 ELSE prog[rip[t]]
  BY <1>0, <1>1, <1>2 DEF PatchDiscipline
<1>4. UNCHANGED Breaks
  <2>1. \A u \in Tid : kev'[u].kind # "exec"
    BY <1>0, <1>2, SMT DEF Execute, TypeOK, Event
  <2>. QED
    BY <1>1, <1>2, <2>1, BreaksKept DEF ImageCurrent
<1>5. Pc[t] = rip[t] /\ \A u \in Tid : Pc[u] = rip[u]
  BY <1>2 DEF Pc, ProgramCounter
<1>6. \A u \in Tid : ~Told(u)'
  <2>1. \A u \in Tid : kst'[u] # "step"
    BY <1>0, <1>2 DEF Execute, TypeOK, Active
  <2>2. call' # "idle"
    BY <1>1, <1>2 DEF Waiting
  <2>. QED
    BY <2>1, <2>2 DEF Told
<1>7. ToldSet' = ToldSet \ {t, t}
  BY <1>1, <1>6, RunnerTold DEF ToldSet
<1>8. rip[t] \in Nat /\ rip[t] + 1 \in 0 .. CodeSize
  BY <1>1, AddrFacts, SMT DEF Addr
<1>9. CASE bp[rip[t]].installed
  <2>1. rip' = [rip EXCEPT ![t] = @ + 1] /\ owed' = [owed EXCEPT ![t] = bp[rip[t]].installed]
    BY <1>3, <1>9 DEF Execute
  <2>2. /\ rip'[t] = rip[t] + 1 /\ owed'[t]
        /\ \A u \in Tid : u # t => rip'[u] = rip[u] /\ owed'[u] = owed[u]
    BY <1>0, <1>9, <2>1 DEF TypeOK
  <2>3. \A u \in Tid : ProgramCounter(u)' = rip[u]
    BY <1>2, <1>8, <2>2, SMT DEF ProgramCounter
  <2>4. UNCHANGED Pc
    BY <1>2, <2>3 DEF Pc, ProgramCounter
  <2>. QED
    BY <1>1, <1>4, <1>6, <2>4, RetractMaps
<1>10. ASSUME ~bp[rip[t]].installed, NEW next \in 0 .. CodeSize, rip' = [rip EXCEPT ![t] = next],
              prog[rip[t]] = INT3 => next = rip[t] + 1, \A u \in Tid : owed'[u] = FALSE
       PROVE  Service!Next
  <2>1. \A u \in Tid : rip'[u] = IF u = t THEN next ELSE rip[u]
    BY <1>0, <1>10 DEF TypeOK
  <2>2. \A u \in Tid : ProgramCounter(u)' = IF u = t THEN next ELSE rip[u]
    BY <1>10, <2>1 DEF ProgramCounter
  <2>3. Pc' = [Pc EXCEPT ![t] = next, ![t] = next]
    BY <1>2, <2>2 DEF Pc, ProgramCounter
  <2>4. rip[t] \in Breaks => t \in ToldSet
    BY <1>1, <1>10, RunnerMaps
  <2>. QED
    BY <1>1, <1>4, <1>5, <1>7, <1>10, <2>3, <2>4, RunMaps
<1>11. CASE ~bp[rip[t]].installed
  <2>1. CASE mem[rip[t]] = INT3
    <3>1. rip' = [rip EXCEPT ![t] = rip[t] + 1] /\ owed' = [owed EXCEPT ![t] = bp[rip[t]].installed]
      BY <2>1 DEF Execute
    <3>2. \A u \in Tid : owed'[u] = FALSE
      <4>1. bp[rip[t]].installed \in BOOLEAN
        BY <1>0, <1>1 DEF TypeOK, Breakpoint
      <4>. QED
        BY <1>0, <1>2, <1>11, <3>1, <4>1 DEF TypeOK
    <3>. QED
      BY <1>8, <1>10, <1>11, <3>1, <3>2
  <2>2. CASE mem[rip[t]] # INT3
    <3>1. PICK next \in 0 .. CodeSize : rip' = [rip EXCEPT ![t] = next]
      BY <2>2 DEF Execute
    <3>2. UNCHANGED owed
      BY <2>2 DEF Execute
    <3>3. prog[rip[t]] # INT3 /\ \A u \in Tid : owed'[u] = FALSE
      BY <1>2, <1>3, <1>11, <2>2, <3>2
    <3>. QED
      BY <1>10, <1>11, <3>1, <3>3
  <2>. QED
    BY <2>1, <2>2
<1>. QED
  BY <1>9, <1>11

\* A new thread starts where its creator goes on.
LEMMA CloneMaps ==
  ASSUME Base, ServiceInv, NEW t \in Tid, NEW u \in Tid, Clone(t, u)
  PROVE  [Service!Next]_Service!vars
<1>0. IInv /\ TypeOK /\ TrapOwed /\ PatchDiscipline
  BY DEF Base, IInv, ServiceInv
<1>1. /\ Active(t) /\ Traced /\ kst[u] = "none" /\ rip[t] \in Addr /\ mem[rip[t]] # INT3
      /\ kst' = [kst EXCEPT ![t] = "stop", ![u] = "born"] /\ kev' = [kev EXCEPT ![t] = Event("clone", u)]
      /\ UNCHANGED <<prog, bp, pend, call, owed>>
  BY DEF Clone
<1>2. /\ Waiting /\ ImageCurrent
      /\ \A x \in Tid : kev[x].kind \in {"none", "clone"} /\ owed[x] = FALSE
      /\ \A x \in Tid : Active(x) => x = t
  BY <1>0, <1>1, RunnerFacts
<1>3. ~bp[rip[t]].installed /\ prog[rip[t]] # INT3
  BY <1>0, <1>1, <1>2 DEF PatchDiscipline
<1>4. UNCHANGED Breaks
  <2>1. \A x \in Tid : kev'[x].kind # "exec"
    BY <1>0, <1>1, <1>2 DEF TypeOK, Event
  <2>. QED
    BY <1>1, <1>2, <2>1, BreaksKept DEF ImageCurrent
<1>5. Pc[t] = rip[t] /\ \A x \in Tid : Pc[x] = rip[x]
  BY <1>2 DEF Pc, ProgramCounter
<1>6. \A x \in Tid : ~Told(x)'
  <2>1. \A x \in Tid : kst'[x] # "step"
    BY <1>0, <1>1, <1>2 DEF TypeOK, Active
  <2>2. call' # "idle"
    BY <1>1, <1>2 DEF Waiting
  <2>. QED
    BY <2>1, <2>2 DEF Told
<1>7. ToldSet' = ToldSet \ {t, u}
  BY <1>1, <1>6, RunnerTold DEF ToldSet
<1>8. PICK next \in 0 .. CodeSize : rip' = [rip EXCEPT ![t] = next, ![u] = next]
  BY DEF Clone
<1>9. \A x \in Tid : ProgramCounter(x)' = IF x = t \/ x = u THEN next ELSE rip[x]
  BY <1>0, <1>1, <1>2, <1>8 DEF TypeOK, ProgramCounter
<1>10. Pc' = [Pc EXCEPT ![t] = next, ![u] = next]
  BY <1>2, <1>9 DEF Pc, ProgramCounter
<1>11. rip[t] \in Breaks => t \in ToldSet
  BY <1>1, <1>3, RunnerMaps
<1>. QED
  BY <1>1, <1>3, <1>4, <1>5, <1>7, <1>10, <1>11, RunMaps

\* A thread stops, starts or dies: the program does not move.
LEMMA HaltMaps ==
  ASSUME Base, ServiceInv, UNCHANGED <<rip, prog, bp, call>>, Waiting,
         \A u \in Tid : kst'[u] # "step" /\ kev'[u].kind # "exec" /\ owed[u] = FALSE /\ owed'[u] = FALSE,
         ImageCurrent
  PROVE  [Service!Next]_Service!vars
<1>1. UNCHANGED Breaks
  BY BreaksKept DEF ImageCurrent
<1>2. UNCHANGED Pc
  BY PcKept
<1>3. \A u \in Tid : ~Told(u)'
  BY DEF Told, Waiting
<1>. QED
  BY <1>1, <1>2, <1>3, RetractMaps

\* The steps of the kernel.
LEMMA KernelMaps ==
  ASSUME Base, ServiceInv, Kernel
  PROVE  [Service!Next]_Service!vars
<1>0. IInv /\ TypeOK /\ ControlInv /\ TrapOwed
  BY DEF Base, IInv, ServiceInv
<1>1. ASSUME NEW t \in Tid, kst[t] \in {"born", "run", "step"}
      PROVE  /\ Waiting /\ ImageCurrent
             /\ \A u \in Tid : kev[u].kind \in {"none", "clone"} /\ owed[u] = FALSE
             /\ \A u \in Tid : u # t => kst[u] # "step"
  <2>1. \A u \in Tid : owed[u] = FALSE
    BY <1>0, <1>1, MoverOwesNone
  <2>2. /\ Waiting /\ ImageCurrent
        /\ \A u \in Tid : kev[u].kind \in {"none", "clone"}
        /\ \A u \in Tid : Moving(u) => u = t
    BY <1>0, <1>1, MoverFacts
  <2>. QED
    BY <2>1, <2>2 DEF Moving
<1>2. ASSUME NEW t \in Tid, TakeSignal(t) \/ Start(t) PROVE [Service!Next]_Service!vars
  <2>1. /\ kst[t] \in {"born", "run", "step"} /\ UNCHANGED <<rip, prog, bp, call, owed>>
        /\ kst' = [kst EXCEPT ![t] = "stop"]
        /\ \E s \in Signal \cup {SIGSTOP} : kev' = [kev EXCEPT ![t] = Event("sig", s)]
    BY <1>2 DEF TakeSignal, Start, Active
  <2>2. /\ Waiting /\ ImageCurrent
        /\ \A u \in Tid : kev[u].kind \in {"none", "clone"} /\ owed[u] = FALSE
        /\ \A u \in Tid : u # t => kst[u] # "step"
    BY <1>1, <2>1
  <2>3. \A u \in Tid : kst'[u] # "step"
    BY <1>0, <2>1, <2>2 DEF TypeOK
  <2>4. \A u \in Tid : kev'[u].kind # "exec"
    BY <1>0, <2>1, <2>2, SMT DEF TypeOK, Event
  <2>. QED
    BY <2>1, <2>2, <2>3, <2>4, HaltMaps
<1>3. ASSUME NEW t \in Tid, Die(t) PROVE [Service!Next]_Service!vars
  <2>1. /\ kst[t] \in {"born", "run", "step"} /\ UNCHANGED <<rip, prog, bp, call>>
        /\ kst' = [kst EXCEPT ![t] = "dead"] /\ owed' = [owed EXCEPT ![t] = FALSE]
        /\ \E k \in {"exit", "killed"} :
             kev' = IF t = Leader THEN kev ELSE [kev EXCEPT ![t] = Event(k, 0)]
    BY <1>3 DEF Die, Active
  <2>2. /\ Waiting /\ ImageCurrent
        /\ \A u \in Tid : kev[u].kind \in {"none", "clone"} /\ owed[u] = FALSE
        /\ \A u \in Tid : u # t => kst[u] # "step"
    BY <1>1, <2>1
  <2>3. \A u \in Tid : kst'[u] # "step" /\ owed'[u] = FALSE
    BY <1>0, <2>1, <2>2 DEF TypeOK
  <2>4. \A u \in Tid : kev'[u].kind # "exec"
    BY <1>0, <2>1, <2>2, SMT DEF TypeOK, Event
  <2>. QED
    BY <2>1, <2>2, <2>3, <2>4, HaltMaps
<1>4. ASSUME NEW t \in Tid, DieTogether(t) PROVE [Service!Next]_Service!vars
  <2>1. /\ kst[t] \in {"born", "run", "step"} /\ UNCHANGED <<rip, prog, bp, call>>
        /\ kst' = [u \in Tid |-> IF kst[u] = "none" THEN "none" ELSE "dead"]
        /\ owed' = [u \in Tid |-> FALSE]
        /\ \E k \in {"exit", "killed"} :
             kev' = [u \in Tid |-> IF u = Leader THEN NoEvent
                                   ELSE IF u \in Live THEN Event(k, 0) ELSE kev[u]]
    BY <1>4 DEF DieTogether, Active
  <2>2. /\ Waiting /\ ImageCurrent
        /\ \A u \in Tid : kev[u].kind \in {"none", "clone"} /\ owed[u] = FALSE
        /\ \A u \in Tid : u # t => kst[u] # "step"
    BY <1>1, <2>1
  <2>3. \A u \in Tid : kst'[u] # "step" /\ owed'[u] = FALSE
    BY <2>1
  <2>4. \A u \in Tid : kev'[u].kind # "exec"
    BY <2>1, <2>2, SMT DEF Event, NoEvent
  <2>. QED
    BY <2>1, <2>2, <2>3, <2>4, HaltMaps
<1>5. ASSUME NEW t \in Tid, BeginExec(t) PROVE [Service!Next]_Service!vars
  <2>1. /\ kst[t] \in {"born", "run", "step"} /\ UNCHANGED <<rip, prog, bp, call>>
        /\ kst' = [u \in Tid |-> IF u = t THEN "exec"
                                 ELSE IF kst[u] = "none" \/ u = Leader THEN "none" ELSE "dead"]
        /\ kev' = [u \in Tid |-> IF u # t /\ u # Leader /\ u \in Live THEN Event("exit", 0)
                                 ELSE IF u = Leader THEN NoEvent ELSE kev[u]]
        /\ owed' = [u \in Tid |-> FALSE]
    BY <1>5 DEF BeginExec, Active
  <2>2. /\ Waiting /\ ImageCurrent
        /\ \A u \in Tid : kev[u].kind \in {"none", "clone"} /\ owed[u] = FALSE
        /\ \A u \in Tid : u # t => kst[u] # "step"
    BY <1>1, <2>1
  <2>3. \A u \in Tid : kst'[u] # "step" /\ owed'[u] = FALSE
    BY <2>1
  <2>4. \A u \in Tid : kev'[u].kind # "exec"
    BY <2>1, <2>2 DEF Event, NoEvent
  <2>. QED
    BY <2>1, <2>2, <2>3, <2>4, HaltMaps
<1>6. ASSUME NEW t \in Tid, FinishExec(t) PROVE [Service!Next]_Service!vars
  <2>1. /\ kst[t] = "exec" /\ UNCHANGED <<owed, call>> /\ prog' \in Images
        /\ kst' = [u \in Tid |-> IF u = Leader THEN "stop" ELSE "none"]
        /\ kev' = [u \in Tid |-> IF u = Leader THEN Event("exec", 0) ELSE NoEvent]
        /\ rip' = [u \in Tid |-> 0]
    BY <1>6 DEF FinishExec
  <2>2. \A u \in Tid : kev[u].kind # "trap"
    BY <1>0, <2>1 DEF ControlInv, ExecAlone
  <2>3. Waiting
    BY <1>0, <2>1 DEF ControlInv, OneMover, Moving
  <2>4. prog' \in [Addr -> Byte]
    BY <2>1, ConstantAssumption
  <2>5. Breaks' = {}
    <3>1. kev'[Leader].kind = "exec" /\ Leader \in Tid
      BY <2>1, TidAssumption DEF Event
    <3>. QED
      BY <3>1 DEF Breaks, ImageCurrent
  <2>6. ToldSet' = {}
    BY <2>1, <2>3 DEF ToldSet, Told, Waiting
  <2>7. Pc' = [u \in Tid |-> 0]
    BY <1>0, <2>1, <2>2 DEF Pc, ProgramCounter, TrapOwed
  <2>. QED
    BY <2>4, <2>5, <2>6, <2>7, ImageMaps
<1>7. CASE ReportLeader
  <2>1. /\ UNCHANGED <<kst, rip, prog, bp, call, owed, pend>> /\ kev[Leader] = NoEvent /\ Leader \in Tid
        /\ \E k \in {"exit", "killed"} : kev' = [kev EXCEPT ![Leader] = Event(k, 0)]
    BY <1>7, TidAssumption DEF ReportLeader
  <2>2. \A u \in Tid : kev'[u].kind = "exec" <=> kev[u].kind = "exec"
    BY <1>0, <2>1, SMT DEF TypeOK, Event, NoEvent
  <2>3. UNCHANGED Breaks
    BY <2>1, <2>2, BreaksKept DEF ImageCurrent
  <2>4. UNCHANGED Pc /\ UNCHANGED ToldSet
    BY <2>1 DEF Pc, ToldSet, Told, ProgramCounter
  <2>. QED
    BY <2>1, <2>3, <2>4, StutterMaps
<1>. QED
  BY <1>2, <1>3, <1>4, <1>5, <1>6, <1>7, ExecuteMaps, CloneMaps DEF Kernel

\* The commands.
LEMMA UserMaps ==
  ASSUME "stepi" \notin Commands, Base, ServiceInv, TypeOK', User
  PROVE  [Service!Next]_Service!vars
<1>0. /\ IInv /\ TypeOK /\ TableOK /\ call \in {"idle", "threw"}
      /\ pend # NoPend => pend.address \in Addr /\ pend.tid \in Tid
  BY DEF Base, IInv, TableOK, User, add_breakpoint, remove_breakpoint, write_memory, select_thread,
    continue_execution, single_step, Resume, step_over_pending_breakpoint, MotionFails, detach, destroy, Idle
<1>1. /\ \A t \in Tid : owed[t] = FALSE /\ kst[t] # "step" /\ kev[t].kind # "exec"
      /\ ImageCurrent
  BY <1>0, PromptFacts DEF Active
<1>2. ASSUME UNCHANGED <<kev, rip, owed, prog>>, \A a \in Addr : bp'[a].id = bp[a].id,
             call' # "idle", \A t \in Tid : kst'[t] = kst[t]
      PROVE  [Service!Next]_Service!vars
  <2>1. UNCHANGED Breaks /\ UNCHANGED Pc
    BY <1>2, BreaksKept, PcKept DEF ImageCurrent
  <2>2. \A t \in Tid : ~Told(t)'
    BY <1>1, <1>2 DEF Told
  <2>. QED
    BY <1>2, <2>1, <2>2, RetractMaps
<1>3. ASSUME NEW a \in Addr, add_breakpoint(a) PROVE Service!Next
  <2>1. /\ UNCHANGED <<kst, kev, rip, owed, prog, call, pend>>
        /\ bp' = [bp EXCEPT ![a] = [id |-> nextId, original_byte |-> mem[a], installed |-> TRUE]]
    BY <1>3 DEF add_breakpoint, kernelVars
  <2>2. \A x \in Addr : bp'[x].id = IF x = a THEN nextId ELSE bp[x].id
    BY <1>0, <2>1 DEF TypeOK
  <2>3. Breaks' = Breaks \cup {a}
    BY <1>0, <1>1, <2>1, <2>2 DEF Breaks, ImageCurrent, TableOK
  <2>4. UNCHANGED <<Pc, ToldSet>>
    BY <2>1 DEF Pc, ToldSet, Told, ProgramCounter
  <2>. QED
    BY <2>1, <2>3, <2>4, SetMaps
<1>4. ASSUME NEW a \in Addr, remove_breakpoint(a) PROVE [Service!Next]_Service!vars
  <2>1. CASE UNCHANGED call
    <3>1. /\ UNCHANGED <<kst, kev, rip, owed, prog, call>>
          /\ pend' = IF pend.address = a THEN NoPend ELSE pend
          /\ bp' = [bp EXCEPT ![a] = NoBreak]
      BY <1>4, <2>1 DEF remove_breakpoint, Idle, Throw, kernelVars
    <3>2. \A x \in Addr : bp'[x].id = IF x = a THEN 0 ELSE bp[x].id
      BY <1>0, <3>1 DEF TypeOK, NoBreak
    <3>3. Breaks' = Breaks \ {a}
      BY <1>1, <3>1, <3>2 DEF Breaks, ImageCurrent
    <3>4. UNCHANGED Pc
      BY <3>1, PcKept
    <3>5. ToldSet' = {t \in ToldSet : Pc[t] # a}
      <4>1. \A t \in ToldSet : Pc[t] = pend.address
        BY DEF ToldSet, Told, Pc
      <4>2. CASE pend.address = a
        <5>1. \A t \in Tid : ~Told(t)'
          BY <3>1, <4>2, NothingTold, TidAssumption DEF Told, NoPend, NoTid
        <5>. QED
          BY <4>1, <4>2, <5>1 DEF ToldSet
      <4>3. CASE pend.address # a
        <5>1. ToldSet' = ToldSet
          BY <3>1, <4>3 DEF ToldSet, Told, ProgramCounter
        <5>. QED
          BY <4>1, <4>3, <5>1
      <4>. QED
        BY <4>2, <4>3
    <3>. QED
      BY <3>1, <3>3, <3>4, <3>5, ClearMaps
  <2>2. CASE Throw
    BY <1>2, <1>4, <2>2 DEF remove_breakpoint, Idle, Throw, kernelVars
  <2>. QED
    BY <1>4, <2>1, <2>2 DEF remove_breakpoint
<1>5. ASSUME NEW lo \in Addr, NEW hi \in 0 .. CodeSize, NEW w \in [lo .. hi -> Byte], write_memory(lo, hi, w)
      PROVE  Service!Next
  <2>. DEFINE range == (lo .. hi) \cap Addr
              patched == {a \in range : bp[a].id # 0}
              fails == hi \notin Addr
  <2>1. /\ UNCHANGED <<kst, kev, rip, owed, call, pend>> /\ pend.address \notin lo .. hi
        /\ bp' = [a \in Addr |-> IF a \in patched /\ ~fails
                                 THEN [bp[a] EXCEPT !.original_byte = w[a]] ELSE bp[a]]
        /\ prog' = [a \in Addr |-> IF a \in range /\ (fails => a \notin patched)
                                   THEN w[a] ELSE prog[a]]
    BY <1>5 DEF write_memory
  <2>2. \A a \in Addr : bp'[a].id = bp[a].id
    BY <1>0, <2>1, SMT DEF TypeOK, Breakpoint
  <2>3. UNCHANGED <<Breaks, Pc, ToldSet>>
    <3>1. UNCHANGED Breaks
      BY <2>1, <2>2, BreaksKept DEF ImageCurrent
    <3>. QED
      BY <2>1, <3>1 DEF Pc, ToldSet, Told, ProgramCounter
  <2>4. ASSUME NEW t \in ToldSet PROVE prog'[Pc[t]] = prog[Pc[t]]
    <3>1. t \in Tid /\ Pc[t] = pend.address /\ pend.tid = t
      BY DEF ToldSet, Told, Pc
    <3>2. pend.address \in Addr
      BY <1>0, <3>1, TidAssumption, SMT DEF NoPend, NoTid
    <3>. QED
      BY <2>1, <3>1, <3>2
  <2>5. prog' \in [Addr -> Byte]
    BY DEF TypeOK
  <2>. QED
    BY <2>3, <2>4, <2>5, WriteMaps
<1>6. ASSUME NEW t \in Tid, select_thread(t) PROVE UNCHANGED Service!vars
  <2>1. UNCHANGED <<kst, kev, rip, owed, prog, call, pend, bp>>
    BY <1>6 DEF select_thread, kernelVars, breakVars
  <2>2. UNCHANGED Breaks /\ UNCHANGED Pc
    BY <2>1, BreaksKept, PcKept DEF ImageCurrent
  <2>3. UNCHANGED ToldSet
    BY <2>1 DEF ToldSet, Told, ProgramCounter
  <2>. QED
    BY <2>1, <2>2, <2>3, StutterMaps
<1>7. CASE continue_execution
  <2>1. /\ pend' = NoPend /\ kev' = [kev EXCEPT ![cur] = NoEvent] /\ UNCHANGED <<rip, owed, bp, prog>>
    BY <1>7 DEF continue_execution, Resume, breakVars
  <2>2. \A t \in Tid : kev'[t].kind # "exec"
    BY <1>0, <1>1, <2>1, SMT DEF TypeOK, NoEvent
  <2>3. UNCHANGED Breaks /\ UNCHANGED Pc
    BY <1>1, <2>1, <2>2, BreaksKept, PcKept DEF ImageCurrent
  <2>4. \A t \in Tid : ~Told(t)'
    BY <2>1, TidAssumption DEF Told, NoPend, NoTid
  <2>. QED
    BY <2>1, <2>3, <2>4, RetractMaps
<1>8. ASSUME NEW command \in {"continue", "stepi"}, step_over_pending_breakpoint(command)
      PROVE  UNCHANGED Service!vars
  <2>1. /\ call = "idle" /\ pend.tid = cur /\ cur \in Tid
        /\ kst' = [kst EXCEPT ![cur] = "step"] /\ kev' = [kev EXCEPT ![cur] = NoEvent]
        /\ UNCHANGED <<rip, owed, bp, prog, pend>>
    BY <1>0, <1>8 DEF step_over_pending_breakpoint, Idle, stopped_tid_ok, breakVars, TypeOK
  <2>2. \A t \in Tid : kev'[t].kind # "exec"
    BY <1>0, <1>1, <2>1, SMT DEF TypeOK, NoEvent
  <2>3. UNCHANGED Breaks /\ UNCHANGED Pc
    BY <1>1, <2>1, <2>2, BreaksKept, PcKept DEF ImageCurrent
  <2>4. kst'[cur] = "step"
    BY <1>0, <2>1, SMT DEF TypeOK
  <2>5. \A t \in Tid : Told(t)' <=> Told(t)
    BY <2>1, <2>4 DEF Told, ProgramCounter
  <2>. QED
    BY <2>1, <2>3, <2>5, StutterMaps DEF ToldSet
<1>9. CASE MotionFails
  BY <1>2, <1>9 DEF MotionFails, Throw, kernelVars, breakVars
<1>10. CASE detach
  <2>1. UNCHANGED <<kst, kev, rip, owed, prog>>
    BY <1>10 DEF detach, kernelVars
  <2>2. CASE call' = "threw"
    <3>1. bp' = bp \/ bp' = restored_bp
      BY <1>10, <2>2 DEF detach
    <3>2. \A a \in Addr : bp'[a].id = bp[a].id
      BY <1>0, <3>1, SMT DEF restored_bp, TypeOK, Breakpoint
    <3>. QED
      BY <1>2, <2>1, <2>2, <3>2
  <2>3. CASE call' # "threw"
    <3>1. bp' = [a \in Addr |-> NoBreak] /\ pend' = NoPend
      BY <1>10, <2>3 DEF detach, Throw
    <3>2. Breaks' = {} /\ UNCHANGED Pc
      BY <2>1, <3>1, PcKept DEF Breaks, NoBreak
    <3>3. ToldSet' = {}
      BY <3>1, TidAssumption DEF ToldSet, Told, NoPend, NoTid
    <3>. QED
      BY <2>1, <3>2, <3>3, LeaveMaps
  <2>. QED
    BY <2>2, <2>3
<1>11. CASE destroy
  <2>1. bp' = [a \in Addr |-> NoBreak] /\ pend' = NoPend /\ UNCHANGED <<rip, prog, owed>>
    BY <1>11 DEF destroy
  <2>2. Breaks' = {} /\ UNCHANGED Pc
    BY <2>1, PcKept DEF Breaks, NoBreak
  <2>3. ToldSet' = {}
    BY <2>1, TidAssumption DEF ToldSet, Told, NoPend, NoTid
  <2>. QED
    BY <2>1, <2>2, <2>3, LeaveMaps
<1>12. ~single_step
  BY DEF single_step, Resume
<1>. QED
  BY <1>3, <1>4, <1>5, <1>6, <1>7, <1>8, <1>9, <1>10, <1>11, <1>12 DEF User

\* The collected statuses: only a breakpoint hit is seen.
LEMMA WaitMaps ==
  ASSUME "child_first" \notin Races, Base, ServiceInv, NEW t \in Tid, wait_and_classify(t)
  PROVE  [Service!Next]_Service!vars
<1>0. IInv /\ TypeOK /\ ControlInv /\ TableOK /\ LeaderLast
  BY DEF Base, IInv, OwnerInv
<1>1. Waiting /\ kev[t].kind # "none"
  BY DEF wait_and_classify, WaitStop, WaitBreakpoint, WaitDisplacedStep, WaitClone, WaitExit, WaitExec,
    WaitUntracked, RecordStop
<1>2. \A u \in Tid : kst[u] # "step"
  BY <1>1, ReportFacts DEF Active
<1>3. ASSUME kev[t].kind # "exec", kev' = [kev EXCEPT ![t] = NoEvent] PROVE ImageCurrent' <=> ImageCurrent
  <2>1. \A u \in Tid : kev'[u].kind = "exec" <=> kev[u].kind = "exec"
    BY <1>0, <1>3 DEF TypeOK, NoEvent
  <2>. QED
    BY <2>1 DEF ImageCurrent
<1>4. ASSUME kev[t].kind # "exec", kev' = [kev EXCEPT ![t] = NoEvent], UNCHANGED <<rip, owed, prog>>,
             \A a \in Addr : bp'[a].id = bp[a].id, \A u \in Tid : kst'[u] # "step",
             call' = "idle" => pend' = NoPend
      PROVE  [Service!Next]_Service!vars
  <2>1. UNCHANGED Breaks
    BY <1>3, <1>4, BreaksKept
  <2>2. UNCHANGED Pc
    BY <1>4, PcKept
  <2>3. \A u \in Tid : ~Told(u)'
    BY <1>4, TidAssumption, SMT DEF Told, NoPend, NoTid
  <2>. QED
    BY <1>4, <2>1, <2>2, <2>3, RetractMaps
<1>5. CASE WaitStop(t)
  <2>1. /\ kev[t].kind # "exec" /\ UNCHANGED <<kst, rip, owed, prog>>
        /\ kev' = [kev EXCEPT ![t] = NoEvent] /\ Return(tasks', t)
    BY <1>5 DEF WaitStop, RecordStop
  <2>. QED
    BY <1>1, <1>2, <1>4, <2>1, ReturnFacts
<1>6. CASE WaitBreakpoint(t)
  <2>. DEFINE a == trap_address(t)
  <2>1. /\ kev[t].kind \in {"sig", "trap"} /\ Reason(t) = "Breakpoint" /\ UNCHANGED <<kst, prog>>
        /\ kev' = [kev EXCEPT ![t] = NoEvent]
        /\ rip' = [rip EXCEPT ![t] = @ - 1] /\ owed' = [owed EXCEPT ![t] = FALSE]
        /\ bp' = [bp EXCEPT ![a].installed = FALSE]
        /\ pend' = [address |-> a, tid |-> t] /\ call' = "idle"
    BY <1>6 DEF WaitBreakpoint, RecordStop, rewound
  <2>2. owed[t] /\ a \in Addr /\ bp[a].id # 0
    BY <1>1, <2>1, OwedIsBreakpoint
  <2>3. /\ rip'[t] = a /\ owed'[t] = FALSE /\ a = rip[t] - 1
        /\ \A u \in Tid : u # t => rip'[u] = rip[u] /\ owed'[u] = owed[u]
    BY <1>0, <2>1 DEF TypeOK, trap_address
  <2>4. \A x \in Addr : bp'[x].id = bp[x].id
    BY <1>0, <2>1, <2>2, SMT DEF TypeOK, Breakpoint
  <2>. HIDE DEF a
  <2>5. \A u \in Tid : ProgramCounter(u)' = ProgramCounter(u)
    BY <2>2, <2>3 DEF ProgramCounter
  <2>6. UNCHANGED Pc /\ Pc[t] = a
    BY <2>2, <2>3, <2>5 DEF Pc, ProgramCounter
  <2>7. UNCHANGED Breaks
    BY <1>3, <2>1, <2>4, BreaksKept
  <2>8. ImageCurrent
    BY <1>0, <2>1, ImageIsCurrent
  <2>9. Pc[t] \in Breaks
    BY <2>2, <2>6, <2>8 DEF Breaks
  <2>10. ToldSet' = ToldSet \cup {t}
    <3>1. ToldSet = {}
      BY <1>1, <1>2 DEF ToldSet, Told, Waiting
    <3>2. \A u \in Tid : Told(u)' <=> u = t
      BY <2>1, <2>3 DEF Told, ProgramCounter
    <3>. QED
      BY <3>1, <3>2 DEF ToldSet
  <2>. QED
    BY <2>1, <2>6, <2>7, <2>9, <2>10, TellMaps
<1>7. CASE WaitDisplacedStep(t)
  <2>1. /\ call = "over_continue" /\ kev[t].kind # "exec" /\ UNCHANGED <<rip, owed, prog>>
        /\ kst' = [kst EXCEPT ![t] = "run"] /\ kev' = [kev EXCEPT ![t] = NoEvent]
        /\ bp' = reinserted_bp(pend.address) /\ pend' = NoPend
    BY <1>7 DEF WaitDisplacedStep, RecordStop
  <2>2. \A a \in Addr : bp'[a].id = bp[a].id
    BY <1>0, <2>1, SMT DEF reinserted_bp, TypeOK, Breakpoint, TableOK, Over
  <2>3. \A u \in Tid : kst'[u] # "step"
    BY <1>0, <1>2, <2>1 DEF TypeOK
  <2>. QED
    BY <1>4, <2>1, <2>2, <2>3
<1>8. CASE WaitClone(t)
  <2>1. /\ kev[t].kind = "clone" /\ UNCHANGED <<kst, rip, owed, prog, bp, pend, call>>
        /\ kev' = [kev EXCEPT ![t] = NoEvent]
    BY <1>8 DEF WaitClone, breakVars
  <2>. QED
    BY <1>1, <1>2, <1>4, <2>1 DEF Waiting
<1>9. CASE WaitExit(t)
  <2>. DEFINE ts == [tasks EXCEPT ![t] = "none"]
  <2>1. /\ kev[t].kind # "exec" /\ UNCHANGED <<rip, owed, prog>>
        /\ kst' = [kst EXCEPT ![t] = "none"] /\ kev' = [kev EXCEPT ![t] = NoEvent]
        /\ \/ pend' = NoPend /\ UNCHANGED bp
           \/ Return(ts, select_current_task(ts))
           \/ UNCHANGED <<bp, pend, call>>
    BY <1>9 DEF WaitExit
  <2>. HIDE DEF ts
  <2>2. \A u \in Tid : kst'[u] # "step"
    BY <1>0, <1>2, <2>1 DEF TypeOK
  <2>3. (\A a \in Addr : bp'[a].id = bp[a].id) /\ (call' = "idle" => pend' = NoPend)
    BY <1>1, <2>1, ReturnFacts DEF Waiting
  <2>. QED
    BY <1>4, <2>1, <2>2, <2>3
<1>10. CASE WaitExec(t)
  <2>1. /\ kev[t].kind = "exec" /\ UNCHANGED <<kst, rip, owed, prog>>
        /\ bp' = [a \in Addr |-> NoBreak] /\ pend' = NoPend
    BY <1>10 DEF WaitExec
  <2>2. Breaks = {} /\ Breaks' = {}
    BY <2>1 DEF Breaks, ImageCurrent, NoBreak
  <2>3. UNCHANGED Pc
    BY <2>1, PcKept
  <2>4. \A u \in Tid : ~Told(u)'
    BY <2>1, TidAssumption DEF Told, NoPend, NoTid
  <2>. QED
    BY <2>1, <2>2, <2>3, <2>4, RetractMaps
<1>11. CASE WaitUntracked(t)
  <2>1. /\ kev[t].kind # "exec" /\ UNCHANGED <<rip, owed, prog, bp>> /\ call' = "threw"
        /\ kst' = [kst EXCEPT ![t] = "none"] /\ kev' = [kev EXCEPT ![t] = NoEvent]
    BY <1>11 DEF WaitUntracked, Throw, breakVars
  <2>2. \A u \in Tid : kst'[u] # "step"
    BY <1>0, <1>2, <2>1 DEF TypeOK
  <2>. QED
    BY <1>4, <2>1, <2>2
<1>. QED
  BY <1>5, <1>6, <1>7, <1>8, <1>9, <1>10, <1>11 DEF wait_and_classify

\* Refinement: for any number of threads and breakpoints, the byte patching of
\* Debugger, with its INT3s, displaced steps, rewinds and exec, shows the
\* program and the user a breakpoint service.  No instruction of the program is
\* skipped, run twice or run with a breakpoint that was not reported.  The user
\* moves threads with continue (a stepi into an INT3 is not rewound), a new
\* thread's first stop is not reported before its creator's clone event, and an
\* execve takes at most one other thread with it.
THEOREM DebuggerIsService ==
  ASSUME "stepi" \notin Commands, Races \subseteq {"group_exit", "leader_exit"}
  PROVE  Spec => ImplementsService
<1>0. "child_first" \notin Races /\ "late_exec" \notin Races
  OBVIOUS
<1>1. Spec => []Base
  BY <1>0, OwnerInvariant, RegistryInvariant, PTL DEF Base
<1>2. Init => ServiceInv
  BY ServiceInit
<1>3. Base /\ ServiceInv /\ [Next]_vars => ServiceInv'
  <2>. SUFFICES ASSUME Base, ServiceInv, [Next]_vars PROVE ServiceInv'
    OBVIOUS
  <2>1. CASE UNCHANGED vars
    BY <2>1 DEF vars, ServiceInv, TrapOwed, DisplacedAt, NewThreads, ContinueOnly, Going, Over, Active
  <2>. QED
    BY <1>0, <2>1, ServiceKernel, ServiceUser, ServiceWait DEF Next
<1>4. Base /\ Base' /\ ServiceInv /\ [Next]_vars => [Service!Next]_Service!vars
  <2>. SUFFICES ASSUME Base, Base', ServiceInv, [Next]_vars PROVE [Service!Next]_Service!vars
    OBVIOUS
  <2>1. TypeOK'
    BY DEF Base, IInv
  <2>2. CASE UNCHANGED vars
    <3>1. UNCHANGED <<kst, kev, rip, owed, prog, bp, pend, call>>
      BY <2>2 DEF vars
    <3>2. UNCHANGED <<Breaks, Pc, ToldSet>>
      BY <3>1 DEF Breaks, Pc, ToldSet, Told, ProgramCounter, ImageCurrent
    <3>. QED
      BY <3>1, <3>2, StutterMaps
  <2>. QED
    BY <1>0, <2>1, <2>2, KernelMaps, UserMaps, WaitMaps DEF Next
<1>5. Init => Service!Init
  BY InitMaps
<1>. QED
  BY <1>1, <1>2, <1>3, <1>4, <1>5, PTL DEF Spec, ImplementsService, Service!Spec
=============================================================================
