------------------------------- MODULE Attach -------------------------------
(***************************************************************************)
(* Attaching to a running process: Process::attach sweeps /proc/<pid>/task *)
(* until a sweep finds no thread it has not attached, while the threads it *)
(* has not stopped yet go on creating threads and exiting; Debugger::attach*)
(* then sets the tracing options of every thread.  A step that throws ends *)
(* in Process::cleanup.                                                    *)
(***************************************************************************)
EXTENDS TaskRegistry, FiniteSets

CONSTANTS MaxPasses,  \* kMaxAttachDiscoveryPasses
          MaxTasks,   \* kMaxAttachTasks
          Races       \* what the target may do meanwhile, besides clone and exit

ASSUME AttachAssumption ==
  /\ MaxPasses \in Nat \ {0} /\ MaxTasks \in Nat \ {0}
  /\ Races \subseteq {"group_exit", "leader_exit", "signal"}

VARIABLES
  kst,     \* kernel: what each thread does; a stop is named by its signal
  traced,  \* kernel: the threads attached to the debugger
  stopq,   \* kernel: the threads with an undelivered SIGSTOP
  tasks,   \* Process::task_states_
  cur,     \* Process::current_tid_
  pstate,  \* Process::state_
  pass,    \* the sweep of Process::attach under way
  todo,    \* what is left of its list `observed`
  pc       \* where Process::attach and Debugger::attach are

target == <<kst, traced, stopq>>
process == <<tasks, cur, pstate>>
vars == <<target, process, pass, todo, pc>>

KernelState == {"absent", "running", "SIGSTOP", "signal", "zombie"}
Ended == {"attached", "failed"}

TypeOK ==
  /\ kst \in [Tid -> KernelState]
  /\ traced \subseteq Tid /\ stopq \subseteq Tid
  /\ tasks \in [Tid -> TaskState]
  /\ cur \in Tid \cup {NoTid}
  /\ pstate \in ProcessState \cup {"Detached"}
  /\ pass \in 0..MaxPasses
  /\ todo \subseteq Tid
  /\ pc \in {"scan", "attach", "wait", "option", "rescan", "options"} \cup Ended

Trapped(t) == kst[t] \in {"SIGSTOP", "signal"}
Live(t) == kst[t] = "running" \/ Trapped(t)

\* The entries of /proc/<pid>/task: a zombie stays listed until it is reaped.
thread_ids == {t \in Tid : kst[t] # "absent"}

-----------------------------------------------------------------------------
(* The target, until attach is over.                                       *)

\* A thread creates a thread.  Nothing traces the new one: a thread that runs
\* has no PTRACE_O_TRACECLONE yet.
Clone(t, u) ==
  /\ pc \notin Ended
  /\ kst[t] = "running" /\ kst[u] = "absent" /\ u # Leader
  /\ kst' = [kst EXCEPT ![u] = "running"]
  /\ UNCHANGED <<traced, stopq, process, pass, todo, pc>>

\* A thread exits.  The leader, and a traced thread, stay as zombies.
Exit(t) ==
  /\ pc \notin Ended
  /\ kst[t] = "running"
  /\ t = Leader => "leader_exit" \in Races
  /\ kst' = [kst EXCEPT ![t] = IF t = Leader \/ t \in traced THEN "zombie" ELSE "absent"]
  /\ stopq' = stopq \ {t}
  /\ UNCHANGED <<traced, process, pass, todo, pc>>

\* exit_group or SIGKILL: every thread dies, the stopped ones included.
ExitGroup ==
  /\ pc \notin Ended
  /\ "group_exit" \in Races
  /\ \E t \in Tid : Live(t)
  /\ kst' = [t \in Tid |-> IF kst[t] = "absent" THEN "absent"
                           ELSE IF t = Leader \/ t \in traced THEN "zombie" ELSE "absent"]
  /\ stopq' = {}
  /\ UNCHANGED <<traced, process, pass, todo, pc>>

\* The SIGSTOP of PTRACE_ATTACH stops the thread.
Stop(t) ==
  /\ pc \notin Ended
  /\ kst[t] = "running" /\ t \in stopq
  /\ kst' = [kst EXCEPT ![t] = "SIGSTOP"]
  /\ stopq' = stopq \ {t}
  /\ UNCHANGED <<traced, process, pass, todo, pc>>

\* Another signal stops a traced thread first; the SIGSTOP stays queued.
SignalStop(t) ==
  /\ pc \notin Ended
  /\ "signal" \in Races
  /\ kst[t] = "running" /\ t \in traced
  /\ kst' = [kst EXCEPT ![t] = "signal"]
  /\ UNCHANGED <<traced, stopq, process, pass, todo, pc>>

\* waitpid reports an exit; the leader's only once it is the last thread.
ExitReported(t) ==
  /\ kst[t] = "zombie"
  /\ t = Leader => \A u \in Tid \ {Leader} : kst[u] = "absent"

-----------------------------------------------------------------------------
(* Process::cleanup on registry ts and state ps, the last thing a step that *)
(* throws does.  K and T are the threads and the traced ones when it runs. *)

\* Mutant: only the leader is detached.
released_leader_only(ts, ps, K) ==
  {t \in StoppedTids(ts) : t = Leader /\ K[t] \in {"SIGSTOP", "signal"}}

\* The threads PTRACE_DETACH lets go: a zombie answers ESRCH.
released(ts, ps, K) ==
  IF ps = "Stopped" THEN {t \in StoppedTids(ts) : K[t] \in {"SIGSTOP", "signal"}} ELSE {}

cleanup(ts, ps, K, T) ==
  /\ kst' = [t \in Tid |-> IF t \in released(ts, ps, K) THEN "running" ELSE K[t]]
  /\ traced' = T \ released(ts, ps, K)
  /\ tasks' = [t \in Tid |-> "none"]
  /\ cur' = NoTid
  /\ pstate' = IF ps \in {"Exited", "Signaled"} THEN ps ELSE "Detached"
  /\ pc' = "failed"
  /\ UNCHANGED <<stopq, pass, todo>>

Throw == cleanup(tasks, pstate, kst, traced)

-----------------------------------------------------------------------------
(* Process::attach.                                                        *)

\* A sweep begins: list the threads; none, or too many sweeps, throws.
Scan ==
  /\ pc = "scan"
  /\ IF pass < MaxPasses /\ thread_ids # {}
     THEN /\ todo' = thread_ids
          /\ pc' = "attach"
          /\ UNCHANGED <<target, process, pass>>
     ELSE Throw

\* The next listed thread is skipped: registered already, or gone (ESRCH).
SkipThread ==
  /\ pc = "attach" /\ todo # {}
  /\ LET t == FirstOf(todo) IN
     /\ \/ tasks[t] # "none"
        \/ Cardinality(tids(tasks)) < MaxTasks /\ kst[t] = "absent"
     /\ todo' = todo \ {t}
  /\ UNCHANGED <<target, process, pass, pc>>

\* PTRACE_ATTACH queues a SIGSTOP; the thread is registered as running.
AttachThread ==
  /\ pc = "attach" /\ todo # {}
  /\ LET t == FirstOf(todo) IN
     /\ tasks[t] = "none" /\ Cardinality(tids(tasks)) < MaxTasks
     /\ kst[t] = "running"
     /\ traced' = traced \cup {t}
     /\ stopq' = stopq \cup {t}
     /\ tasks' = [tasks EXCEPT ![t] = "Running"]
  /\ pc' = "wait"
  /\ UNCHANGED <<kst, cur, pstate, pass, todo>>

\* The registry is full, or the leader is a zombie (EPERM).
RefuseThread ==
  /\ pc = "attach" /\ todo # {}
  /\ LET t == FirstOf(todo) IN
     /\ tasks[t] = "none"
     /\ Cardinality(tids(tasks)) >= MaxTasks \/ kst[t] = "zombie"
  /\ Throw

\* wait_for(tid) reports the stop: SIGSTOP goes on, another signal throws.
WaitStop ==
  /\ pc = "wait"
  /\ LET t == FirstOf(todo)
         ts == [tasks EXCEPT ![t] = "Stopped"]
     IN \/ /\ kst[t] = "SIGSTOP"
           /\ tasks' = ts /\ cur' = t /\ pstate' = "Stopped"
           /\ pc' = "option"
           /\ UNCHANGED <<target, pass, todo>>
        \/ kst[t] = "signal" /\ cleanup(ts, "Stopped", kst, traced)

\* wait_for(tid) reaps the thread and forgets it; attach throws.
WaitExit ==
  /\ pc = "wait"
  /\ LET t == FirstOf(todo)
         ts == [tasks EXCEPT ![t] = "none"]
     IN /\ ExitReported(t)
        /\ \E how \in {"Exited", "Signaled"} :
             cleanup(ts, IF tids(ts) = {} THEN how ELSE update_aggregate_state(ts),
                     [kst EXCEPT ![t] = "absent"], traced \ {t})

\* set_options(tid, PTRACE_O_TRACECLONE): ESRCH, a throw, if it has died.
SetOption ==
  /\ pc = "option"
  /\ LET t == FirstOf(todo) IN
     IF Trapped(t)
     THEN /\ todo' = todo \ {t}
          /\ pc' = "attach"
          /\ UNCHANGED <<target, process, pass>>
     ELSE Throw

EndPass ==
  /\ pc = "attach" /\ todo = {}
  /\ pc' = "rescan"
  /\ UNCHANGED <<target, process, pass, todo>>

\* Mutant: one sweep is taken to be enough.
complete_after_one_pass == thread_ids # {}

\* The second listing: `complete` when every listed thread is registered.
complete == thread_ids # {} /\ thread_ids \subseteq tids(tasks)

\* Mutant: the sweeps are not counted.
Rescan_uncounted ==
  /\ pc = "rescan"
  /\ \/ ~complete /\ pc' = "scan" /\ UNCHANGED <<target, process, pass, todo>>
     \/ complete /\ cur' = Leader /\ pstate' = "Stopped" /\ pc' = "options"
        /\ UNCHANGED <<target, tasks, pass, todo>>

\* Another sweep, or the leader made current; its two last tests throw.
Rescan ==
  /\ pc = "rescan"
  /\ \/ /\ ~complete
        /\ pass' = pass + 1
        /\ pc' = "scan"
        /\ UNCHANGED <<target, process, todo>>
     \/ /\ complete
        /\ IF tasks[Leader] # "none" /\ update_aggregate_state(tasks) = "Stopped"
           THEN /\ cur' = Leader /\ pstate' = "Stopped"
                /\ pc' = "options"
                /\ UNCHANGED <<target, tasks, pass, todo>>
           ELSE Throw

\* Debugger::attach sets the options of every thread; ESRCH unwinds Process.
SetAllOptions ==
  /\ pc = "options"
  /\ IF \A t \in tids(tasks) : Trapped(t)
     THEN pc' = "attached" /\ UNCHANGED <<target, process, pass, todo>>
     ELSE Throw

Attacher ==
  \/ Scan \/ SkipThread \/ AttachThread \/ RefuseThread \/ WaitStop \/ WaitExit
  \/ SetOption \/ EndPass \/ Rescan \/ SetAllOptions

Target ==
  \/ \E t, u \in Tid : Clone(t, u)
  \/ \E t \in Tid : Exit(t) \/ Stop(t) \/ SignalStop(t)
  \/ ExitGroup

Init ==
  /\ \E S \in SUBSET Tid : Leader \in S
       /\ kst = [t \in Tid |-> IF t \in S THEN "running" ELSE "absent"]
  /\ traced = {} /\ stopq = {}
  /\ tasks = [t \in Tid |-> "none"] /\ cur = NoTid /\ pstate = "Running"
  /\ pass = 0 /\ todo = {} /\ pc = "scan"

Next == Attacher \/ Target

Spec == Init /\ [][Next]_vars

\* The debugger is a running thread, and the kernel delivers a queued SIGSTOP.
FairSpec == Spec /\ WF_vars(Attacher) /\ \A t \in Tid : WF_vars(Stop(t))

-----------------------------------------------------------------------------
(* Properties.                                                             *)

\* A successful attach has the whole process: every thread that exists is
\* registered and stopped by its SIGSTOP, and the leader is current, whatever
\* threads were created or died during the sweeps (Process::attach).
AttachComplete ==
  pc = "attached" =>
    /\ \A t \in Tid : kst[t] # "absent" <=> tasks[t] = "Stopped"
    /\ \A t \in tids(tasks) : kst[t] = "SIGSTOP" /\ t \in traced
    /\ cur = Leader /\ pstate = "Stopped" /\ Leader \in tids(tasks)

\* An attach that throws keeps no living thread traced or stopped, wherever in
\* the sweep it threw (the catch of Process::attach, Process::cleanup).
FailedAttachReleases ==
  pc = "failed" => \A t \in Tid : Live(t) => t \notin traced /\ kst[t] = "running"

\* Attach ends however long the target goes on creating threads: the sweeps
\* are bounded, and every wait_for is answered.  The exception is a leader that
\* died after PTRACE_ATTACH and before its threads: its exit is not reported
\* while they live, and wait_for(leader) waits for them.
LeaderAwaited == pc = "wait" /\ FirstOf(todo) = Leader /\ kst[Leader] = "zombie"
AttachEnds == <>(pc \in Ended) \/ <>[]LeaderAwaited
=============================================================================
