---------------------------- MODULE TaskRegistry ----------------------------
(***************************************************************************)
(* The task registry of Process (src/src/process): task_states_ maps every *)
(* traced thread id to Stopped or Running; an absent id is "none".  The    *)
(* aggregate process state and the current thread are computed from it.    *)
(***************************************************************************)
EXTENDS Integers

CONSTANTS Tid,    \* thread ids the kernel can hand out
          Leader  \* the thread-group leader, whose tid is the pid

ASSUME TidAssumption == Tid \subseteq Nat \ {0} /\ Leader \in Tid

TaskState == {"none", "Stopped", "Running"}

NoTid == 0    \* current_tid_ = -1 in the code

\* ProcessState; what Detached means is kept by the modules that detach.
ProcessState == {"Stopped", "Running", "Exited", "Signaled"}

tids(ts) == {t \in Tid : ts[t] # "none"}

StoppedTids(ts) == {t \in Tid : ts[t] = "Stopped"}

\* The least element: std::map iterates its keys in increasing order.
FirstOf(S) == CHOOSE t \in S : \A u \in S : t <= u

\* Process::update_aggregate_state on a non-empty registry.
update_aggregate_state(ts) ==
  IF StoppedTids(ts) # {} THEN "Stopped" ELSE "Running"

\* Process::select_current_task: the first stopped thread, else the first one.
select_current_task(ts) ==
  IF StoppedTids(ts) # {} THEN FirstOf(StoppedTids(ts))
  ELSE IF tids(ts) # {} THEN FirstOf(tids(ts)) ELSE NoTid
=============================================================================
