------------------------------ MODULE Debugger ------------------------------
(***************************************************************************)
(* One traced process of mdbg: its threads as the kernel schedules them,   *)
(* the task registry of Process, and the software-breakpoint, signal,      *)
(* motion and memory-write state machine of Debugger.                      *)
(*                                                                         *)
(* A public call of Debugger runs until it blocks in waitpid, so a motion  *)
(* command is one action up to the wait and one action per collected wait  *)
(* status; `call' names the command that is blocked.  Fork, vfork and      *)
(* hardware watchpoints belong to other modules.                           *)
(***************************************************************************)
EXTENDS TaskRegistry

CONSTANTS
  CodeSize,   \* addresses 0 .. CodeSize-1 hold instructions of one byte each
  Byte, INT3, \* byte values; 0xCC among them
  Images,     \* the program images that launch or exec can map
  Signal,     \* signals other than SIGTRAP that threads receive
  SIGSTOP,
  MaxId,      \* bound on breakpoint ids
  Commands,   \* the commands the user gives in this session
  Races       \* the kernel orders of death and birth reports that can occur

Addr == 0 .. CodeSize - 1

AllCommands == {"break", "delete", "continue", "stepi", "thread", "write", "detach", "quit"}

(***************************************************************************)
(* child_first: a new thread's first stop is reported before its creator's *)
(*   clone event;                                                          *)
(* group_exit:  exit_group, or a fatal signal, while other threads live;   *)
(* leader_exit: the leader exits and its thread group lives on;            *)
(* late_exec:   exec while two or more other threads live, whose deaths    *)
(*   are reported first.                                                   *)
(***************************************************************************)
AllRaces == {"child_first", "group_exit", "leader_exit", "late_exec"}

ASSUME ConstantAssumption ==
  /\ CodeSize \in Nat
  /\ INT3 \in Byte
  /\ Images \subseteq [Addr -> Byte] /\ Images # {}
  /\ Signal \subseteq Nat \ {0} /\ SIGSTOP \in Nat \ {0}
  /\ MaxId \in Nat
  /\ Commands \subseteq AllCommands
  /\ Races \subseteq AllRaces

VARIABLES
  \* the traced threads and their memory, as the kernel has them
  kst,     \* none, born, run, step, stop, exec (inside execve), dead
  kev,     \* the wait status of a thread that waitpid has not collected
  rip,     \* the program counter; CodeSize is an address without code
  mem,     \* the bytes in the code mapping
  prog,    \* the bytes the program and the user mean to be there
  owed,    \* the thread ran a managed INT3 and has not been rewound
  \* Process
  tasks, cur, pstate,
  \* Debugger
  origin, bp, nextId, pend, pthr, psig, stop, call

kernelVars  == <<kst, kev, rip, prog, owed>>
processVars == <<tasks, cur, pstate>>
breakVars   == <<mem, bp, nextId, pend>>
vars == <<kst, kev, rip, mem, prog, owed, tasks, cur, pstate,
          origin, bp, nextId, pend, pthr, psig, stop, call>>

WaitStatus == [kind : {"none", "trap", "sig", "clone", "exec", "exit", "killed"}, val : Nat]
Breakpoint == [id : Nat, original_byte : Byte, installed : BOOLEAN]

StopReason == {"InitialExec", "Attached", "ThreadCreated", "Signal", "SingleStep", "Breakpoint",
               "Trap", "Exited", "Signaled", "ThreadExited", "ThreadSignaled", "Exec"}

NoEvent == [kind |-> "none", val |-> 0]
Event(k, v) == [kind |-> k, val |-> v]
NoBreak == [id |-> 0, original_byte |-> INT3, installed |-> FALSE]
NoPend  == [address |-> -1, tid |-> NoTid]
StopInfo(r, t, a) == [reason |-> r, tid |-> t, address |-> a]

Waiting == call \in {"continue", "stepi", "over_continue", "over_stepi"}
Over    == call \in {"over_continue", "over_stepi"}
Traced  == call \notin {"detached", "gone"}
Idle    == call = "idle" /\ pstate = "Stopped"

Active(t) == kst[t] \in {"run", "step"}
Live == {t \in Tid : kst[t] \notin {"none", "dead"}}
Present == {t \in Tid : kst[t] # "none"}

Init ==
  /\ origin \in {"Launched", "Attached"}
  /\ \E L \in SUBSET Tid :
       /\ Leader \in L
       /\ origin = "Launched" => L = {Leader}
       /\ kst = [t \in Tid |-> IF t \in L THEN "stop" ELSE "none"]
       /\ tasks = [t \in Tid |-> IF t \in L THEN "Stopped" ELSE "none"]
  /\ kev = [t \in Tid |-> NoEvent]
  /\ rip \in [Tid -> 0 .. CodeSize]
  /\ \A t \in Tid : kst[t] = "none" => rip[t] = 0
  /\ mem \in Images /\ prog = mem
  /\ owed = [t \in Tid |-> FALSE]
  /\ cur = Leader /\ pstate = "Stopped"
  /\ bp = [a \in Addr |-> NoBreak] /\ nextId = 1 /\ pend = NoPend
  /\ pthr = {} /\ psig = [t \in Tid |-> 0]
  /\ stop = StopInfo(IF origin = "Launched" THEN "InitialExec" ELSE "Attached", Leader, -1)
  /\ call = "idle"

-----------------------------------------------------------------------------
(* The kernel: what a thread that was resumed can do.                      *)

\* The thread runs one instruction; a stepped thread traps after it.
Execute(t) ==
  /\ Traced /\ Active(t) /\ rip[t] \in Addr
  /\ \/ /\ mem[rip[t]] = INT3
        /\ rip' = [rip EXCEPT ![t] = @ + 1]
        /\ owed' = [owed EXCEPT ![t] = bp[rip[t]].installed]
        /\ kst' = [kst EXCEPT ![t] = "stop"]
        /\ kev' = [kev EXCEPT ![t] = Event("trap", 0)]
     \/ /\ mem[rip[t]] # INT3
        /\ \E next \in 0 .. CodeSize : rip' = [rip EXCEPT ![t] = next]
        /\ IF kst[t] = "step"
           THEN /\ kst' = [kst EXCEPT ![t] = "stop"]
                /\ kev' = [kev EXCEPT ![t] = Event("trap", 0)]
           ELSE UNCHANGED <<kst, kev>>
        /\ UNCHANGED owed
  /\ UNCHANGED <<mem, prog, processVars, origin, bp, nextId, pend, pthr, psig, stop, call>>

\* A signal-delivery stop, also the fault of fetching from CodeSize.
TakeSignal(t) ==
  /\ Traced /\ Active(t)
  /\ \E s \in Signal : kev' = [kev EXCEPT ![t] = Event("sig", s)]
  /\ kst' = [kst EXCEPT ![t] = "stop"]
  /\ UNCHANGED <<rip, mem, prog, owed, processVars, origin, bp, nextId, pend, pthr, psig, stop, call>>

\* A clone system call: the creator stops with PTRACE_EVENT_CLONE.
Clone(t, u) ==
  /\ Traced /\ Active(t) /\ kst[u] = "none"
  /\ rip[t] \in Addr /\ mem[rip[t]] # INT3
  /\ \E next \in 0 .. CodeSize : rip' = [rip EXCEPT ![t] = next, ![u] = next]
  /\ kst' = [kst EXCEPT ![t] = "stop", ![u] = "born"]
  /\ kev' = [kev EXCEPT ![t] = Event("clone", u)]
  /\ UNCHANGED <<mem, prog, owed, processVars, origin, bp, nextId, pend, pthr, psig, stop, call>>

\* The new thread's automatic SIGSTOP.
Start(u) ==
  /\ Traced /\ kst[u] = "born"
  /\ "child_first" \in Races \/ \A t \in Tid : kev[t] # Event("clone", u)
  /\ kst' = [kst EXCEPT ![u] = "stop"]
  /\ kev' = [kev EXCEPT ![u] = Event("sig", SIGSTOP)]
  /\ UNCHANGED <<rip, mem, prog, owed, processVars, origin, bp, nextId, pend, pthr, psig, stop, call>>

\* One thread dies.  A leader's death is reported by ReportLeader.
Die(t) ==
  /\ Traced /\ Active(t)
  /\ t = Leader => Present = {t} \/ "leader_exit" \in Races
  /\ kst' = [kst EXCEPT ![t] = "dead"]
  /\ owed' = [owed EXCEPT ![t] = FALSE]
  /\ \E k \in {"exit", "killed"} :
       kev' = IF t = Leader THEN kev ELSE [kev EXCEPT ![t] = Event(k, 0)]
  /\ UNCHANGED <<rip, mem, prog, processVars, origin, bp, nextId, pend, pthr, psig, stop, call>>

\* exit_group of a running thread, or a fatal signal, also to one that has not
\* started yet, takes every thread.
DieTogether(t) ==
  /\ Traced /\ (Active(t) \/ kst[t] = "born") /\ "group_exit" \in Races
  /\ kst' = [u \in Tid |-> IF kst[u] = "none" THEN "none" ELSE "dead"]
  /\ owed' = [u \in Tid |-> FALSE]
  /\ \E k \in {"exit", "killed"} :
       kev' = [u \in Tid |-> IF u = Leader THEN NoEvent
                             ELSE IF u \in Live THEN Event(k, 0) ELSE kev[u]]
  /\ UNCHANGED <<rip, mem, prog, processVars, origin, bp, nextId, pend, pthr, psig, stop, call>>

\* The leader's death is reported after every other thread was reaped.
ReportLeader ==
  /\ Traced /\ kst[Leader] = "dead" /\ kev[Leader] = NoEvent /\ Present = {Leader}
  /\ \E k \in {"exit", "killed"} : kev' = [kev EXCEPT ![Leader] = Event(k, 0)]
  /\ UNCHANGED <<kst, rip, mem, prog, owed, processVars, origin, bp, nextId, pend, pthr, psig, stop, call>>

\* execve: the other threads die, the leader without a report.
BeginExec(t) ==
  /\ Traced /\ Active(t) /\ rip[t] \in Addr /\ mem[rip[t]] # INT3
  /\ (\A u, v \in Present \ {t} : u = v) \/ "late_exec" \in Races
  /\ kst' = [u \in Tid |-> IF u = t THEN "exec"
                           ELSE IF kst[u] = "none" \/ u = Leader THEN "none" ELSE "dead"]
  /\ kev' = [u \in Tid |-> IF u # t /\ u # Leader /\ u \in Live THEN Event("exit", 0)
                           ELSE IF u = Leader THEN NoEvent ELSE kev[u]]
  /\ owed' = [u \in Tid |-> FALSE]
  /\ UNCHANGED <<rip, mem, prog, processVars, origin, bp, nextId, pend, pthr, psig, stop, call>>

\* Once the dead are reaped, the new image is mapped and the exec stop is
\* reported under the leader's tid.
FinishExec(t) ==
  /\ Traced /\ kst[t] = "exec" /\ Present = {t}
  /\ kst' = [u \in Tid |-> IF u = Leader THEN "stop" ELSE "none"]
  /\ kev' = [u \in Tid |-> IF u = Leader THEN Event("exec", 0) ELSE NoEvent]
  /\ \E image \in Images : mem' = image /\ prog' = image
  /\ rip' = [u \in Tid |-> 0]
  /\ UNCHANGED <<owed, processVars, origin, bp, nextId, pend, pthr, psig, stop, call>>

-----------------------------------------------------------------------------
(* The user's commands on a stopped process.                               *)

\* stopped_tid() returns: the current thread is in the registry as stopped.
stopped_tid_ok == pstate = "Stopped" /\ cur # NoTid /\ tasks[cur] = "Stopped"

\* ptrace requests on thread t succeed; they fail with ESRCH otherwise.
Reachable(t) == kst[t] = "stop"

\* An exception no caller handles ends the session in main's catch.
Throw == call' = "threw"

add_breakpoint(a) ==
  /\ Idle /\ "break" \in Commands /\ nextId <= MaxId
  /\ stopped_tid_ok /\ Reachable(cur) /\ bp[a].id = 0
  /\ bp' = [bp EXCEPT ![a] = [id |-> nextId, original_byte |-> mem[a], installed |-> TRUE]]
  /\ mem' = [mem EXCEPT ![a] = INT3]
  /\ nextId' = nextId + 1
  /\ UNCHANGED <<kernelVars, processVars, origin, pend, pthr, psig, stop, call>>

remove_breakpoint(a) ==
  /\ Idle /\ "delete" \in Commands /\ bp[a].id # 0
  /\ \/ /\ bp[a].installed => stopped_tid_ok /\ Reachable(cur)
        /\ mem' = IF bp[a].installed THEN [mem EXCEPT ![a] = bp[a].original_byte] ELSE mem
        /\ pend' = IF pend.address = a THEN NoPend ELSE pend
        /\ bp' = [bp EXCEPT ![a] = NoBreak]
        /\ UNCHANGED call
     \/ /\ bp[a].installed /\ ~(stopped_tid_ok /\ Reachable(cur))
        /\ Throw
        /\ UNCHANGED <<mem, pend, bp>>
  /\ UNCHANGED <<kernelVars, processVars, origin, nextId, pthr, psig, stop>>

(***************************************************************************)
(* write_memory of the bytes w at lo .. hi.  An overlap with a lifted      *)
(* breakpoint is rejected before the first write; a breakpoint that is     *)
(* installed keeps its INT3 and takes the byte as its original.  A range   *)
(* that runs off the mapping (hi = CodeSize) fails at its last byte, after *)
(* the bytes before it and before any original is updated.                 *)
(***************************************************************************)
write_memory(lo, hi, w) ==
  LET fails == hi \notin Addr
      range == (lo .. hi) \cap Addr
      patched == {a \in range : bp[a].id # 0}
  IN /\ Idle /\ "write" \in Commands /\ stopped_tid_ok /\ Reachable(cur)
     /\ pend.address \notin lo .. hi
     /\ \A a \in patched : bp[a].installed
     /\ mem' = [a \in Addr |-> IF a \in range \ patched THEN w[a] ELSE mem[a]]
     /\ bp' = [a \in Addr |-> IF a \in patched /\ ~fails
                              THEN [bp[a] EXCEPT !.original_byte = w[a]] ELSE bp[a]]
     /\ prog' = [a \in Addr |-> IF a \in range /\ (fails => a \notin patched)
                                THEN w[a] ELSE prog[a]]
     /\ UNCHANGED <<kst, kev, rip, owed, processVars, origin, nextId, pend, pthr, psig, stop, call>>

select_thread(t) ==
  /\ Idle /\ "thread" \in Commands
  /\ pend # NoPend => pend.tid = t
  /\ \A u \in tids(tasks) : tasks[u] = "Stopped"
  /\ t \in tids(tasks)
  /\ cur' = t
  /\ UNCHANGED <<kernelVars, tasks, pstate, breakVars, origin, pthr, psig, stop, call>>

mark_running(t) ==
  /\ tasks' = [tasks EXCEPT ![t] = "Running"]
  /\ pstate' = update_aggregate_state(tasks')

\* Mutant: one pending signal for the process instead of one per thread.
Resume_forgets_all(command, how) ==
  /\ Idle /\ command \in Commands /\ pend = NoPend
  /\ stopped_tid_ok /\ Reachable(cur)
  /\ kst' = [kst EXCEPT ![cur] = how] /\ kev' = [kev EXCEPT ![cur] = NoEvent]
  /\ psig' = [t \in Tid |-> 0]
  /\ mark_running(cur)
  /\ call' = command
  /\ UNCHANGED <<rip, prog, owed, cur, breakVars, origin, pthr, stop>>

\* continue_execution and single_step without a displaced step to finish.
Resume(command, how) ==
  /\ Idle /\ command \in Commands /\ pend = NoPend
  /\ stopped_tid_ok /\ Reachable(cur)
  /\ kst' = [kst EXCEPT ![cur] = how] /\ kev' = [kev EXCEPT ![cur] = NoEvent]
  /\ psig' = [psig EXCEPT ![cur] = 0]
  /\ mark_running(cur)
  /\ call' = command
  /\ UNCHANGED <<rip, prog, owed, cur, breakVars, origin, pthr, stop>>

continue_execution == Resume("continue", "run")

single_step == Resume("stepi", "step")

\* The first half of step_over_pending_breakpoint.
step_over_pending_breakpoint(command) ==
  /\ Idle /\ command \in Commands /\ pend # NoPend
  /\ stopped_tid_ok /\ pend.tid = cur /\ Reachable(cur)
  /\ kst' = [kst EXCEPT ![cur] = "step"] /\ kev' = [kev EXCEPT ![cur] = NoEvent]
  /\ mark_running(cur)
  /\ call' = IF command = "continue" THEN "over_continue" ELSE "over_stepi"
  /\ UNCHANGED <<rip, prog, owed, cur, breakVars, origin, pthr, psig, stop>>

\* A motion command on a thread that is gone, or that is not the one with
\* the displaced step.
MotionFails ==
  /\ Idle /\ {"continue", "stepi"} \cap Commands # {}
  /\ ~(stopped_tid_ok /\ Reachable(cur)) \/ (pend # NoPend /\ pend.tid # cur)
  /\ Throw
  /\ UNCHANGED <<kernelVars, processVars, breakVars, origin, pthr, psig, stop>>

\* Mutant: the original bytes are not written back.
restored_mem_unwritten == mem

\* restore_all_breakpoints, when its writes reach the process.
restored_mem == [a \in Addr |-> IF bp[a].installed THEN bp[a].original_byte ELSE mem[a]]
restored_bp  == [a \in Addr |-> [bp[a] EXCEPT !.installed = FALSE]]

\* stopped_tid() throws, or the first of its writes does.
restore_fails == \/ ~stopped_tid_ok
                 \/ ~Reachable(cur) /\ \E a \in Addr : bp[a].installed

(***************************************************************************)
(* Debugger::detach.  The breakpoints are restored before Process::detach  *)
(* checks that every thread is stopped.                                    *)
(***************************************************************************)
detach ==
  /\ Idle /\ "detach" \in Commands /\ origin = "Attached"
  /\ \/ /\ restore_fails
        /\ Throw
        /\ UNCHANGED <<mem, bp, pend, pthr, psig, tasks, cur>>
     \/ /\ ~restore_fails /\ \E t \in Tid : tasks[t] = "Running"
        /\ mem' = restored_mem /\ bp' = restored_bp /\ pend' = NoPend
        /\ Throw
        /\ UNCHANGED <<pthr, psig, tasks, cur>>
     \/ /\ ~restore_fails /\ \A t \in Tid : tasks[t] # "Running"
        /\ mem' = restored_mem
        /\ bp' = [a \in Addr |-> NoBreak] /\ pend' = NoPend
        /\ pthr' = {} /\ psig' = [t \in Tid |-> 0]
        /\ tasks' = [t \in Tid |-> "none"] /\ cur' = NoTid
        /\ call' = "detached"
  /\ UNCHANGED <<kernelVars, pstate, origin, nextId, stop>>

(***************************************************************************)
(* ~Debugger and ~Process, at quit or while an exception unwinds: an       *)
(* attached process is restored and released, a launched one is killed.    *)
(***************************************************************************)
destroy ==
  /\ (Idle /\ "quit" \in Commands) \/ call = "threw"
  /\ mem' = IF origin = "Attached" /\ pstate = "Stopped" /\ ~restore_fails
            THEN restored_mem ELSE mem
  /\ kst' = IF origin = "Attached" THEN kst ELSE [t \in Tid |-> "none"]
  /\ kev' = IF origin = "Attached" THEN kev ELSE [t \in Tid |-> NoEvent]
  /\ tasks' = [t \in Tid |-> "none"] /\ cur' = NoTid
  /\ bp' = [a \in Addr |-> NoBreak] /\ pend' = NoPend
  /\ pthr' = {} /\ psig' = [t \in Tid |-> 0]
  /\ call' = "gone"
  /\ UNCHANGED <<rip, prog, owed, pstate, origin, nextId, stop>>

-----------------------------------------------------------------------------
(* wait_and_classify: one collected wait status of thread t.               *)

\* Process::wait_for finds t in the registry, or adopts it: a stopped thread
\* of this process.
Tracked(t) == tasks[t] # "none" \/ kst[t] = "stop"

\* The address whose INT3 may have trapped thread t.
trap_address(t) == rip[t] - 1

BreakpointAt(a) == a \in Addr /\ bp[a].id # 0 /\ bp[a].installed

\* The stop reason of an ordinary signal or trap stop.
Reason(t) ==
  IF t \in pthr THEN "ThreadCreated"
  ELSE IF kev[t].kind = "sig" THEN "Signal"
  ELSE IF call # "continue" THEN "SingleStep"
  ELSE IF BreakpointAt(trap_address(t)) THEN "Breakpoint" ELSE "Trap"

\* What Process and Debugger record of a stop of thread t.
RecordStop(t, address) ==
  /\ Waiting /\ kev[t].kind \in {"sig", "trap"} /\ Tracked(t)
  /\ kev' = [kev EXCEPT ![t] = NoEvent]
  /\ cur' = t
  /\ pthr' = pthr \ {t}
  /\ stop' = StopInfo(Reason(t), t, address)

\* Mutants: the INT3 is not written, or not recorded as written.
reinserted_mem_unwritten(a) == mem
reinserted_bp_unrecorded(a) == bp

\* reinsert_breakpoint
reinserted_mem(a) == IF bp[a].id # 0 THEN [mem EXCEPT ![a] = INT3] ELSE mem
reinserted_bp(a)  == IF bp[a].id # 0 THEN [bp EXCEPT ![a].installed = TRUE] ELSE bp

\* The second half of step_over_pending_breakpoint, with the registry ts and
\* the current thread c that the collected status left behind.
StepOverReturns(ts, c) ==
  LET via == IF ts[pend.tid] = "Stopped" THEN pend.tid ELSE c
  IN IF Reachable(via) \/ bp[pend.address].id = 0
     THEN /\ mem' = reinserted_mem(pend.address) /\ bp' = reinserted_bp(pend.address)
          /\ pend' = NoPend /\ call' = "idle"
     ELSE Throw /\ UNCHANGED <<mem, bp, pend>>

\* The command returns to the user.
Return(ts, c) ==
  \/ ~Over /\ call' = "idle" /\ UNCHANGED <<mem, bp, pend>>
  \/ Over /\ StepOverReturns(ts, c)

\* A stop that ends the command and moves no instruction pointer.
WaitStop(t) ==
  /\ RecordStop(t, -1)
  /\ Reason(t) # "Breakpoint" /\ ~(call = "over_continue" /\ Reason(t) = "SingleStep")
  /\ psig' = IF Reason(t) = "Signal" THEN [psig EXCEPT ![t] = kev[t].val] ELSE psig
  /\ tasks' = [tasks EXCEPT ![t] = "Stopped"] /\ pstate' = "Stopped"
  /\ Return(tasks', t)
  /\ UNCHANGED <<kst, rip, prog, owed, origin, nextId>>

\* set_instruction_pointer to the breakpoint's address.
rewound(t) == [rip EXCEPT ![t] = @ - 1]

\* prepare_breakpoint_hit: rewind the thread and lift the breakpoint.
WaitBreakpoint(t) ==
  /\ RecordStop(t, trap_address(t))
  /\ Reason(t) = "Breakpoint"
  /\ tasks' = [tasks EXCEPT ![t] = "Stopped"] /\ pstate' = "Stopped"
  /\ rip' = rewound(t) /\ owed' = [owed EXCEPT ![t] = FALSE]
  /\ mem' = [mem EXCEPT ![trap_address(t)] = bp[trap_address(t)].original_byte]
  /\ bp' = [bp EXCEPT ![trap_address(t)].installed = FALSE]
  /\ pend' = [address |-> trap_address(t), tid |-> t]
  /\ call' = "idle"
  /\ UNCHANGED <<kst, prog, origin, nextId, psig>>

\* Mutant: after the reinsertion the thread is not resumed.
WaitDisplacedStep_unresumed(t) ==
  /\ call = "over_continue" /\ RecordStop(t, -1) /\ Reason(t) = "SingleStep"
  /\ mem' = reinserted_mem(pend.address) /\ bp' = reinserted_bp(pend.address)
  /\ pend' = NoPend
  /\ psig' = [psig EXCEPT ![t] = 0]
  /\ tasks' = [tasks EXCEPT ![t] = "Stopped"] /\ pstate' = "Stopped"
  /\ call' = "continue"
  /\ UNCHANGED <<kst, rip, prog, owed, origin, nextId>>

\* The displaced step of a continue is over: reinsert, through a thread that
\* has just stopped, and go on without returning to the user.
WaitDisplacedStep(t) ==
  /\ call = "over_continue" /\ RecordStop(t, -1) /\ Reason(t) = "SingleStep"
  /\ mem' = reinserted_mem(pend.address) /\ bp' = reinserted_bp(pend.address)
  /\ pend' = NoPend
  /\ kst' = [kst EXCEPT ![t] = "run"] /\ psig' = [psig EXCEPT ![t] = 0]
  /\ tasks' = [tasks EXCEPT ![t] = "Running"]
  /\ pstate' = update_aggregate_state(tasks')
  /\ call' = "continue"
  /\ UNCHANGED <<rip, prog, owed, origin, nextId>>

\* Mutant: the creator runs on while its new thread is awaited.
WaitClone_resumes(t) ==
  LET u == kev[t].val
  IN /\ Waiting /\ kev[t].kind = "clone" /\ Tracked(t)
     /\ kst' = [kst EXCEPT ![t] = "run"] /\ kev' = [kev EXCEPT ![t] = NoEvent]
     /\ cur' = t /\ pstate' = "Running"
     /\ tasks' = [x \in Tid |-> IF x \in {t, u} THEN "Running" ELSE tasks[x]]
     /\ pthr' = pthr \cup {u}
     /\ UNCHANGED <<rip, prog, owed, breakVars, origin, psig, stop, call>>

\* PTRACE_EVENT_CLONE: the creator is held and the wait goes on.
WaitClone(t) ==
  LET u == kev[t].val
  IN /\ Waiting /\ kev[t].kind = "clone" /\ Tracked(t)
     /\ kev' = [kev EXCEPT ![t] = NoEvent]
     /\ cur' = t /\ pstate' = "Stopped"
     /\ tasks' = [x \in Tid |-> IF x = t THEN "Stopped"
                                ELSE IF x = u /\ tasks[u] = "none" THEN "Running" ELSE tasks[x]]
     /\ pthr' = pthr \cup {u}
     /\ UNCHANGED <<kst, rip, prog, owed, breakVars, origin, psig, stop, call>>

\* A thread is gone; the process, another stopped thread, or the wait goes on.
WaitExit(t) ==
  LET ts == [tasks EXCEPT ![t] = "none"]
  IN /\ Waiting /\ kev[t].kind \in {"exit", "killed"} /\ tasks[t] # "none"
     /\ kst' = [kst EXCEPT ![t] = "none"] /\ kev' = [kev EXCEPT ![t] = NoEvent]
     /\ tasks' = ts /\ cur' = select_current_task(ts)
     /\ pthr' = pthr \ {t} /\ psig' = [psig EXCEPT ![t] = 0]
     /\ \/ /\ tids(ts) = {}
           /\ pstate' = IF kev[t].kind = "exit" THEN "Exited" ELSE "Signaled"
           /\ stop' = StopInfo(IF kev[t].kind = "exit" THEN "Exited" ELSE "Signaled", t, -1)
           /\ pend' = NoPend /\ call' = "idle"
           /\ UNCHANGED <<mem, bp>>
        \/ /\ tids(ts) # {} /\ update_aggregate_state(ts) = "Stopped"
           /\ pstate' = "Stopped"
           /\ stop' = StopInfo(IF kev[t].kind = "exit" THEN "ThreadExited"
                               ELSE "ThreadSignaled", t, -1)
           /\ Return(ts, select_current_task(ts))
        \/ /\ tids(ts) # {} /\ update_aggregate_state(ts) = "Running"
           /\ pstate' = "Running"
           /\ UNCHANGED <<stop, mem, bp, pend, call>>
     /\ UNCHANGED <<rip, prog, owed, origin, nextId>>

\* Mutant: the registry is not collapsed to the surviving thread.
WaitExec_keeps_tasks(t) ==
  /\ Waiting /\ kev[t].kind = "exec" /\ Tracked(t)
  /\ kev' = [kev EXCEPT ![t] = NoEvent]
  /\ tasks' = [tasks EXCEPT ![t] = "Stopped"]
  /\ cur' = t /\ pstate' = "Stopped"
  /\ bp' = [a \in Addr |-> NoBreak] /\ pend' = NoPend
  /\ pthr' = {} /\ psig' = [x \in Tid |-> 0]
  /\ stop' = StopInfo("Exec", t, -1) /\ call' = "idle"
  /\ UNCHANGED <<kst, rip, mem, prog, owed, origin, nextId>>

\* PTRACE_EVENT_EXEC: collapse_after_exec and discard_image_state.
WaitExec(t) ==
  /\ Waiting /\ kev[t].kind = "exec" /\ Tracked(t)
  /\ kev' = [kev EXCEPT ![t] = NoEvent]
  /\ tasks' = [x \in Tid |-> IF x = t THEN "Stopped" ELSE "none"]
  /\ cur' = t /\ pstate' = "Stopped"
  /\ bp' = [a \in Addr |-> NoBreak] /\ pend' = NoPend
  /\ pthr' = {} /\ psig' = [x \in Tid |-> 0]
  /\ stop' = StopInfo("Exec", t, -1) /\ call' = "idle"
  /\ UNCHANGED <<kst, rip, mem, prog, owed, origin, nextId>>

\* waitpid returned an event for an untracked task.
WaitUntracked(t) ==
  /\ Waiting /\ kev[t].kind \in {"exit", "killed"} /\ tasks[t] = "none"
  /\ kst' = [kst EXCEPT ![t] = "none"] /\ kev' = [kev EXCEPT ![t] = NoEvent]
  /\ Throw
  /\ UNCHANGED <<rip, prog, owed, processVars, breakVars, origin, pthr, psig, stop>>

wait_and_classify(t) ==
  \/ WaitStop(t) \/ WaitBreakpoint(t) \/ WaitDisplacedStep(t)
  \/ WaitClone(t) \/ WaitExit(t) \/ WaitExec(t) \/ WaitUntracked(t)

-----------------------------------------------------------------------------
Kernel ==
  \/ \E t \in Tid : \/ Execute(t) \/ TakeSignal(t) \/ Start(t) \/ Die(t)
                    \/ DieTogether(t) \/ BeginExec(t) \/ FinishExec(t)
                    \/ \E u \in Tid : Clone(t, u)
  \/ ReportLeader

User ==
  \/ \E a \in Addr : add_breakpoint(a) \/ remove_breakpoint(a)
  \/ \E lo \in Addr, hi \in 0 .. CodeSize : \E w \in [lo .. hi -> Byte] :
       lo <= hi /\ write_memory(lo, hi, w)
  \/ \E t \in Tid : select_thread(t)
  \/ continue_execution \/ single_step
  \/ \E command \in {"continue", "stepi"} : step_over_pending_breakpoint(command)
  \/ MotionFails \/ detach \/ destroy

Next == Kernel \/ User \/ \E t \in Tid : wait_and_classify(t)

Spec == Init /\ [][Next]_vars
-----------------------------------------------------------------------------
(* Properties.                                                             *)

\* The types of all variables: every value the code's members can hold.
TypeOK ==
  /\ kst \in [Tid -> {"none", "born", "run", "step", "stop", "exec", "dead"}]
  /\ kev \in [Tid -> WaitStatus]
  /\ \A t \in Tid : kev[t].kind = "clone" => kev[t].val \in Tid
  /\ rip \in [Tid -> 0 .. CodeSize]
  /\ mem \in [Addr -> Byte] /\ prog \in [Addr -> Byte]
  /\ owed \in [Tid -> BOOLEAN]
  /\ tasks \in [Tid -> TaskState] /\ cur \in Tid \cup {NoTid} /\ pstate \in ProcessState
  /\ origin \in {"Launched", "Attached"}
  /\ bp \in [Addr -> Breakpoint]
  /\ nextId \in Nat
  /\ pend \in [address : Addr \cup {-1}, tid : Tid \cup {NoTid}]
  /\ pthr \subseteq Tid
  /\ psig \in [Tid -> Nat]
  /\ stop \in [reason : StopReason, tid : Tid, address : Addr \cup {-1}]
  /\ call \in {"idle", "continue", "stepi", "over_continue", "over_stepi",
               "threw", "detached", "gone"}

\* The image the debugger's tables are about is the one that is mapped.
ImageCurrent == \A t \in Tid : kev[t].kind # "exec"

(***************************************************************************)
(* Byte accounting, through every add, hit, displaced step, reinsertion,   *)
(* overlapping write, removal, exec and failed detach: while the process   *)
(* is traced, memory holds INT3 where a breakpoint is installed and the    *)
(* program's byte everywhere else, and the byte a breakpoint has saved is  *)
(* the program's.                                                          *)
(***************************************************************************)
PatchDiscipline ==
  Traced /\ ImageCurrent =>
    \A a \in Addr :
      /\ mem[a] = IF bp[a].installed THEN INT3 ELSE prog[a]
      /\ bp[a].id # 0 => bp[a].original_byte = prog[a]

\* Single runner: at most one thread of the process executes, and none does
\* while the user holds the prompt.
SingleRunner ==
  /\ \A t, u \in Tid : Active(t) /\ Active(u) => t = u
  /\ ~Waiting /\ Traced => \A t \in Tid : ~Active(t)

(***************************************************************************)
(* A breakpoint is out of memory only for the displaced step of the thread *)
(* that hit it: no other thread can run through the address meanwhile.     *)
(***************************************************************************)
LiftedForOwner ==
  call # "threw" /\ Present # {} =>
    \A a \in Addr : bp[a].id # 0 /\ ~bp[a].installed =>
      /\ pend.address = a
      /\ \A t \in Tid : Active(t) => t = pend.tid

\* At the prompt the registry is what the kernel has: a thread listed as
\* stopped is in a ptrace stop and can be selected, read and resumed.
RegistryFaithful ==
  Idle => /\ \A t \in Tid : tasks[t] = "Stopped" <=> kst[t] = "stop"
          /\ \A t \in Tid : tasks[t] # "Running"
          /\ cur \in tids(tasks)

\* waitpid is never entered, or re-entered, when nothing can be reported.
NoEndlessWait ==
  Waiting => \/ \E t \in Tid : Active(t) \/ kst[t] \in {"born", "exec"} \/ kev[t] # NoEvent
             \/ kst[Leader] = "dead" /\ Present = {Leader}

\* An attached process that was released has none of the debugger's bytes.
ReleasedPristine ==
  call \in {"detached", "gone"} /\ origin = "Attached" /\ Live # {} => mem = prog

(***************************************************************************)
(* The signal a thread was stopped with stays that thread's own until the  *)
(* thread itself is resumed, dies, or its image or session ends: selecting *)
(* and running other threads neither delivers nor overwrites it.           *)
(***************************************************************************)
SignalKept ==
  [][\A t \in Tid : psig[t] # 0 /\ psig'[t] # psig[t] =>
       \/ kst[t] = "stop" /\ kst'[t] \in {"run", "step"}
       \/ kst[t] = "dead" \/ stop'.reason = "Exec" \/ call' \in {"detached", "gone"}]_vars
=============================================================================
