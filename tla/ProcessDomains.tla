--------------------------- MODULE ProcessDomains ---------------------------
(***************************************************************************)
(* The processes of one mdbg session: fork, vfork, exec and exit of the    *)
(* selected process, the three fork-follow policies, the retained domains, *)
(* and what the command line keeps per process (its ElfFile and the user   *)
(* breakpoint entries).                                                    *)
(*                                                                         *)
(* Only the selected process ever runs under the debugger, so what it does *)
(* and the handler of the wait status it causes are one action.  Threads   *)
(* are Debugger's subject: here a process has one thread, the one that     *)
(* forks, and `many' records that it has created others.                   *)
(***************************************************************************)
EXTENDS Naturals, FiniteSets, FiniteSetsExt

CONSTANT
  Environments  \* the surroundings of a session: records of
                \*   pids: process ids
                \*   addrs: addresses where the user sets breakpoints
                \*   policies: the fork-follow policies the user sets
                \*   origins: how the session starts, Launched or Attached
                \*   faults: child_first, a fork child's first stop is reported
                \*     before its parent's fork event; kill, SIGKILL from
                \*     outside the session; thread, the selected process
                \*     creates a thread; exec_in_motion, it calls exec while
                \*     next or finish has its temporary breakpoint set

kMaxProcessDomains == 3

None == 0
Image == {"old", "new"}

ASSUME DomainAssumption ==
  \A e \in Environments :
    /\ e.pids \subseteq Nat \ {0} /\ e.pids # {} /\ IsFiniteSet(e.pids)
    /\ e.addrs \subseteq Nat \ {0}
    /\ e.policies \subseteq {"Parent", "Child", "Both"}
    /\ e.origins \subseteq {"Launched", "Attached"}
    /\ e.faults \subseteq {"child_first", "kill", "thread", "exec_in_motion"}

VARIABLES
  env,     \* the environment of this session
  \* the kernel: processes, their memory and debug registers
  ks,      \* none, run, stop (traced), free (untraced), zombie (to be reaped
           \*   by the debugger), dead
  int3,    \* the addresses of a process that hold a debugger's INT3
  armed,   \* its debug registers hold the watchpoint
  image,   \* the executable it runs
  many,    \* the processes with more than one thread
  root,    \* the process the session started with
  \* Debugger
  origin, policy,
  act,     \* the active process domain
  ret,     \* retained_processes_: the other domains, by pid
  \* the command line
  elf,     \* the image its ElfFile was built from
  user,    \* UserBreakpointRegistry::domains_: the entries per pid; None
           \*   stands for the entries whose breakpoint is no more
  call,    \* idle; continue; step, a source motion's single step; run, its
           \*   continue_execution; undo, its clean-up; threw, cleanup, gone
  temp,    \* the temporary breakpoint of the source motion
  over,    \* the motion steps the instruction under a lifted breakpoint
  vchild   \* the released vfork child whose VFORK_DONE is awaited

Pid == env.pids
Addr == env.addrs
Faults == env.faults

kernelVars == <<ks, int3, armed, image, many, root>>
debugVars  == <<origin, policy, act, ret>>
cliVars    == <<elf, user>>
callVars   == <<call, temp, over, vchild>>
vars == <<ks, int3, armed, image, many, root, origin, policy, act, ret, elf, user,
          call, temp, over, vchild>>

\* A domain without breakpoints, with or without a watchpoint.
Fresh(p, exe, wp) == [pid |-> p, st |-> "Stopped", exe |-> exe, tab |-> {}, inst |-> {},
                      pend |-> None, wp |-> wp]

Owned == {act.pid} \cup DOMAIN ret
Idle == call = "idle" /\ act.st = "Stopped"
Motions == {"continue", "step", "run"}
Waiting == call \in Motions /\ vchild = None /\ ks[act.pid] = "run"
Reachable(p) == ks[p] = "stop"

\* waitpid(-1) reports what happens to tracees and to the launched process.
Reaped(p) == p = root /\ origin = "Launched"

Init ==
  /\ env \in Environments
  /\ origin \in env.origins /\ policy = "Parent"
  /\ root \in Pid
  /\ ks = [p \in Pid |-> IF p = root THEN "stop" ELSE "none"]
  /\ int3 = [p \in Pid |-> {}] /\ armed = [p \in Pid |-> FALSE]
  /\ image = [p \in Pid |-> "old"] /\ many = {}
  /\ act = Fresh(root, "old", FALSE) /\ ret = [p \in {} |-> act]
  /\ elf = "old" /\ user = [p \in Pid |-> {}]
  /\ call = "idle" /\ temp = None /\ over = FALSE /\ vchild = None

-----------------------------------------------------------------------------
(* Commands on the stopped active process.                                 *)

set_fork_follow_policy(new) ==
  /\ Idle /\ new \in env.policies
  /\ IF DOMAIN ret # {} THEN new = "Both"
     ELSE new = "Both" => /\ origin = "Launched" /\ act.pid \notin many
                          /\ act.tab = {} /\ act.pend = None
  /\ policy' = new
  /\ UNCHANGED <<kernelVars, origin, act, ret, cliVars, callVars>>

\* UserBreakpointRegistry::add_address over Debugger::add_breakpoint.
add_breakpoint(a) ==
  /\ Idle /\ ~(policy = "Both" /\ DOMAIN ret = {})
  /\ Reachable(act.pid) /\ a \notin act.tab
  /\ int3' = [int3 EXCEPT ![act.pid] = @ \cup {a}]
  /\ act' = [act EXCEPT !.tab = @ \cup {a}, !.inst = @ \cup {a}]
  /\ user' = [user EXCEPT ![act.pid] = @ \cup {a}]
  /\ UNCHANGED <<ks, armed, image, many, root, origin, policy, ret, elf, callVars>>

\* The memory after the original byte at a is written to the active process.
UnpatchedInt3(a) == [int3 EXCEPT ![act.pid] = @ \ {a}]

\* UserBreakpointRegistry::remove over Debugger::remove_breakpoint.  An error
\* ends the session.
remove_breakpoint(a) ==
  /\ Idle /\ a \in user[act.pid]
  /\ IF a \in act.tab /\ (a \in act.inst => Reachable(act.pid))
     THEN /\ int3' = IF a \in act.inst THEN UnpatchedInt3(a) ELSE int3
          /\ act' = [act EXCEPT !.tab = @ \ {a}, !.inst = @ \ {a},
                                !.pend = IF @ = a THEN None ELSE @]
          /\ user' = [user EXCEPT ![act.pid] = @ \ {a}]
          /\ UNCHANGED call
     ELSE call' = "threw" /\ UNCHANGED <<int3, act, user>>
  /\ UNCHANGED <<ks, armed, image, many, root, origin, policy, ret, elf, temp, over, vchild>>

add_write_watchpoint ==
  /\ Idle /\ Reachable(act.pid) /\ ~act.wp
  /\ armed' = [armed EXCEPT ![act.pid] = TRUE]
  /\ act' = [act EXCEPT !.wp = TRUE]
  /\ UNCHANGED <<ks, int3, image, many, root, origin, policy, ret, cliVars, callVars>>

remove_watchpoint ==
  /\ Idle /\ Reachable(act.pid) /\ act.wp
  /\ armed' = [armed EXCEPT ![act.pid] = FALSE]
  /\ act' = [act EXCEPT !.wp = FALSE]
  /\ UNCHANGED <<ks, int3, image, many, root, origin, policy, ret, cliVars, callVars>>

\* The two domains change places; the registry key becomes the old active pid.
swap_active_process(p) ==
  /\ act' = ret[p]
  /\ ret' = [q \in (DOMAIN ret \ {p}) \cup {act.pid} |-> IF q = act.pid THEN act ELSE ret[q]]

\* Debugger::select_process and the command line's new ElfFile.
select_process(p) ==
  /\ Idle /\ p \in DOMAIN ret /\ ret[p].st = "Stopped" /\ act.pend = None
  /\ swap_active_process(p)
  /\ elf' = ret[p].exe
  /\ UNCHANGED <<kernelVars, origin, policy, user, callVars>>

\* continue_execution, or the single step of a source motion, up to its wait.
\* Only the source motions catch the exception of a process that is gone.
Resume(command) ==
  /\ Idle
  /\ IF Reachable(act.pid)
     THEN /\ ks' = [ks EXCEPT ![act.pid] = "run"]
          /\ act' = [act EXCEPT !.st = "Running"]
          /\ over' = (act.pend # None) /\ call' = command
     ELSE /\ call' = IF command = "step" THEN "idle" ELSE "threw"
          /\ UNCHANGED <<ks, act, over>>
  /\ UNCHANGED <<int3, armed, image, many, root, origin, policy, ret, cliVars, temp, vchild>>

(***************************************************************************)
(* next over a call, and finish, up to the wait of continue_execution: the *)
(* return address gets a temporary breakpoint unless the user has one      *)
(* there.  Where add_breakpoint throws, the motion does and nothing is     *)
(* changed.                                                                *)
(***************************************************************************)
run_to_return_address(a) ==
  LET new == {a} \ act.tab
  IN /\ Idle /\ Reachable(act.pid)
     /\ policy = "Both" /\ DOMAIN ret = {} => new = {}
     /\ temp' = IF a \in new THEN a ELSE None
     /\ int3' = [int3 EXCEPT ![act.pid] = @ \cup new]
     /\ act' = [act EXCEPT !.st = "Running", !.tab = @ \cup new, !.inst = @ \cup new]
     /\ ks' = [ks EXCEPT ![act.pid] = "run"]
     /\ over' = (act.pend # None) /\ call' = "run"
     /\ UNCHANGED <<armed, image, many, root, origin, policy, ret, cliVars, vchild>>

-----------------------------------------------------------------------------
(* wait_and_classify.                                                      *)

\* A source motion removes its temporary breakpoint before it ends.
AfterMotion == IF temp = None THEN "idle" ELSE "undo"

\* The command returns to the prompt.
Return == call' = AfterMotion /\ over' = FALSE /\ vchild' = None /\ UNCHANGED temp

\* An exception: main's handler ends the session, the motions' handler does not.
Throw == /\ call' = IF call = "continue" THEN "threw" ELSE AfterMotion
         /\ over' = FALSE /\ vchild' = None /\ UNCHANGED temp

\* The motion finds that its temporary breakpoint has gone with the domain it
\* was in, and throws.
TemporaryGone == call' = "idle" /\ over' = FALSE /\ vchild' = None /\ temp' = None

(***************************************************************************)
(* remove_temporary_breakpoint, in the active domain of now.  After an     *)
(* exception it is left out while the process counts as running, and its   *)
(* own error is dropped; either way the command line goes on.              *)
(***************************************************************************)
remove_temporary_breakpoint ==
  /\ call = "undo"
  /\ IF act.st = "Running" \/ (act.st = "Stopped" /\ temp \in act.inst /\ ~Reachable(act.pid))
     THEN UNCHANGED <<int3, act>>
     ELSE /\ int3' = IF act.st = "Stopped" /\ temp \in act.inst THEN UnpatchedInt3(temp) ELSE int3
          /\ act' = [act EXCEPT !.tab = @ \ {temp}, !.inst = @ \ {temp},
                                !.pend = IF @ = temp THEN None ELSE @]
  /\ call' = "idle" /\ temp' = None
  /\ UNCHANGED <<ks, armed, image, many, root, origin, policy, ret, cliVars, over, vchild>>

\* The domain d after step_over_pending_breakpoint, when that is the call.
Settled(d) == [d EXCEPT !.st = "Stopped",
                        !.inst = IF over THEN @ \cup ({act.pend} \cap d.tab) ELSE @,
                        !.pend = IF over THEN None ELSE @]

\* The INT3 that reinsert_breakpoint writes in the process of domain d.
SettledInt3(m, d) == IF over THEN [m EXCEPT ![d.pid] = @ \cup ({act.pend} \cap (d.tab \ d.inst))]
                     ELSE m

\* The displaced instruction has been stepped; continue_execution goes on.
OnStep ==
  /\ Waiting /\ (over \/ call = "step")
  /\ int3' = SettledInt3(int3, act)
  /\ IF call = "step"
     THEN act' = Settled(act) /\ ks' = [ks EXCEPT ![act.pid] = "stop"]
          /\ call' = "idle" /\ over' = FALSE
     ELSE act' = [Settled(act) EXCEPT !.st = "Running"] /\ over' = FALSE /\ UNCHANGED <<ks, call>>
  /\ UNCHANGED <<armed, image, many, root, origin, policy, ret, cliVars, temp, vchild>>

\* A managed INT3: the byte is restored and the step over it stays pending.
OnBreakpoint(a) ==
  /\ Waiting /\ ~over /\ call # "step" /\ a \in int3[act.pid]
  /\ ks' = [ks EXCEPT ![act.pid] = "stop"]
  /\ IF a \in act.inst
     THEN /\ int3' = UnpatchedInt3(a)
          /\ act' = [act EXCEPT !.st = "Stopped", !.inst = @ \ {a}, !.pend = a]
     ELSE act' = [act EXCEPT !.st = "Stopped"] /\ UNCHANGED int3
  /\ Return
  /\ UNCHANGED <<armed, image, many, root, origin, policy, ret, cliVars>>

\* A signal, or the watchpoint.
OnSignal ==
  /\ Waiting
  /\ ks' = [ks EXCEPT ![act.pid] = "stop"]
  /\ int3' = SettledInt3(int3, act) /\ act' = Settled(act)
  /\ Return
  /\ UNCHANGED <<armed, image, many, root, origin, policy, ret, cliVars>>

first_stopped_retained_process == Min({p \in DOMAIN ret : ret[p].st = "Stopped"})

(***************************************************************************)
(* The process exits or is killed.  The survivor with the lowest pid is    *)
(* selected; step_over_pending_breakpoint then reinserts its breakpoint in *)
(* the survivor, where it finds it installed or not at all.                *)
(***************************************************************************)
OnExit ==
  LET s == first_stopped_retained_process
      memory == [int3 EXCEPT ![act.pid] = {}]
  IN /\ Waiting
     /\ ks' = [ks EXCEPT ![act.pid] = "dead"]
     /\ IF \E p \in DOMAIN ret : ret[p].st = "Stopped"
        THEN /\ act' = Settled(ret[s]) /\ int3' = SettledInt3(memory, ret[s])
             /\ ret' = [q \in DOMAIN ret \ {s} |-> ret[q]]
             /\ IF temp = None THEN Return ELSE TemporaryGone
        ELSE /\ act' = [act EXCEPT !.st = "Exited", !.wp = FALSE,
                                   !.pend = IF over THEN None ELSE @]
             /\ int3' = memory /\ Return /\ UNCHANGED ret
     /\ armed' = [armed EXCEPT ![act.pid] = FALSE]
     /\ UNCHANGED <<image, many, root, origin, policy, cliVars>>

refresh_image_entries_kept == elf' = "new" /\ UNCHANGED user

\* The command line's part of an exec: on_image_replaced and a new ElfFile.
refresh_image == elf' = "new" /\ user' = [user EXCEPT ![act.pid] = {}]

\* What it keeps of the old image when the motion throws instead.
image_not_refreshed ==
  user' = [user EXCEPT ![act.pid] = IF @ = {} THEN {} ELSE {None}] /\ UNCHANGED elf

\* collapse_after_exec and discard_image_state.  A motion whose temporary
\* breakpoint was in the table that is discarded does not get to refresh_image.
OnExec ==
  /\ Waiting
  /\ ks' = [ks EXCEPT ![act.pid] = "stop"]
  /\ int3' = [int3 EXCEPT ![act.pid] = {}] /\ armed' = [armed EXCEPT ![act.pid] = FALSE]
  /\ image' = [image EXCEPT ![act.pid] = "new"] /\ many' = many \ {act.pid}
  /\ act' = Fresh(act.pid, "new", FALSE)
  /\ \/ temp = None /\ refresh_image /\ Return
     \/ temp # None /\ "exec_in_motion" \in Faults /\ image_not_refreshed /\ TemporaryGone
  /\ UNCHANGED <<root, origin, policy, ret>>

\* wait_active_process asks for the current thread only, not for any.
WaitsForCurrent == DOMAIN ret # {}

\* PTRACE_EVENT_CLONE: the new thread's first stop is collected next, unless the
\* wait is for the thread that has just stopped.
OnClone ==
  /\ Waiting /\ "thread" \in Faults
  /\ ks' = [ks EXCEPT ![act.pid] = "stop"]
  /\ many' = many \cup {act.pid}
  /\ IF act.wp THEN act' = [act EXCEPT !.st = "Stopped"] /\ Throw /\ UNCHANGED int3
     ELSE IF WaitsForCurrent THEN UNCHANGED <<act, int3, callVars>>
     ELSE int3' = SettledInt3(int3, act) /\ act' = Settled(act) /\ Return
  /\ UNCHANGED <<armed, image, root, origin, policy, ret, cliVars>>

\* What a fork child starts with: a copy of the parent's memory, and debug
\* registers that are clean or a copy.
Inherits(c, regs) ==
  /\ Waiting /\ ks[c] = "none" /\ regs \in {FALSE, armed[act.pid]}
  /\ image' = [image EXCEPT ![c] = image[act.pid]]

\* Mutant: the rejected child is left in its ptrace stop.
RejectChild_kept(c) ==
  /\ ks' = [ks EXCEPT ![act.pid] = "stop", ![c] = "stop"]
  /\ act' = [act EXCEPT !.st = "Stopped"]
  /\ Throw
  /\ UNCHANGED <<armed, ret>>

\* The child is killed, the parent stays at its fork event and the call throws.
\* A child that a SIGKILL from outside took first, after its initial stop, can
\* not be detached: it stays a tracee whose end nobody has collected.
RejectChild(c) ==
  /\ \E end \in {"dead"} \cup (IF "kill" \in Faults THEN {"zombie"} ELSE {}) :
       ks' = [ks EXCEPT ![act.pid] = "stop", ![c] = end]
  /\ act' = [act EXCEPT !.st = "Stopped"]
  /\ Throw
  /\ UNCHANGED <<armed, ret>>

\* Mutant: the inherited INT3s stay in the process that is released.
ReleasedBytes_patched == int3[act.pid]

\* The INT3s of a copy of the memory after the original bytes of the installed
\* breakpoints are written back.
ReleasedBytes == int3[act.pid] \ act.inst

\* Follow the parent: the child gets its own bytes and registers back and is
\* released.  A child that was killed makes it throw.
OnForkParent(c, regs) ==
  /\ Inherits(c, regs) /\ policy = "Parent"
  /\ \/ /\ ks' = [ks EXCEPT ![act.pid] = "stop", ![c] = "free"]
        /\ int3' = SettledInt3([int3 EXCEPT ![c] = ReleasedBytes], act)
        /\ armed' = [armed EXCEPT ![c] = IF act.wp THEN FALSE ELSE regs]
        /\ act' = Settled(act) /\ Return /\ UNCHANGED ret
     \/ "kill" \in Faults /\ RejectChild(c) /\ UNCHANGED int3
  /\ UNCHANGED <<many, root, origin, policy, cliVars>>

\* Mutant: the child is left with the debug registers it was born with.
TransferredRegs_inherited(regs) == regs

\* The parent's armed debug registers are written to the child.
TransferredRegs(regs) == IF act.wp THEN TRUE ELSE regs

(***************************************************************************)
(* Follow the child: the parent's bytes and debug registers are restored,  *)
(* the watchpoint moves to the child, the parent is released and the       *)
(* breakpoint table now describes the child's copy of the memory.  When    *)
(* the child was killed, the error can come before or, while its debug     *)
(* registers are written, after the parent's bytes are restored.           *)
(***************************************************************************)
OnForkChild(c, regs) ==
  LET d == [act EXCEPT !.pid = c]
      restored == [int3 EXCEPT ![act.pid] = ReleasedBytes]
  IN /\ Inherits(c, regs) /\ policy = "Child"
     /\ \/ /\ origin = "Launched" /\ act.pid \notin many
           /\ ks' = [ks EXCEPT ![act.pid] = "free", ![c] = "stop"]
           /\ int3' = SettledInt3([restored EXCEPT ![c] = int3[act.pid]], d)
           /\ armed' = [armed EXCEPT ![act.pid] = FALSE, ![c] = TransferredRegs(regs)]
           /\ act' = Settled(d) /\ Return /\ UNCHANGED ret
        \/ (origin = "Attached" \/ act.pid \in many) /\ RejectChild(c) /\ UNCHANGED int3
        \/ /\ "kill" \in Faults /\ origin = "Launched" /\ act.pid \notin many
           /\ RejectChild(c) /\ int3' \in {int3} \cup (IF act.wp THEN {restored} ELSE {})
     /\ UNCHANGED <<many, root, origin, policy, cliVars>>

\* The guards of Debugger on retaining both processes.
CanRetain == /\ origin = "Launched" /\ act.pid \notin many
             /\ 1 + Cardinality(DOMAIN ret) < kMaxProcessDomains
             /\ act.tab = {} /\ act.pend = None

\* Follow both: the child becomes a retained domain of its own, with a copy of
\* the watchpoint.
OnForkBoth(c, regs) ==
  /\ Inherits(c, regs) /\ policy = "Both"
  /\ IF CanRetain
     THEN \/ /\ ks' = [ks EXCEPT ![act.pid] = "stop", ![c] = "stop"]
             /\ int3' = [int3 EXCEPT ![c] = int3[act.pid]]
             /\ armed' = [armed EXCEPT ![c] = TransferredRegs(regs)]
             /\ ret' = [q \in DOMAIN ret \cup {c} |->
                          IF q = c THEN Fresh(c, act.exe, act.wp) ELSE ret[q]]
             /\ act' = [act EXCEPT !.st = "Stopped"] /\ Return
          \/ "kill" \in Faults /\ RejectChild(c) /\ UNCHANGED int3
     ELSE RejectChild(c) /\ UNCHANGED int3
  /\ UNCHANGED <<many, root, origin, policy, cliVars>>

\* waitpid(-1) returns the stop of the new child, which is no thread of the
\* process, before the fork event.
OnForkChildFirst(c, regs) ==
  /\ Inherits(c, regs) /\ "child_first" \in Faults /\ ~WaitsForCurrent
  /\ ks' = [ks EXCEPT ![act.pid] = "stop", ![c] = "stop"]
  /\ int3' = [int3 EXCEPT ![c] = int3[act.pid]]
  /\ armed' = [armed EXCEPT ![c] = regs]
  /\ Throw
  /\ UNCHANGED <<many, root, debugVars, cliVars>>

(***************************************************************************)
(* vfork: with the parent stopped and the memory shared, the child's       *)
(* registers are cleaned and it runs until it exits or execs; a trap, such *)
(* as a breakpoint of the parent, is an error, and so is a SIGKILL from    *)
(* outside that comes before it runs.  Then the parent runs to             *)
(* PTRACE_EVENT_VFORK_DONE.                                                *)
(***************************************************************************)
OnVfork(c, regs) ==
  /\ Waiting /\ ks[c] = "none" /\ regs \in {FALSE, armed[act.pid]}
  /\ \/ /\ ks' = [ks EXCEPT ![c] = "dead"] /\ vchild' = c
        /\ UNCHANGED <<armed, image, act, call, temp, over>>
     \/ /\ ks' = [ks EXCEPT ![c] = "free"] /\ vchild' = c
        /\ armed' = [armed EXCEPT ![c] = IF act.wp THEN FALSE ELSE regs]
        /\ image' = [image EXCEPT ![c] = "new"]
        /\ UNCHANGED <<act, call, temp, over>>
     \/ /\ int3[act.pid] # {} \/ "kill" \in Faults
        /\ RejectChild(c)
        /\ UNCHANGED image
  /\ UNCHANGED <<int3, many, root, origin, policy, ret, cliVars>>

OnVforkDone ==
  /\ call \in Motions /\ vchild # None
  /\ ks' = [ks EXCEPT ![act.pid] = "stop"]
  /\ int3' = SettledInt3(int3, act) /\ act' = Settled(act)
  /\ Return
  /\ UNCHANGED <<armed, image, many, root, origin, policy, ret, cliVars>>

\* waitpid(-1) returns the death of a process the session does not wait for.
OnStray(z) ==
  /\ call \in Motions
  /\ vchild # None \/ ~WaitsForCurrent
  /\ ks[z] = "zombie" /\ z # act.pid
  /\ ks' = [ks EXCEPT ![z] = "dead"]
  /\ Throw
  /\ UNCHANGED <<int3, armed, image, many, root, debugVars, cliVars>>

\* A released process ends.
Ends(p) ==
  /\ ks[p] = "free"
  /\ ks' = [ks EXCEPT ![p] = IF Reaped(p) THEN "zombie" ELSE "dead"]
  /\ UNCHANGED <<int3, armed, image, many, root, debugVars, cliVars, callVars>>

\* SIGKILL from outside takes a stopped process.
Kill(p) ==
  /\ "kill" \in Faults /\ ks[p] = "stop"
  /\ ks' = [ks EXCEPT ![p] = "zombie"]
  /\ UNCHANGED <<int3, armed, image, many, root, debugVars, cliVars, callVars>>

-----------------------------------------------------------------------------
(* The end of the session: quit, an exception, or the last process's end.  *)

Ending == call \in {"idle", "threw"}

\* Mutant: no process is killed.
KilledAtEnd_none == {}

\* The processes that ~Debugger and ~Process send SIGKILL.
KilledAtEnd == Owned

\* ~Debugger and ~Process of a launched session kill every domain and wait
\* until the debugger has no child left.
destroy_launched ==
  /\ Ending /\ origin = "Launched"
  /\ ks' = [p \in Pid |-> IF p \in KilledAtEnd /\ ks[p] \in {"stop", "run"} THEN "zombie" ELSE ks[p]]
  /\ call' = IF act.st = "Exited" /\ DOMAIN ret = {} THEN "gone" ELSE "cleanup"
  /\ UNCHANGED <<int3, armed, image, many, root, debugVars, cliVars, temp, over, vchild>>

\* Debugger::detach, or ~Debugger: the attached process is restored and
\* released.  What is still traced when mdbg exits is released as it is.
destroy_attached ==
  /\ Ending /\ origin = "Attached"
  /\ ks' = [p \in Pid |-> IF ks[p] \in {"stop", "run"} THEN "free" ELSE ks[p]]
  /\ IF act.st = "Stopped" /\ Reachable(act.pid)
     THEN /\ int3' = [int3 EXCEPT ![act.pid] = @ \ act.inst]
          /\ armed' = [armed EXCEPT ![act.pid] = IF act.wp THEN FALSE ELSE @]
     ELSE UNCHANGED <<int3, armed>>
  /\ call' = "gone"
  /\ UNCHANGED <<image, many, root, debugVars, cliVars, temp, over, vchild>>

Reap(p) ==
  /\ call = "cleanup" /\ ks[p] = "zombie"
  /\ ks' = [ks EXCEPT ![p] = "dead"]
  /\ UNCHANGED <<int3, armed, image, many, root, debugVars, cliVars, callVars>>

\* waitpid(-1) has no child left to wait for.
cleanup_ends ==
  /\ call = "cleanup"
  /\ \A p \in Pid : ks[p] \notin {"stop", "run", "zombie"} /\ ~(ks[p] = "free" /\ Reaped(p))
  /\ call' = "gone"
  /\ UNCHANGED <<kernelVars, debugVars, cliVars, temp, over, vchild>>

Next ==
  \/ \E new \in env.policies : set_fork_follow_policy(new)
  \/ \E a \in Addr : add_breakpoint(a) \/ OnBreakpoint(a) \/ run_to_return_address(a)
  \/ \E a \in Addr \cup {None} : remove_breakpoint(a)
  \/ add_write_watchpoint \/ remove_watchpoint
  \/ \E p \in Pid : select_process(p) \/ OnStray(p) \/ Ends(p) \/ Kill(p) \/ Reap(p)
  \/ \E command \in {"continue", "step"} : Resume(command)
  \/ OnStep \/ OnSignal \/ OnExit \/ OnExec \/ OnClone
  \/ \E c \in Pid, regs \in BOOLEAN :
       OnForkParent(c, regs) \/ OnForkChild(c, regs) \/ OnForkBoth(c, regs)
         \/ OnForkChildFirst(c, regs) \/ OnVfork(c, regs)
  \/ OnVforkDone \/ remove_temporary_breakpoint
  \/ destroy_launched \/ destroy_attached \/ cleanup_ends

Spec == Init /\ [][Next /\ UNCHANGED env]_<<vars, env>>

\* A killed process can be reaped, and the loop of ~Process runs on.
FairSpec == Spec /\ WF_vars(cleanup_ends) /\ WF_vars(\E p \in Pid : Reap(p))

-----------------------------------------------------------------------------
(* Properties.                                                             *)

Domains == {act} \cup {ret[p] : p \in DOMAIN ret}

\* What a domain records is what its process has: the INT3s in its memory are
\* the installed breakpoints, its debug registers hold its watchpoint, and
\* only the breakpoint being stepped over is lifted.  A retained process is
\* stopped with nothing pending: promotion relies on it, since
\* step_over_pending_breakpoint writes into whatever process is active.  This
\* is what fork, exec, handoff, selection and promotion must each keep for
\* every process at once.
\* A SIGKILL from outside can interrupt the transfer of a watchpoint.
DomainState ==
  "kill" \notin Faults =>
    \A d \in Domains : ks[d.pid] \in {"stop", "run"} =>
      /\ int3[d.pid] = d.inst /\ armed[d.pid] = d.wp
      /\ d.exe = image[d.pid]
      /\ d.tab \ d.inst = {d.pend} \ {None}
      /\ d.pid # act.pid => d.st = "Stopped" /\ d.pend = None

\* At the prompt of a live process, the user's entries for it are its
\* breakpoints, whatever ended a source motion and its temporary breakpoint,
\* and the command line's ElfFile is its image.  A handoff to the child moves
\* the breakpoints and not the entries; the promotion of a retained process
\* does not refresh the ElfFile; and after an exec under next or finish neither
\* is refreshed, since the motion throws.
CliFollows ==
  "exec_in_motion" \notin Faults /\ Idle /\ Reachable(act.pid) =>
    /\ "Child" \notin env.policies => user[act.pid] = act.tab
    /\ "Both" \notin env.policies => elf = image[act.pid]

\* The session of an attached process ended after a wait that threw: the
\* process counts as running and ~Debugger restores nothing.
Abandoned == origin = "Attached" /\ call = "gone" /\ act.st = "Running"

\* A process the session has released runs with its own bytes and without the
\* session's watchpoint, whichever way it was released.  The exceptions are in
\* attached sessions.  A fork child whose first stop came too early is in no
\* domain and is released as it is when mdbg exits.  And a rejected child that
\* was killed from outside stays to be collected, the next wait throws on it,
\* and the attached process is abandoned.
ReleasedClean ==
  "child_first" \notin Faults \/ origin = "Launched" =>
    \A p \in Pid : ks[p] = "free" =>
      \/ int3[p] = {} /\ ~armed[p]
      \/ "kill" \in Faults /\ p = act.pid /\ Abandoned

\* Every traced process belongs to a domain: the ptrace ownership of a fork or
\* vfork child never outlives the handler, unless its first stop is collected
\* before the fork event, which makes wait_for throw.
TracedOwned ==
  "child_first" \notin Faults => \A p \in Pid : ks[p] \in {"run", "stop"} => p \in Owned

\* The end of a session is held up by nothing but a launched process that was
\* released and runs on, or a fork child whose first stop came too early.
QuitEnds ==
  "child_first" \notin Faults =>
    (call = "cleanup" ~> (call = "gone" \/ ks[root] = "free"))
=============================================================================
