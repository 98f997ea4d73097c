----------------------------- MODULE Watchpoints -----------------------------
(***************************************************************************)
(* The hardware write watchpoint of a traced process: slot 0 of the debug  *)
(* registers of one thread, saved, programmed and restored through ptrace, *)
(* together with one software breakpoint, the two sources of SIGTRAP that  *)
(* wait_and_classify has to tell apart.                                    *)
(*                                                                         *)
(* Only the selected thread runs, so what it does and the handler of the   *)
(* wait status it causes are one action.  One instruction, the one at the  *)
(* breakpoint's address, is enough for the displaced step: rip is "at" it, *)
(* "mid" (one byte behind it, where an executed INT3 leaves it) or "else". *)
(***************************************************************************)
EXTENDS Naturals, FiniteSets, FiniteSetsExt

CONSTANTS
  Tid,      \* thread ids
  Leader,   \* the thread group leader's
  Origins,  \* how the session starts: Launched, Attached
  Faults    \* refuse: the kernel refuses a debug-register write; kill:
            \*   SIGKILL from outside; clone: the program creates a thread

ASSUME WatchAssumption ==
  /\ Tid \subseteq Nat \ {0} /\ IsFiniteSet(Tid) /\ Leader \in Tid
  /\ Origins \subseteq {"Launched", "Attached"}
  /\ Faults \subseteq {"refuse", "kill", "clone"}

None == 0

VARIABLES
  \* the kernel
  ks,      \* none, stop, run, zombie (its death is not yet collected)
  dr,      \* debug registers: DR0, DR6 and slot 0's enable and control bits of DR7
  rip,     \* where a thread is relative to the breakpoint's address
  int3,    \* memory holds INT3 at that address
  \* Process
  origin, reg, cur,
  \* Debugger
  snap,    \* watchpoint_ and watchpoint_register_snapshot_
  bp,      \* the breakpoint: none, installed, lifted
  pend,    \* the thread of pending_breakpoint_step_
  call,    \* idle, continue, step, over_continue, over_step, threw, detached, gone
  stop,    \* stop_info_.reason
  \* history
  found,   \* the debug registers as they would be without the debugger
  hit      \* the motion's last instruction fired the watchpoint

kernelVars == <<ks, dr, rip, int3>>
procVars == <<origin, reg, cur>>
debugVars == <<snap, bp, pend, call, stop>>
ghostVars == <<found, hit>>
vars == <<ks, dr, rip, int3, origin, reg, cur, snap, bp, pend, call, stop, found, hit>>

DebugRegisters == [dr0 : {"zero", "foreign", "watched"}, dr6 : SUBSET {"B0", "BS"},
                   en : BOOLEAN, ctl : {"zero", "foreign", "write"}]
Cleared == [dr0 |-> "zero", dr6 |-> {}, en |-> FALSE, ctl |-> "zero"]
\* What an earlier tracer may have left behind: a disabled slot with stale
\* bits, and a slot that is in use.
Residue == [dr0 |-> "foreign", dr6 |-> {"B0"}, en |-> FALSE, ctl |-> "foreign"]
InUse == [dr0 |-> "foreign", dr6 |-> {}, en |-> TRUE, ctl |-> "foreign"]

NoSnap == [tid |-> None, dr |-> Cleared]
Alive(t) == ks[t] \in {"stop", "run"}
Watching == snap # NoSnap
Idle == call = "idle"
\* A ptrace request on t succeeds.
Reachable(t) == ks[t] = "stop"
Registered == {t \in Tid : reg[t] # "none"}

Init ==
  /\ origin \in Origins
  /\ ks \in [Tid -> {"none", "stop"}] /\ ks[Leader] = "stop"
  /\ origin = "Launched" => \A t \in Tid : ks[t] = "stop" <=> t = Leader
  /\ reg = [t \in Tid |-> IF ks[t] = "stop" THEN "Stopped" ELSE "none"]
  /\ cur = Leader
  /\ dr \in [Tid -> IF origin = "Attached" THEN {Cleared, Residue, InUse} ELSE {Cleared}]
  /\ \A t \in Tid : ks[t] = "none" => dr[t] = Cleared
  /\ found = dr
  /\ rip = [t \in Tid |-> "else"] /\ int3 = FALSE
  /\ snap = NoSnap /\ bp = "none" /\ pend = None
  /\ call = "idle" /\ stop = "Trap" /\ hit = FALSE

-----------------------------------------------------------------------------
(* The watchpoint.                                                         *)

\* The registers after the four writes of add_write_watchpoint.
programmed(r) == [dr0 |-> "watched", dr6 |-> r.dr6 \ {"B0"}, en |-> TRUE, ctl |-> "write"]

\* The registers after the first n of them.
partly(r, n) ==
  [dr0 |-> IF n >= 2 THEN "watched" ELSE r.dr0,
   dr6 |-> IF n >= 3 THEN r.dr6 \ {"B0"} ELSE r.dr6,
   en |-> FALSE, ctl |-> "zero"]

\* Mutant: the rollback only writes DR7.
rolled_back_dr7(r, s) == [r EXCEPT !.en = s.en, !.ctl = s.ctl]

\* The catch block's four writes.
rolled_back(r, s) == [r EXCEPT !.dr0 = s.dr0, !.dr6 = s.dr6, !.en = s.en, !.ctl = s.ctl]

\* An address or a DR7 the kernel does not accept makes the second or the
\* fourth write fail; the exception reaches the caller after the rollback.
add_write_watchpoint(refused) ==
  /\ Idle /\ ~Watching /\ Reachable(cur) /\ ~dr[cur].en
  /\ refused # 0 => "refuse" \in Faults
  /\ IF refused = 0
     THEN /\ dr' = [dr EXCEPT ![cur] = programmed(@)]
          /\ snap' = [tid |-> cur, dr |-> dr[cur]]
     ELSE /\ dr' = [dr EXCEPT ![cur] = rolled_back(partly(@, refused - 1), @)]
          /\ UNCHANGED snap
  /\ UNCHANGED <<ks, rip, int3, procVars, bp, pend, call, stop, ghostVars>>

Restorable == reg[snap.tid] = "Stopped" /\ Reachable(snap.tid)
restore_watchpoint_registers ==
  IF Watching THEN [dr EXCEPT ![snap.tid] = rolled_back(@, snap.dr)] ELSE dr

remove_watchpoint ==
  /\ Idle /\ Watching /\ Restorable
  /\ dr' = restore_watchpoint_registers
  /\ snap' = NoSnap
  /\ UNCHANGED <<ks, rip, int3, procVars, bp, pend, call, stop, ghostVars>>

-----------------------------------------------------------------------------
(* The breakpoint, thread selection and the start of a motion.             *)

add_breakpoint ==
  /\ Idle /\ bp = "none" /\ Reachable(cur)
  /\ int3' = TRUE /\ bp' = "installed"
  /\ UNCHANGED <<ks, dr, rip, procVars, snap, pend, call, stop, ghostVars>>

remove_breakpoint ==
  /\ Idle /\ bp # "none" /\ (bp = "installed" => Reachable(cur))
  /\ int3' = FALSE /\ bp' = "none" /\ pend' = None
  /\ UNCHANGED <<ks, dr, rip, procVars, snap, call, stop, ghostVars>>

select_thread(t) ==
  /\ Idle /\ t # cur /\ pend \in {None, t}
  /\ reg[t] = "Stopped" /\ \A u \in Registered : reg[u] = "Stopped"
  /\ cur' = t
  /\ UNCHANGED <<kernelVars, origin, reg, debugVars, ghostVars>>

\* continue_execution and single_step up to their first wait; with a pending
\* displaced step that is step_over_pending_breakpoint.  The thread of a
\* pending step is the selected one.
Resume(motion) ==
  /\ Idle /\ motion \in {"continue", "step"} /\ Reachable(cur) /\ pend \in {None, cur}
  /\ ks' = [ks EXCEPT ![cur] = "run"]
  /\ reg' = [reg EXCEPT ![cur] = "Running"]
  /\ call' = IF pend = None THEN motion
             ELSE IF motion = "continue" THEN "over_continue" ELSE "over_step"
  /\ hit' = FALSE
  /\ UNCHANGED <<dr, rip, int3, origin, cur, snap, bp, pend, stop, found>>

-----------------------------------------------------------------------------
(* What the running thread does, and wait_and_classify.                    *)

Moving == call \in {"continue", "step", "over_continue", "over_step"}
Over == call \in {"over_continue", "over_step"}
expected_single_step == call # "continue"

\* Mutant: the hit is looked for after the single step.
classify_trap_late(t, r6, behind) ==
  IF expected_single_step THEN "SingleStep"
  ELSE IF Watching /\ snap.tid = t /\ "B0" \in r6 THEN "Watchpoint"
  ELSE IF behind /\ bp = "installed" THEN "Breakpoint" ELSE "Trap"

\* What a SIGTRAP stop of t is reported as, with DR6 = r6 and RIP one byte
\* behind the breakpoint or not.
classify_trap(t, r6, behind) ==
  IF Watching /\ snap.tid = t /\ "B0" \in r6 THEN "Watchpoint"
  ELSE IF expected_single_step THEN "SingleStep"
  ELSE IF behind /\ bp = "installed" THEN "Breakpoint" ELSE "Trap"

\* Mutant: only a completed single step reinstalls the breakpoint.
Reinserts_after_step(reason) == Over /\ bp = "lifted" /\ reason = "SingleStep"

\* step_over_pending_breakpoint reinstalls the breakpoint after any stop.
Reinserts(reason) == Over /\ bp = "lifted"

\* classify_watchpoint_stop clears the bit it reports.
acknowledged(r) == [r EXCEPT !.dr6 = @ \ {"B0"}]

\* The SIGTRAP of thread t, whose debug registers are r and whose rip is `at',
\* through classification and the end of a displaced step.  A completed
\* displaced step of `continue' resumes the thread.
Trapped(t, r, at, fired) ==
  LET reason == classify_trap(t, r.dr6, at = "mid")
      goesOn == call = "over_continue" /\ reason = "SingleStep"
      isHit == reason = "Breakpoint"
      back == Reinserts(reason)
  IN /\ dr' = [dr EXCEPT ![t] = IF reason = "Watchpoint" THEN acknowledged(r) ELSE r]
     /\ found' = IF Watching /\ snap.tid = t THEN found
                 ELSE [found EXCEPT ![t] = dr'[t]]
     /\ rip' = [rip EXCEPT ![t] = IF isHit THEN "at" ELSE at]
     /\ bp' = IF isHit THEN "lifted" ELSE IF back THEN "installed" ELSE bp
     /\ int3' = IF isHit THEN FALSE ELSE IF back THEN TRUE ELSE int3
     /\ pend' = IF isHit THEN t ELSE IF Over THEN None ELSE pend
     /\ cur' = t
     /\ ks' = [ks EXCEPT ![t] = IF goesOn THEN "run" ELSE "stop"]
     /\ reg' = [reg EXCEPT ![t] = IF goesOn THEN "Running" ELSE "Stopped"]
     /\ call' = IF goesOn THEN "continue" ELSE "idle"
     /\ stop' = IF goesOn THEN stop ELSE reason
     /\ hit' = fired
     /\ UNCHANGED <<origin, snap>>

\* t executes the INT3.  DR6 is not touched by a breakpoint exception.
Int3(t) ==
  /\ Moving /\ ks[t] = "run" /\ rip[t] = "at" /\ int3
  /\ Trapped(t, dr[t], "mid", FALSE)

\* t executes an instruction, which stores to the watched address of its slot
\* or not, and arrives at `at'.  A debug exception sets the status bits of what
\* fired; whether it clears the older ones depends on the kernel.
Instruction(t, stores, at, kept) ==
  LET fires == stores /\ dr[t].en
      ours == fires /\ Watching /\ snap.tid = t
      bits == (IF fires THEN {"B0"} ELSE {}) \cup (IF call # "continue" THEN {"BS"} ELSE {})
  IN /\ Moving /\ ks[t] = "run" /\ ~(rip[t] = "at" /\ int3)
     /\ at \in {"at", "else"} /\ kept \subseteq dr[t].dr6
     /\ IF bits # {}
        THEN Trapped(t, [dr[t] EXCEPT !.dr6 = bits \cup kept], at, ours)
        ELSE /\ rip' = [rip EXCEPT ![t] = at]
             /\ UNCHANGED <<ks, dr, int3, procVars, debugVars, ghostVars>>

\* A stop that is not a SIGTRAP ends the motion as well.
Signal(t) ==
  /\ Moving /\ ks[t] = "run"
  /\ ks' = [ks EXCEPT ![t] = "stop"] /\ reg' = [reg EXCEPT ![t] = "Stopped"]
  /\ cur' = t
  /\ bp' = IF Reinserts("Signal") THEN "installed" ELSE bp
  /\ int3' = IF Reinserts("Signal") THEN TRUE ELSE int3
  /\ pend' = IF Over THEN None ELSE pend
  /\ call' = "idle" /\ stop' = "Signal" /\ hit' = FALSE
  /\ UNCHANGED <<dr, rip, origin, snap, found>>

-----------------------------------------------------------------------------
(* Thread creation, exit, exec, SIGKILL.                                   *)

\* The watchpoint after the death of t has been reported.
kept_on_exit(t) == IF snap.tid = t THEN NoSnap ELSE snap

\* The death of t is collected.  step_over_pending_breakpoint reinstalls the
\* breakpoint through another stopped thread.  The prompt returns unless no
\* thread of the registry is stopped.
Collect(t) ==
  LET left == [reg EXCEPT ![t] = "none"]
      rest == Registered \ {t}
      stopped == {u \in rest : left[u] = "Stopped"}
      next == IF rest = {} THEN cur ELSE IF stopped # {} THEN Min(stopped) ELSE Min(rest)
      prompt == rest = {} \/ stopped # {}
      through == Reinserts("Exit") /\ stopped # {}
      fails == through /\ ~Reachable(next)
  IN /\ Moving /\ ks[t] = "zombie" /\ reg[t] # "none"
     /\ t = Leader => \A u \in Tid \ {t} : ks[u] = "none"
     /\ ks' = [ks EXCEPT ![t] = "none"] /\ reg' = left /\ cur' = next
     /\ dr' = [dr EXCEPT ![t] = Cleared] /\ found' = [found EXCEPT ![t] = Cleared]
     /\ rip' = [rip EXCEPT ![t] = "else"]
     /\ snap' = kept_on_exit(t)
     /\ bp' = IF through /\ ~fails THEN "installed" ELSE bp
     /\ int3' = IF through /\ ~fails THEN TRUE ELSE int3
     /\ pend' = IF Over /\ prompt /\ ~fails THEN None ELSE pend
     /\ call' = IF rest = {} THEN "gone" ELSE IF fails THEN "threw"
                ELSE IF prompt THEN "idle" ELSE call
     /\ stop' = IF rest = {} THEN "Exited" ELSE IF prompt THEN "ThreadExited" ELSE stop
     /\ hit' = FALSE
     /\ UNCHANGED origin

\* The running thread ends.
Exit(t) ==
  /\ Moving /\ ks[t] = "run" /\ ks' = [ks EXCEPT ![t] = "zombie"]
  /\ UNCHANGED <<dr, rip, int3, procVars, debugVars, ghostVars>>

\* SIGKILL from outside reaches every thread, at the prompt or during a motion.
Kill ==
  /\ "kill" \in Faults /\ \E t \in Tid : Alive(t)
  /\ call \notin {"detached", "gone"}
  /\ ks' = [t \in Tid |-> IF ks[t] = "none" THEN "none" ELSE "zombie"]
  /\ UNCHANGED <<dr, rip, int3, procVars, debugVars, ghostVars>>

\* The watchpoint after discard_image_state.
discard_image_state == NoSnap

\* exec by the running thread: the others are gone, it continues as the leader
\* with cleared debug registers in an image without the INT3.
Exec(t) ==
  /\ Moving /\ ks[t] = "run"
  /\ ks' = [u \in Tid |-> IF u = Leader THEN "stop" ELSE "none"]
  /\ reg' = [u \in Tid |-> IF u = Leader THEN "Stopped" ELSE "none"]
  /\ dr' = [u \in Tid |-> Cleared] /\ found' = [u \in Tid |-> Cleared]
  /\ rip' = [u \in Tid |-> "else"] /\ int3' = FALSE
  /\ cur' = Leader
  /\ snap' = discard_image_state /\ bp' = "none" /\ pend' = None
  /\ call' = "idle" /\ stop' = "Exec" /\ hit' = FALSE
  /\ UNCHANGED origin

\* The running thread creates u, which starts stopped with cleared debug
\* registers.  Its start is reported unless a watchpoint is set: then the
\* exception ends the session.
Clone(t, u) ==
  /\ "clone" \in Faults /\ Moving /\ ks[t] = "run" /\ ks[u] = "none" /\ reg[u] = "none"
  /\ ks' = [ks EXCEPT ![t] = "stop", ![u] = "stop"]
  /\ rip' = [rip EXCEPT ![u] = "else"]
  /\ IF Watching
     THEN /\ reg' = [reg EXCEPT ![t] = "Stopped", ![u] = "Running"]
          /\ cur' = t /\ call' = "threw" /\ UNCHANGED <<stop, bp, int3, pend>>
     ELSE /\ reg' = [reg EXCEPT ![t] = "Stopped", ![u] = "Stopped"]
          /\ cur' = u /\ call' = "idle" /\ stop' = "ThreadCreated"
          /\ bp' = IF Reinserts("ThreadCreated") THEN "installed" ELSE bp
          /\ int3' = IF Reinserts("ThreadCreated") THEN TRUE ELSE int3
          /\ pend' = IF Over THEN None ELSE pend
  /\ hit' = FALSE
  /\ UNCHANGED <<dr, origin, snap, found>>

-----------------------------------------------------------------------------
(* The end of a session.                                                   *)

\* Debugger::detach and ~Debugger of an attached process: the breakpoint, then
\* the registers, then PTRACE_DETACH of every thread.
detach ==
  /\ call \in {"idle", "threw"} /\ origin = "Attached"
  /\ \A t \in Registered : Reachable(t)
  /\ Watching => reg[snap.tid] = "Stopped"
  /\ int3' = FALSE /\ bp' = "none" /\ pend' = None
  /\ dr' = restore_watchpoint_registers /\ snap' = NoSnap
  /\ ks' = [t \in Tid |-> IF ks[t] = "none" THEN "none" ELSE "run"]
  /\ reg' = [t \in Tid |-> "none"] /\ call' = "detached"
  /\ UNCHANGED <<rip, origin, cur, stop, ghostVars>>

\* ~Process of a launched process kills it and collects every thread.
cleanup ==
  /\ call \in {"idle", "threw"} /\ origin = "Launched"
  /\ ks' = [t \in Tid |-> "none"] /\ reg' = [t \in Tid |-> "none"]
  /\ dr' = [t \in Tid |-> Cleared] /\ found' = dr' /\ rip' = [t \in Tid |-> "else"]
  /\ int3' = FALSE /\ bp' = "none" /\ pend' = None /\ snap' = NoSnap
  /\ call' = "gone" /\ hit' = FALSE
  /\ UNCHANGED <<origin, cur, stop>>

Next ==
  \/ \E n \in {0, 2, 4} : add_write_watchpoint(n)
  \/ remove_watchpoint \/ add_breakpoint \/ remove_breakpoint
  \/ \E t \in Tid : \/ select_thread(t) \/ Int3(t) \/ Signal(t)
                    \/ Collect(t) \/ Exit(t) \/ Exec(t)
                    \/ \E u \in Tid : Clone(t, u)
                    \/ \E stores \in BOOLEAN, at \in {"at", "else"}, kept \in SUBSET dr[t].dr6 :
                         Instruction(t, stores, at, kept)
  \/ \E m \in {"continue", "step"} : Resume(m)
  \/ Kill \/ detach \/ cleanup

Spec == Init /\ [][Next]_vars

-----------------------------------------------------------------------------
(* Properties.                                                             *)

\* The debug registers of every living thread that does not own the watchpoint
\* are what they would be without the debugger: after a refused request, a
\* deletion, a detach or an exec, and whatever thread is selected.
AsFound == \A t \in Tid : Alive(t) /\ t # snap.tid => dr[t] = found[t]

\* While a watchpoint is set, the thread that owns it is known to the registry
\* and, as long as it lives, its slot 0 watches the address, and the registers
\* that will be restored are the ones it would have without the debugger.
WatchArmed ==
  Watching => /\ reg[snap.tid] # "none"
              /\ Alive(snap.tid) => /\ dr[snap.tid].en /\ dr[snap.tid].dr0 = "watched"
                                    /\ snap.dr = found[snap.tid]

\* When a call returns, it reports a watchpoint hit exactly if the last
\* instruction executed stored to the watched address in the owner: also when
\* it was a single step, the displaced instruction of a breakpoint, or when an
\* INT3 trapped with stale bits in DR6.
HitReported == Idle => (stop = "Watchpoint" <=> hit)

\* A call that returns leaves the breakpoint in memory, unless it reports the
\* thread that stands on it: a watchpoint hit by the displaced instruction, a
\* signal or the thread's end do not leave it lifted.
BreakpointBack ==
  Idle /\ (\A t \in Registered : Alive(t)) =>
    (bp = "lifted" <=> pend # None /\ rip[pend] = "at" /\ ks[pend] = "stop")

=============================================================================
