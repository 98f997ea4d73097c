-------------------------- MODULE WatchpointsProofs --------------------------
(***************************************************************************)
(* AsFound, WatchArmed, HitReported and BreakpointBack for every set of    *)
(* threads, however a session starts and whichever faults occur.           *)
(***************************************************************************)
EXTENDS Watchpoints, TLAPS, WellFoundedInduction

\* Most leaves are first-order; the others name their prover.
USE Zenon

Types ==
  /\ ks \in [Tid -> {"none", "stop", "run", "zombie"}]
  /\ reg \in [Tid -> {"none", "Stopped", "Running"}]
  /\ dr \in [Tid -> DebugRegisters] /\ found \in [Tid -> DebugRegisters]
  /\ snap \in [tid : Tid, dr : DebugRegisters] \cup {NoSnap}
  /\ cur \in Tid

\* The registry and the kernel agree on which threads there are until the end.
Known == call \notin {"detached", "gone"} =>
           \A t \in Tid : reg[t] = "none" <=> ks[t] = "none"

(***************************************************************************)
(* AsFound and WatchArmed say nothing of a dead thread, whose death is     *)
(* still to be collected, or of one that is still to be created.  The      *)
(* registers of both have to be right as well: a thread that is created    *)
(* takes them over, and one that is dead still owns the watchpoint.        *)
(***************************************************************************)
Found == \A t \in Tid : t # snap.tid => dr[t] = found[t]
Armed == Watching => /\ reg[snap.tid] # "none"
                     /\ dr[snap.tid].en /\ dr[snap.tid].dr0 = "watched"
                     /\ snap.dr = found[snap.tid]

IInv == Types /\ Known /\ Found /\ Armed

\* 0 is not a thread.
LEMMA NoThread == None \notin Tid /\ NoSnap.tid = None
BY WatchAssumption DEF None, NoSnap

\* The least of a set of threads is one of them.
LEMMA MinMember ==
  ASSUME NEW S \in SUBSET Tid, S # {}
  PROVE  Min(S) \in S
<1>1. \E x \in S : \A y \in S : <<y, x>> \notin OpToRel(<, Nat)
  BY WatchAssumption, NatLessThanWellFounded, WFMin
<1>2. \A x, y \in Nat : <<y, x>> \notin OpToRel(<, Nat) => x <= y
  BY SMT DEF OpToRel
<1>. QED BY <1>1, <1>2, WatchAssumption DEF Min

\* Every initial state satisfies the invariant: nothing is watched.
LEMMA InitInv == Init => IInv
<1>. SUFFICES ASSUME Init PROVE IInv
  OBVIOUS
<1>1. Cleared \in DebugRegisters /\ Residue \in DebugRegisters /\ InUse \in DebugRegisters
  BY DEF Cleared, Residue, InUse, DebugRegisters
<1>2. Types
  BY <1>1, WatchAssumption, SMT DEF Init, Types
<1>3. Known /\ Found /\ Armed
  BY DEF Init, Known, Found, Armed, Watching
<1>. QED BY <1>2, <1>3 DEF IInv

\* The four writes of a rollback bring back what was saved.
LEMMA RolledBack ==
  ASSUME NEW r \in DebugRegisters, NEW s \in DebugRegisters
  PROVE  rolled_back(r, s) = s
BY DEF rolled_back, DebugRegisters

\* Whatever part of the registers was programmed, they have their type.
LEMMA Programmed ==
  ASSUME NEW r \in DebugRegisters
  PROVE  /\ programmed(r) \in DebugRegisters
         /\ programmed(r).en /\ programmed(r).dr0 = "watched"
         /\ \A n \in {1, 3} : partly(r, n) \in DebugRegisters
BY DEF programmed, partly, DebugRegisters

\* Setting a watchpoint saves the registers it programs; a refused request
\* leaves them as they were.
LEMMA AddInv ==
  ASSUME IInv, NEW n \in {0, 2, 4}, add_write_watchpoint(n)
  PROVE  IInv'
<1>. USE DEF IInv
<1>1. cur \in Tid /\ dr[cur] \in DebugRegisters /\ ~Watching /\ snap = NoSnap
  BY DEF Types, add_write_watchpoint, Watching
<1>2. dr[cur] = found[cur] /\ reg[cur] # "none"
  BY <1>1, NoThread DEF Found, Known, add_write_watchpoint, Reachable, Idle
<1>3. CASE n = 0
  <2>1. /\ dr' = [dr EXCEPT ![cur] = programmed(dr[cur])]
        /\ snap' = [tid |-> cur, dr |-> dr[cur]]
        /\ UNCHANGED <<ks, reg, cur, found, call>>
    BY <1>3 DEF add_write_watchpoint, procVars, ghostVars
  <2>2. Types'
    BY <2>1, <1>1, Programmed DEF Types
  <2>3. Known'
    BY <2>1 DEF Known
  <2>4. Found'
    BY <2>1, <1>1, NoThread DEF Found, Types
  <2>5. Armed'
    BY <2>1, <1>1, <1>2, Programmed DEF Armed, Types
  <2>. QED BY <2>2, <2>3, <2>4, <2>5
<1>4. CASE n # 0
  <2>1. rolled_back(partly(dr[cur], n - 1), dr[cur]) = dr[cur]
    BY <1>1, <1>4, Programmed, RolledBack, SMT
  <2>2. /\ dr' = [dr EXCEPT ![cur] = dr[cur]]
        /\ UNCHANGED <<ks, reg, cur, found, call, snap>>
    BY <1>4, <2>1 DEF add_write_watchpoint, procVars, ghostVars
  <2>3. dr' = dr
    BY <2>2, <1>1 DEF Types
  <2>. QED BY <2>2, <2>3, SMT DEF Types, Known, Found, Armed, Watching
<1>. QED BY <1>3, <1>4

\* Restoring the saved registers makes the owner's what they would be.
LEMMA Restored ==
  ASSUME IInv
  PROVE  /\ restore_watchpoint_registers \in [Tid -> DebugRegisters]
         /\ \A t \in Tid : restore_watchpoint_registers[t] = found[t]
<1>. USE DEF IInv
<1>1. CASE Watching
  <2>1. snap.tid \in Tid /\ snap.dr \in DebugRegisters
    BY <1>1 DEF Types, Watching
  <2>2. rolled_back(dr[snap.tid], snap.dr) = snap.dr
    BY <2>1, RolledBack DEF Types
  <2>3. restore_watchpoint_registers = [dr EXCEPT ![snap.tid] = snap.dr]
    BY <1>1, <2>2 DEF restore_watchpoint_registers
  <2>. QED BY <1>1, <2>1, <2>3 DEF Types, Found, Armed
<1>2. CASE ~Watching
  BY <1>2, NoThread DEF restore_watchpoint_registers, Types, Found, Watching
<1>. QED BY <1>1, <1>2

\* Deleting the watchpoint restores its owner.
LEMMA RemoveInv ==
  ASSUME IInv, remove_watchpoint
  PROVE  IInv'
<1>1. dr' = restore_watchpoint_registers /\ snap' = NoSnap /\ UNCHANGED <<ks, reg, cur, found, call>>
  BY DEF remove_watchpoint, procVars, ghostVars
<1>. QED BY <1>1, Restored DEF IInv, Types, Known, Found, Armed, Watching

\* A trap of t changes no registers but those of t, and of the owner's only
\* the status bits.
LEMMA TrappedInv ==
  ASSUME IInv, NEW t \in Tid, NEW r \in DebugRegisters, NEW at, NEW fired, Moving,
         r.en = dr[t].en, r.dr0 = dr[t].dr0, ks[t] = "run", Trapped(t, r, at, fired)
  PROVE  IInv'
<1>. USE DEF IInv
<1>. DEFINE x == IF classify_trap(t, r.dr6, at = "mid") = "Watchpoint" THEN acknowledged(r) ELSE r
<1>1. x \in DebugRegisters /\ x.en = r.en /\ x.dr0 = r.dr0
  BY DEF acknowledged, DebugRegisters
<1>2. dr' = [dr EXCEPT ![t] = x]
  BY DEF Trapped
<1>. HIDE DEF x
<1>3. \A u \in Tid : dr'[u] = IF u = t THEN x ELSE dr[u]
  BY <1>2 DEF Types
<1>4. found' = IF Watching /\ snap.tid = t THEN found ELSE [found EXCEPT ![t] = dr'[t]]
  BY DEF Trapped
<1>5. /\ UNCHANGED snap /\ cur' = t
      /\ \E k \in {"run", "stop"}, g \in {"Running", "Stopped"} :
           ks' = [ks EXCEPT ![t] = k] /\ reg' = [reg EXCEPT ![t] = g]
  BY DEF Trapped
<1>6. Types'
  BY <1>1, <1>2, <1>3, <1>4, <1>5, SMT DEF Types
<1>7. \A u \in Tid : (reg'[u] = "none" <=> reg[u] = "none") /\ (ks'[u] = "none" <=> ks[u] = "none")
  <2>1. reg[t] # "none"
    BY DEF Known, Moving
  <2>. QED BY <1>5, <2>1 DEF Types
<1>8. Known'
  BY <1>7 DEF Known, Moving
<1>9. Found'
  BY <1>3, <1>4, <1>5 DEF Found, Types
<1>10. Armed'
  <2>. SUFFICES ASSUME Watching' PROVE Armed'
    BY DEF Armed
  <2>1. Watching /\ snap.tid \in Tid
    BY <1>5 DEF Watching, Types
  <2>. QED BY <2>1, <1>1, <1>3, <1>4, <1>5, <1>7, SMT DEF Armed, Types
<1>. QED BY <1>6, <1>8, <1>9, <1>10

\* An instruction traps with the status bits of what fired, or not at all.
LEMMA InstructionInv ==
  ASSUME IInv, NEW t \in Tid, NEW stores, NEW at, NEW kept \in SUBSET dr[t].dr6,
         Instruction(t, stores, at, kept)
  PROVE  IInv'
<1>. DEFINE bits == (IF stores /\ dr[t].en THEN {"B0"} ELSE {})
                    \cup (IF call # "continue" THEN {"BS"} ELSE {})
            r == [dr[t] EXCEPT !.dr6 = bits \cup kept]
            ours == stores /\ dr[t].en /\ Watching /\ snap.tid = t
<1>1. Moving /\ ks[t] = "run"
  BY DEF Instruction
<1>2. dr[t] \in DebugRegisters
  BY DEF IInv, Types
<1>3. r \in DebugRegisters /\ r.en = dr[t].en /\ r.dr0 = dr[t].dr0
  BY <1>2 DEF DebugRegisters
<1>4. CASE bits # {}
  <2>1. \E f : Trapped(t, r, at, f)
    BY <1>4 DEF Instruction
  <2>. HIDE DEF r, bits
  <2>. QED BY <1>1, <1>3, <2>1, TrappedInv
<1>5. CASE bits = {}
  <2>1. UNCHANGED <<ks, reg, cur, dr, found, snap, call>>
    BY <1>5 DEF Instruction, procVars, debugVars, ghostVars
  <2>. QED BY <2>1 DEF IInv, Types, Known, Found, Armed, Watching
<1>. QED BY <1>4, <1>5

\* An INT3 traps with the status bits it finds.
LEMMA Int3Inv ==
  ASSUME IInv, NEW t \in Tid, Int3(t)
  PROVE  IInv'
<1>1. dr[t] \in DebugRegisters /\ Moving /\ ks[t] = "run" /\ Trapped(t, dr[t], "mid", FALSE)
  BY DEF Int3, IInv, Types
<1>. QED BY <1>1, TrappedInv

\* The actions that change the state of threads but no debug register.
LEMMA QuietInv ==
  ASSUME IInv, UNCHANGED <<dr, found, snap>>, Types',
         call' \notin {"detached", "gone"} => call \notin {"detached", "gone"},
         \A t \in Tid : /\ reg'[t] = "none" <=> reg[t] = "none"
                        /\ ks'[t] = "none" <=> ks[t] = "none"
  PROVE  IInv'
<1>. USE DEF IInv
<1>1. Known'
  BY DEF Known
<1>2. Found'
  BY DEF Found
<1>3. Armed'
  BY DEF Armed, Watching, Types
<1>. QED BY <1>1, <1>2, <1>3

\* Breakpoints, selection and the start of a motion.
LEMMA CommandInv ==
  ASSUME IInv,
         \/ add_breakpoint \/ remove_breakpoint \/ \E t \in Tid : select_thread(t)
         \/ \E m \in {"continue", "step"} : Resume(m)
  PROVE  IInv'
<1>1. CASE add_breakpoint \/ remove_breakpoint \/ \E t \in Tid : select_thread(t)
  <2>1. UNCHANGED <<ks, reg, dr, found, snap, call>> /\ cur' \in Tid
    BY <1>1 DEF add_breakpoint, remove_breakpoint, select_thread, procVars, kernelVars,
                debugVars, ghostVars, IInv, Types
  <2>. QED BY <2>1 DEF IInv, Types, Known, Found, Armed, Watching
<1>2. CASE \E m \in {"continue", "step"} : Resume(m)
  <2>1. /\ UNCHANGED <<dr, found, snap, cur>> /\ call = "idle" /\ ks[cur] = "stop"
        /\ ks' = [ks EXCEPT ![cur] = "run"] /\ reg' = [reg EXCEPT ![cur] = "Running"]
    BY <1>2 DEF Resume, Idle, Reachable
  <2>2. Types'
    BY <2>1 DEF IInv, Types
  <2>3. reg[cur] # "none"
    BY <2>1 DEF IInv, Types, Known
  <2>4. \A t \in Tid : /\ reg'[t] = "none" <=> reg[t] = "none"
                       /\ ks'[t] = "none" <=> ks[t] = "none"
    BY <2>1, <2>3 DEF IInv, Types
  <2>. QED BY <2>1, <2>2, <2>4, QuietInv
<1>. QED BY <1>1, <1>2

\* A signal, the end of a thread and SIGKILL.
LEMMA EventInv ==
  ASSUME IInv, Kill \/ \E t \in Tid : Signal(t) \/ Exit(t)
  PROVE  IInv'
<1>1. CASE Kill
  <2>1. /\ UNCHANGED <<dr, found, snap, cur, reg, call>>
        /\ ks' = [t \in Tid |-> IF ks[t] = "none" THEN "none" ELSE "zombie"]
    BY <1>1 DEF Kill, procVars, debugVars, ghostVars
  <2>2. Types'
    BY <2>1 DEF IInv, Types
  <2>3. \A t \in Tid : ks'[t] = "none" <=> ks[t] = "none"
    BY <2>1
  <2>. QED BY <2>1, <2>2, <2>3, QuietInv
<1>2. ASSUME NEW t \in Tid, Signal(t) \/ Exit(t) PROVE IInv'
  <2>1. Moving /\ ks[t] = "run" /\ UNCHANGED <<dr, found, snap>>
    BY <1>2 DEF Signal, Exit, debugVars, ghostVars
  <2>2. reg[t] # "none" /\ call \notin {"detached", "gone"}
    BY <2>1 DEF IInv, Known, Moving
  <2>3. /\ \E k \in {"stop", "zombie"} : ks' = [ks EXCEPT ![t] = k]
        /\ reg' = reg \/ reg' = [reg EXCEPT ![t] = "Stopped"]
        /\ cur' \in {cur, t}
    BY <1>2 DEF Signal, Exit, procVars
  <2>4. Types'
    BY <2>1, <2>3 DEF IInv, Types
  <2>5. \A u \in Tid : /\ reg'[u] = "none" <=> reg[u] = "none"
                       /\ ks'[u] = "none" <=> ks[u] = "none"
    BY <2>1, <2>2, <2>3 DEF IInv, Types
  <2>. QED BY <2>1, <2>2, <2>4, <2>5, QuietInv
<1>. QED BY <1>1, <1>2

\* The death of the owner takes the watchpoint with it.
LEMMA CollectInv ==
  ASSUME IInv, NEW t \in Tid, Collect(t)
  PROVE  IInv'
<1>. USE DEF IInv
<1>. DEFINE rest == Registered \ {t}
            stopped == {u \in rest : [reg EXCEPT ![t] = "none"][u] = "Stopped"}
<1>1. /\ ks' = [ks EXCEPT ![t] = "none"] /\ reg' = [reg EXCEPT ![t] = "none"]
      /\ dr' = [dr EXCEPT ![t] = Cleared] /\ found' = [found EXCEPT ![t] = Cleared]
      /\ snap' = kept_on_exit(t) /\ Moving
      /\ cur' = IF rest = {} THEN cur ELSE IF stopped # {} THEN Min(stopped) ELSE Min(rest)
  BY DEF Collect
<1>2. cur' \in Tid
  <2>1. rest \in SUBSET Tid /\ stopped \in SUBSET Tid
    BY DEF Registered
  <2>2. rest # {} => Min(rest) \in Tid
    BY <2>1, MinMember
  <2>3. stopped # {} => Min(stopped) \in Tid
    BY <2>1, MinMember
  <2>. HIDE DEF rest, stopped
  <2>. QED BY <1>1, <2>2, <2>3 DEF Types
<1>3. Cleared \in DebugRegisters
  BY DEF Cleared, DebugRegisters
<1>. HIDE DEF rest, stopped
<1>4. \A u \in Tid : /\ dr'[u] = IF u = t THEN Cleared ELSE dr[u]
                     /\ found'[u] = IF u = t THEN Cleared ELSE found[u]
                     /\ reg'[u] = IF u = t THEN "none" ELSE reg[u]
                     /\ ks'[u] = IF u = t THEN "none" ELSE ks[u]
  BY <1>1 DEF Types
<1>5. snap' = (IF snap.tid = t THEN NoSnap ELSE snap)
  BY <1>1 DEF kept_on_exit
<1>6. Types'
  BY <1>1, <1>2, <1>3, <1>5 DEF Types
<1>7. Known'
  BY <1>1, <1>4, SMT DEF Known, Moving
<1>8. Found'
  BY <1>4, <1>5 DEF Found
<1>9. Armed'
  <2>1. Watching' => Watching /\ snap' = snap /\ snap.tid \in Tid \ {t}
    BY <1>5 DEF Watching, Types
  <2>. QED BY <2>1, <1>4, SMT DEF Armed
<1>. QED BY <1>6, <1>7, <1>8, <1>9

\* exec clears every register and forgets the watchpoint.
LEMMA ExecInv ==
  ASSUME IInv, NEW t \in Tid, Exec(t)
  PROVE  IInv'
<1>1. /\ ks' = [u \in Tid |-> IF u = Leader THEN "stop" ELSE "none"]
      /\ reg' = [u \in Tid |-> IF u = Leader THEN "Stopped" ELSE "none"]
      /\ dr' = [u \in Tid |-> Cleared] /\ found' = [u \in Tid |-> Cleared]
      /\ cur' = Leader /\ snap' = NoSnap
  BY DEF Exec, discard_image_state
<1>2. Types'
  BY <1>1, WatchAssumption DEF Types, Cleared, DebugRegisters
<1>3. Known' /\ Found' /\ Armed'
  BY <1>1 DEF Known, Found, Armed, Watching
<1>. QED BY <1>2, <1>3 DEF IInv

\* A new thread does not own the watchpoint.
LEMMA CloneInv ==
  ASSUME IInv, NEW t \in Tid, NEW u \in Tid, Clone(t, u)
  PROVE  IInv'
<1>. USE DEF IInv
<1>1. /\ ks' = [ks EXCEPT ![t] = "stop", ![u] = "stop"] /\ UNCHANGED <<dr, found, snap>>
      /\ \E g \in {"Running", "Stopped"} : reg' = [reg EXCEPT ![t] = "Stopped", ![u] = g]
      /\ cur' \in {t, u} /\ call' \in {"threw", "idle"} /\ Moving
  BY DEF Clone
<1>2. Types'
  BY <1>1 DEF Types
<1>3. \A v \in Tid : /\ reg[v] # "none" => reg'[v] # "none"
                     /\ reg'[v] = "none" <=> ks'[v] = "none"
  BY <1>1 DEF Known, Moving, Types
<1>4. Known'
  BY <1>3 DEF Known
<1>5. Found' /\ Armed'
  BY <1>1, <1>3 DEF Found, Armed, Watching, Types
<1>. QED BY <1>2, <1>4, <1>5

\* Both ends of a session leave every register as it would be.
LEMMA EndInv ==
  ASSUME IInv, detach \/ cleanup
  PROVE  IInv'
<1>1. CASE detach
  <2>1. /\ dr' = restore_watchpoint_registers /\ snap' = NoSnap /\ call' = "detached"
        /\ ks' = [t \in Tid |-> IF ks[t] = "none" THEN "none" ELSE "run"]
        /\ reg' = [t \in Tid |-> "none"] /\ UNCHANGED <<cur, found>>
    BY <1>1 DEF detach, ghostVars
  <2>2. Types'
    BY <2>1, Restored DEF IInv, Types
  <2>3. Known' /\ Found' /\ Armed'
    BY <2>1, Restored DEF Known, Found, Armed, Watching
  <2>. QED BY <2>2, <2>3 DEF IInv
<1>2. CASE cleanup
  <2>1. /\ dr' = [t \in Tid |-> Cleared] /\ found' = dr' /\ snap' = NoSnap /\ call' = "gone"
        /\ ks' = [t \in Tid |-> "none"] /\ reg' = [t \in Tid |-> "none"] /\ UNCHANGED cur
    BY <1>2 DEF cleanup
  <2>2. Types'
    BY <2>1 DEF IInv, Types, Cleared, DebugRegisters
  <2>3. Known' /\ Found' /\ Armed'
    BY <2>1 DEF Known, Found, Armed, Watching
  <2>. QED BY <2>2, <2>3 DEF IInv
<1>. QED BY <1>1, <1>2

\* Every step preserves the invariant.
LEMMA NextInv == IInv /\ [Next]_vars => IInv'
<1>. SUFFICES ASSUME IInv, [Next]_vars PROVE IInv'
  OBVIOUS
<1>1. CASE \E n \in {0, 2, 4} : add_write_watchpoint(n)
  BY <1>1, AddInv
<1>2. CASE remove_watchpoint
  BY <1>2, RemoveInv
<1>3. CASE \/ add_breakpoint \/ remove_breakpoint \/ \E t \in Tid : select_thread(t)
           \/ \E m \in {"continue", "step"} : Resume(m)
  BY <1>3, CommandInv
<1>4. CASE Kill \/ \E t \in Tid : Signal(t) \/ Exit(t)
  BY <1>4, EventInv
<1>5. CASE \E t \in Tid : Int3(t)
  BY <1>5, Int3Inv
<1>6. CASE \E t \in Tid : Collect(t)
  BY <1>6, CollectInv
<1>7. CASE \E t \in Tid : Exec(t)
  BY <1>7, ExecInv
<1>8. CASE \E t, u \in Tid : Clone(t, u)
  BY <1>8, CloneInv
<1>9. CASE \E t \in Tid : \E stores \in BOOLEAN, at \in {"at", "else"},
                           kept \in SUBSET dr[t].dr6 : Instruction(t, stores, at, kept)
  BY <1>9, InstructionInv
<1>10. CASE detach \/ cleanup
  BY <1>10, EndInv
<1>11. CASE UNCHANGED vars
  BY <1>11 DEF vars, IInv, Types, Known, Found, Armed, Watching
<1>. QED
  BY <1>1, <1>2, <1>3, <1>4, <1>5, <1>6, <1>7, <1>8, <1>9, <1>10, <1>11 DEF Next

\* The invariant holds in every state.
LEMMA Invariance == Spec => []IInv
BY InitInv, NextInv, PTL DEF Spec

\* For every set of threads: the debug registers of a living thread that does
\* not own the watchpoint are what they would be without the debugger, after
\* any mix of refused requests, hits, deletions, exits, execs and detaches.
THEOREM AsFoundSafe == Spec => []AsFound
<1>1. IInv => AsFound
  BY DEF IInv, Found, AsFound
<1>. QED BY <1>1, Invariance, PTL

\* For every set of threads: a watchpoint that is set is programmed in its
\* owner's slot 0, and what a detach or a deletion will restore there is what
\* the owner would have without the debugger.
THEOREM WatchArmedSafe == Spec => []WatchArmed
<1>1. IInv => WatchArmed
  BY DEF IInv, Armed, WatchArmed
<1>. QED BY <1>1, Invariance, PTL

-----------------------------------------------------------------------------
(***************************************************************************)
(* A stale hit bit in the owner's DR6 would turn its next trap into a hit: *)
(* there never is one, since arming and reporting both clear it.           *)
(***************************************************************************)
NoStaleHit == Watching => "B0" \notin dr[snap.tid].dr6

HInv == NoStaleHit /\ HitReported

\* The reason reported for a trap is a hit if and only if the owner's slot
\* fired in this instruction.
LEMMA TrappedHit ==
  ASSUME IInv, NoStaleHit, NEW t \in Tid, NEW r \in DebugRegisters, NEW at, NEW fired \in BOOLEAN,
         Watching /\ snap.tid = t => ("B0" \in r.dr6 <=> fired),
         ~(Watching /\ snap.tid = t) => ~fired, Trapped(t, r, at, fired)
  PROVE  HInv'
<1>. DEFINE reason == classify_trap(t, r.dr6, at = "mid")
<1>1. reason = "Watchpoint" <=> fired
  BY DEF classify_trap
<1>2. fired => Watching /\ snap.tid = t
  OBVIOUS
<1>3. /\ dr' = [dr EXCEPT ![t] = IF reason = "Watchpoint" THEN acknowledged(r) ELSE r]
      /\ UNCHANGED snap /\ hit' = fired
      /\ call' = "idle" => stop' = reason
  BY DEF Trapped
<1>. HIDE DEF reason
<1>4. "B0" \notin acknowledged(r).dr6
  BY DEF acknowledged, DebugRegisters
<1>5. \A u \in Tid : dr'[u] = IF u = t THEN (IF fired THEN acknowledged(r) ELSE r) ELSE dr[u]
  BY <1>1, <1>3 DEF IInv, Types
<1>6. NoStaleHit'
  <2>. SUFFICES ASSUME Watching' PROVE "B0" \notin dr'[snap.tid].dr6
    BY <1>3 DEF NoStaleHit
  <2>1. Watching /\ snap.tid \in Tid
    BY <1>3 DEF Watching, IInv, Types
  <2>. QED BY <2>1, <1>4, <1>5 DEF NoStaleHit
<1>7. HitReported'
  BY <1>1, <1>3 DEF HitReported, Idle
<1>. QED BY <1>6, <1>7 DEF HInv

\* An instruction fires the owner's slot if it stores and the slot is enabled,
\* which it is; an INT3 fires nothing.
LEMMA ExecutionHit ==
  ASSUME IInv, HInv, NEW t \in Tid,
         \/ Int3(t)
         \/ \E stores \in BOOLEAN, at \in {"at", "else"}, kept \in SUBSET dr[t].dr6 :
              Instruction(t, stores, at, kept)
  PROVE  HInv'
<1>1. dr[t] \in DebugRegisters
  BY DEF IInv, Types
<1>2. Watching /\ snap.tid = t => "B0" \notin dr[t].dr6
  BY DEF HInv, NoStaleHit
<1>3. CASE Int3(t)
  <2>1. Trapped(t, dr[t], "mid", FALSE)
    BY <1>3 DEF Int3
  <2>. QED BY <1>1, <1>2, <2>1, TrappedHit DEF HInv
<1>4. ASSUME NEW stores \in BOOLEAN, NEW at \in {"at", "else"}, NEW kept \in SUBSET dr[t].dr6,
             Instruction(t, stores, at, kept)
      PROVE  HInv'
  <2>. DEFINE bits == (IF stores /\ dr[t].en THEN {"B0"} ELSE {})
                      \cup (IF call # "continue" THEN {"BS"} ELSE {})
              r == [dr[t] EXCEPT !.dr6 = bits \cup kept]
              ours == stores /\ dr[t].en /\ Watching /\ snap.tid = t
  <2>1. r \in DebugRegisters /\ r.dr6 = bits \cup kept
    BY <1>1 DEF DebugRegisters
  <2>2. Watching /\ snap.tid = t => ("B0" \in r.dr6 <=> ours)
    BY <1>2, <2>1
  <2>3. ~(Watching /\ snap.tid = t) => ~ours
    OBVIOUS
  <2>4. ours \in BOOLEAN
    BY <1>1 DEF DebugRegisters
  <2>5. CASE bits # {}
    <3>1. Trapped(t, r, at, ours)
      BY <1>4, <2>5 DEF Instruction
    <3>. HIDE DEF r, bits, ours
    <3>. QED BY <2>1, <2>2, <2>3, <2>4, <3>1, TrappedHit DEF HInv
  <2>6. CASE bits = {}
    <3>1. UNCHANGED <<dr, snap, call, stop, hit>>
      BY <1>4, <2>6 DEF Instruction, debugVars, ghostVars
    <3>. QED BY <3>1 DEF HInv, NoStaleHit, HitReported, Watching, Idle
  <2>. QED BY <2>5, <2>6
<1>. QED BY <1>3, <1>4

\* Arming clears the bit; a refused request and a deletion leave nothing armed.
LEMMA WatchpointHit ==
  ASSUME IInv, HInv, remove_watchpoint \/ \E n \in {0, 2, 4} : add_write_watchpoint(n)
  PROVE  HInv'
<1>1. UNCHANGED <<call, stop, hit>>
  BY DEF remove_watchpoint, add_write_watchpoint, ghostVars
<1>2. HitReported'
  BY <1>1 DEF HInv, HitReported, Idle
<1>3. CASE remove_watchpoint
  BY <1>2, <1>3 DEF remove_watchpoint, HInv, NoStaleHit, Watching
<1>4. ASSUME NEW n \in {0, 2, 4}, add_write_watchpoint(n) PROVE HInv'
  <2>1. cur \in Tid /\ dr[cur] \in DebugRegisters /\ snap = NoSnap
    BY <1>4 DEF IInv, Types, add_write_watchpoint, Watching
  <2>2. CASE n = 0
    <3>1. dr' = [dr EXCEPT ![cur] = programmed(dr[cur])] /\ snap' = [tid |-> cur, dr |-> dr[cur]]
      BY <1>4, <2>2 DEF add_write_watchpoint
    <3>2. "B0" \notin dr'[cur].dr6
      BY <2>1, <3>1 DEF programmed, IInv, Types
    <3>. QED BY <1>2, <3>1, <3>2 DEF HInv, NoStaleHit
  <2>3. CASE n # 0
    BY <1>2, <1>4, <2>1, <2>3 DEF add_write_watchpoint, HInv, NoStaleHit, Watching
  <2>. QED BY <2>2, <2>3
<1>. QED BY <1>3, <1>4

\* Nothing else reports a hit or touches the owner's registers.
LEMMA OtherHit ==
  ASSUME IInv, HInv,
         \/ add_breakpoint \/ remove_breakpoint \/ \E m \in {"continue", "step"} : Resume(m)
         \/ Kill \/ detach \/ cleanup
         \/ \E t \in Tid : \/ select_thread(t) \/ Signal(t) \/ Collect(t) \/ Exit(t) \/ Exec(t)
                           \/ \E u \in Tid : Clone(t, u)
  PROVE  HInv'
<1>1. CASE \/ add_breakpoint \/ remove_breakpoint \/ Kill
           \/ \E t \in Tid : select_thread(t) \/ Exit(t)
  <2>1. UNCHANGED <<dr, snap, call, stop, hit>>
    BY <1>1 DEF add_breakpoint, remove_breakpoint, Kill, select_thread, Exit, kernelVars,
                debugVars, ghostVars
  <2>. QED BY <2>1 DEF HInv, NoStaleHit, HitReported, Watching, Idle
<1>2. CASE \/ \E m \in {"continue", "step"} : Resume(m)
           \/ \E t \in Tid : Signal(t) \/ \E u \in Tid : Clone(t, u)
  <2>1. UNCHANGED <<dr, snap>> /\ ~hit' /\ (call' = "idle" => stop' # "Watchpoint")
    BY <1>2 DEF Resume, Signal, Clone
  <2>. QED BY <2>1 DEF HInv, NoStaleHit, HitReported, Watching, Idle
<1>3. CASE detach \/ cleanup \/ \E t \in Tid : Exec(t)
  <2>1. snap' = NoSnap /\ (call' = "idle" => ~hit' /\ stop' # "Watchpoint")
    BY <1>3 DEF detach, cleanup, Exec, discard_image_state
  <2>. QED BY <2>1 DEF HInv, NoStaleHit, HitReported, Watching, Idle
<1>4. ASSUME NEW t \in Tid, Collect(t) PROVE HInv'
  <2>1. /\ dr' = [dr EXCEPT ![t] = Cleared] /\ snap' = (IF snap.tid = t THEN NoSnap ELSE snap)
        /\ ~hit' /\ (call' = "idle" => stop' # "Watchpoint")
    BY <1>4 DEF Collect, kept_on_exit, Moving
  <2>2. Watching' => Watching /\ snap' = snap /\ snap.tid \in Tid \ {t}
    BY <2>1 DEF Watching, IInv, Types
  <2>3. NoStaleHit'
    BY <2>1, <2>2 DEF HInv, NoStaleHit, IInv, Types
  <2>. QED BY <2>1, <2>3 DEF HInv, HitReported, Idle
<1>. QED BY <1>1, <1>2, <1>3, <1>4

\* For every set of threads: a call that returns reports a watchpoint hit if
\* and only if the last instruction stored to the watched address in the
\* owner, whatever else trapped with it and whatever DR6 held before.
THEOREM HitReportedSafe == Spec => []HitReported
<1>1. Init => HInv
  BY DEF Init, HInv, NoStaleHit, HitReported, Watching
<1>2. IInv /\ HInv /\ [Next]_vars => HInv'
  <2>. SUFFICES ASSUME IInv, HInv, [Next]_vars PROVE HInv'
    OBVIOUS
  <2>1. CASE UNCHANGED vars
    BY <2>1 DEF vars, HInv, NoStaleHit, HitReported, Watching, Idle
  <2>2. CASE Next
    BY <2>2, ExecutionHit, WatchpointHit, OtherHit DEF Next
  <2>. QED BY <2>1, <2>2
<1>3. HInv => HitReported
  BY DEF HInv
<1>. QED BY <1>1, <1>2, <1>3, Invariance, PTL DEF Spec

-----------------------------------------------------------------------------
(* The breakpoint.                                                         *)

(***************************************************************************)
(* The breakpoint is lifted exactly while a displaced step is pending.  At *)
(* the prompt its thread is registered and stands on the breakpoint; it    *)
(* may be dead by then, if SIGKILL took every thread.                      *)
(***************************************************************************)
Lifted ==
  /\ rip \in [Tid -> {"at", "mid", "else"}]
  /\ Idle \/ Moving => pend \in Tid \cup {None}
  /\ Idle \/ Over => (bp = "lifted" <=> pend # None)
  /\ Moving /\ ~Over => pend = None /\ bp # "lifted"
  /\ Idle /\ pend # None => reg[pend] # "none" /\ rip[pend] = "at"

\* One thread runs at a time, none at the prompt.
Held ==
  /\ Idle => \A t \in Tid : ks[t] # "run"
  /\ Moving => \A t, u \in Tid : ks[t] = "run" /\ ks[u] = "run" => t = u

\* A dead thread is the one that was running, or all are dead.
Dying ==
  Idle \/ Moving =>
    \A t \in Tid : ks[t] = "zombie" =>
      /\ \A u \in Tid : ks[u] # "run"
      /\ \A u \in Tid : ks[u] = "stop" => Moving /\ \A x \in Tid : ks[x] = "zombie" => x = t

LiftInv == Lifted /\ Held /\ Dying

\* Nothing is lifted and nothing runs when a session starts.
LEMMA LiftInit == Init => LiftInv
BY DEF Init, LiftInv, Lifted, Held, Dying, Idle, Moving, Over

\* At the end of a session the invariant says nothing more.
LEMMA LiftEnd ==
  ASSUME call' \notin {"idle", "continue", "step", "over_continue", "over_step"},
         rip' \in [Tid -> {"at", "mid", "else"}]
  PROVE  LiftInv'
BY DEF LiftInv, Lifted, Held, Dying, Idle, Moving, Over

\* What the running thread's stop leaves of Held and Dying.
LEMMA StopHeld ==
  ASSUME LiftInv, NEW t \in Tid, Moving, ks[t] = "run", NEW k \in {"stop", "run"},
         \A u \in Tid : ks'[u] = k \/ ks'[u] = "stop" \/ (u # t /\ ks'[u] = ks[u]),
         \A u \in Tid : ks'[u] = "run" => u = t,
         IF k = "run" THEN Moving' ELSE Idle'
  PROVE  Held' /\ Dying'
<1>1. \A u \in Tid : ks[u] # "zombie" /\ (ks[u] = "run" => u = t)
  BY DEF LiftInv, Held, Dying
<1>2. \A u \in Tid : ks'[u] # "zombie" /\ (k = "stop" => ks'[u] # "run")
  BY <1>1
<1>3. Idle' => k = "stop"
  BY DEF Idle, Moving
<1>. QED
  BY <1>2, <1>3 DEF Held, Dying

\* A trap lifts the breakpoint it hits and ends a displaced step.
LEMMA TrappedLift ==
  ASSUME Types, LiftInv, NEW t \in Tid, NEW r, NEW at \in {"at", "mid", "else"}, NEW fired, Moving,
         ks[t] = "run", Trapped(t, r, at, fired)
  PROVE  LiftInv'
<1>. DEFINE reason == classify_trap(t, r.dr6, at = "mid")
            goesOn == call = "over_continue" /\ reason = "SingleStep"
            isHit == reason = "Breakpoint"
            back == Over /\ bp = "lifted"
<1>1. /\ rip' = [rip EXCEPT ![t] = IF isHit THEN "at" ELSE at]
      /\ bp' = IF isHit THEN "lifted" ELSE IF back THEN "installed" ELSE bp
      /\ pend' = IF isHit THEN t ELSE IF Over THEN None ELSE pend
      /\ ks' = [ks EXCEPT ![t] = IF goesOn THEN "run" ELSE "stop"]
      /\ reg' = [reg EXCEPT ![t] = IF goesOn THEN "Running" ELSE "Stopped"]
      /\ call' = IF goesOn THEN "continue" ELSE "idle"
  BY DEF Trapped, Reinserts
<1>2. isHit => call = "continue"
  BY DEF classify_trap, expected_single_step
<1>. HIDE DEF reason
<1>3. \A u \in Tid : /\ ks'[u] = IF u = t THEN (IF goesOn THEN "run" ELSE "stop") ELSE ks[u]
                     /\ reg'[u] = IF u = t THEN (IF goesOn THEN "Running" ELSE "Stopped") ELSE reg[u]
  BY <1>1 DEF Types
<1>4. Held' /\ Dying'
  <2>1. \A u \in Tid : ks[u] = "run" => u = t
    BY DEF LiftInv, Held
  <2>2. IF goesOn THEN Moving' ELSE Idle'
    BY <1>1 DEF Moving, Idle
  <2>3. CASE goesOn
    BY <1>3, <2>1, <2>2, <2>3, StopHeld
  <2>4. CASE ~goesOn
    BY <1>3, <2>1, <2>2, <2>4, StopHeld
  <2>. QED
    BY <2>3, <2>4
<1>5. rip' \in [Tid -> {"at", "mid", "else"}]
  BY <1>1 DEF LiftInv, Lifted
<1>6. CASE isHit
  <2>1. ~goesOn /\ call = "continue"
    BY <1>2, <1>6
  <2>2. bp' = "lifted" /\ pend' = t /\ call' = "idle" /\ reg'[t] = "Stopped" /\ rip'[t] = "at"
    BY <1>1, <1>3, <1>6, <2>1 DEF LiftInv, Lifted
  <2>3. t # None
    BY NoThread
  <2>. QED
    BY <1>4, <1>5, <2>2, <2>3 DEF LiftInv, Lifted, Idle, Moving, Over
<1>7. CASE ~isHit
  <2>1. pend' = None /\ bp' # "lifted" /\ call' \in {"continue", "idle"}
    BY <1>1, <1>7 DEF LiftInv, Lifted
  <2>. QED
    BY <1>4, <1>5, <2>1 DEF LiftInv, Lifted, Idle, Moving, Over
<1>. QED
  BY <1>6, <1>7

\* The commands: only removing the breakpoint ends a displaced step at the
\* prompt.
LEMMA CommandLift ==
  ASSUME Types, LiftInv,
         \/ \E n \in {0, 2, 4} : add_write_watchpoint(n)
         \/ remove_watchpoint \/ add_breakpoint \/ remove_breakpoint
         \/ \E t \in Tid : select_thread(t)
         \/ \E m \in {"continue", "step"} : Resume(m)
  PROVE  LiftInv'
<1>1. CASE Idle /\ UNCHANGED <<ks, rip, reg, bp, pend, call>>
  BY <1>1 DEF LiftInv, Lifted, Held, Dying, Idle, Moving, Over
<1>2. CASE Idle /\ UNCHANGED <<ks, rip, reg, call>> /\ pend' = None /\ bp' # "lifted"
  <2>1. Lifted'
    BY <1>2 DEF LiftInv, Lifted, Idle, Moving, Over
  <2>2. Held' /\ Dying'
    BY <1>2 DEF LiftInv, Held, Dying, Idle, Moving
  <2>. QED
    BY <2>1, <2>2 DEF LiftInv
<1>3. CASE add_breakpoint
  <2>1. pend = None
    BY <1>3 DEF add_breakpoint, LiftInv, Lifted
  <2>. QED
    BY <1>2, <1>3, <2>1 DEF add_breakpoint, procVars
<1>4. ASSUME NEW m \in {"continue", "step"}, Resume(m) PROVE LiftInv'
  <2>1. /\ Idle /\ ks[cur] = "stop" /\ cur \in Tid /\ UNCHANGED <<rip, bp, pend>>
        /\ ks' = [ks EXCEPT ![cur] = "run"]
        /\ call' = IF pend = None THEN m ELSE IF m = "continue" THEN "over_continue" ELSE "over_step"
    BY <1>4 DEF Resume, Reachable, Types
  <2>2. \A u \in Tid : ks'[u] = IF u = cur THEN "run" ELSE ks[u]
    BY <2>1 DEF Types
  <2>3. \A u \in Tid : ks[u] # "run" /\ ks[u] # "zombie"
    BY <2>1 DEF LiftInv, Held, Dying, Idle, Moving
  <2>4. Moving' /\ ~Idle' /\ (Over' <=> pend # None)
    BY <2>1 DEF Moving, Idle, Over
  <2>5. Held' /\ Dying'
    BY <2>2, <2>3, <2>4 DEF Held, Dying
  <2>6. Lifted'
    BY <2>1, <2>4 DEF LiftInv, Lifted
  <2>. QED
    BY <2>5, <2>6 DEF LiftInv
<1>5. CASE remove_breakpoint
  BY <1>2, <1>5 DEF remove_breakpoint, procVars
<1>6. CASE \/ \E n \in {0, 2, 4} : add_write_watchpoint(n)
           \/ remove_watchpoint \/ \E t \in Tid : select_thread(t)
  BY <1>1, <1>6 DEF add_write_watchpoint, remove_watchpoint, select_thread, procVars, kernelVars,
    debugVars
<1>. QED
  BY <1>3, <1>4, <1>5, <1>6

\* A signal stop ends the displaced step; a thread that dies holds the call.
LEMMA EventLift ==
  ASSUME Types, LiftInv, Kill \/ \E t \in Tid : Signal(t) \/ Exit(t)
  PROVE  LiftInv'
<1>1. ASSUME NEW t \in Tid, Signal(t) PROVE LiftInv'
  <2>1. /\ Moving /\ ks[t] = "run" /\ ks' = [ks EXCEPT ![t] = "stop"] /\ UNCHANGED rip /\ call' = "idle"
        /\ bp' = IF Over /\ bp = "lifted" THEN "installed" ELSE bp
        /\ pend' = IF Over THEN None ELSE pend
    BY <1>1 DEF Signal, Reinserts
  <2>2. \A u \in Tid : ks'[u] = IF u = t THEN "stop" ELSE ks[u]
    BY <2>1 DEF Types
  <2>3. \A u \in Tid : ks[u] = "run" => u = t
    BY <2>1 DEF LiftInv, Held
  <2>4. Held' /\ Dying'
    BY <2>1, <2>2, <2>3, StopHeld, SMT DEF Idle
  <2>5. pend' = None /\ bp' # "lifted"
    BY <2>1 DEF LiftInv, Lifted
  <2>. QED
    BY <2>1, <2>4, <2>5 DEF LiftInv, Lifted, Idle, Moving, Over
<1>2. ASSUME NEW t \in Tid, Exit(t) PROVE LiftInv'
  <2>1. /\ Moving /\ ks[t] = "run" /\ ks' = [ks EXCEPT ![t] = "zombie"]
        /\ UNCHANGED <<rip, reg, bp, pend, call>>
    BY <1>2 DEF Exit, procVars, debugVars
  <2>2. \A u \in Tid : ks'[u] = IF u = t THEN "zombie" ELSE ks[u]
    BY <2>1 DEF Types
  <2>3. \A u \in Tid : ks[u] # "zombie" /\ (ks[u] = "run" => u = t)
    BY <2>1 DEF LiftInv, Held, Dying
  <2>4. Moving' /\ ~Idle'
    BY <2>1 DEF Moving, Idle
  <2>5. Held' /\ Dying'
    BY <2>2, <2>3, <2>4 DEF Held, Dying
  <2>6. Lifted'
    BY <2>1 DEF LiftInv, Lifted, Idle, Moving, Over
  <2>. QED
    BY <2>5, <2>6 DEF LiftInv
<1>3. CASE Kill
  <2>1. /\ ks' = [t \in Tid |-> IF ks[t] = "none" THEN "none" ELSE "zombie"]
        /\ UNCHANGED <<rip, reg, bp, pend, call>>
    BY <1>3 DEF Kill, procVars, debugVars
  <2>2. \A u \in Tid : ks'[u] \in {"none", "zombie"}
    BY <2>1
  <2>3. Lifted'
    BY <2>1 DEF LiftInv, Lifted, Idle, Moving, Over
  <2>. QED
    BY <2>2, <2>3 DEF LiftInv, Held, Dying
<1>. QED
  BY <1>1, <1>2, <1>3

\* What a thread executes: an instruction, or the INT3.
LEMMA ExecutionLift ==
  ASSUME Types, LiftInv, NEW t \in Tid,
         \/ Int3(t)
         \/ \E stores \in BOOLEAN, at \in {"at", "else"}, kept \in SUBSET dr[t].dr6 :
              Instruction(t, stores, at, kept)
  PROVE  LiftInv'
<1>1. CASE Int3(t)
  <2>1. Moving /\ ks[t] = "run" /\ Trapped(t, dr[t], "mid", FALSE)
    BY <1>1 DEF Int3
  <2>. QED
    BY <2>1, TrappedLift
<1>2. ASSUME NEW stores \in BOOLEAN, NEW at \in {"at", "else"}, NEW kept \in SUBSET dr[t].dr6,
             Instruction(t, stores, at, kept)
      PROVE  LiftInv'
  <2>1. Moving /\ ks[t] = "run"
    BY <1>2 DEF Instruction
  <2>2. CASE \E r, fired : Trapped(t, r, at, fired)
    BY <2>1, <2>2, TrappedLift
  <2>3. CASE rip' = [rip EXCEPT ![t] = at] /\ UNCHANGED <<ks, reg, bp, pend, call>>
    <3>1. ~Idle
      BY <2>1 DEF Idle, Moving
    <3>. QED
      BY <2>3, <3>1 DEF LiftInv, Lifted, Held, Dying, Idle, Moving, Over
  <2>4. \/ \E r, fired : Trapped(t, r, at, fired)
        \/ rip' = [rip EXCEPT ![t] = at] /\ UNCHANGED <<ks, reg, bp, pend, call>>
    BY <1>2 DEF Instruction, procVars, debugVars
  <2>. QED
    BY <2>2, <2>3, <2>4
<1>. QED
  BY <1>1, <1>2

\* The death of the stepping thread reinstalls the breakpoint through another
\* stopped thread, unless none is left to return the prompt to.
LEMMA CollectLift ==
  ASSUME Types, LiftInv, NEW t \in Tid, Collect(t)
  PROVE  LiftInv'
<1>. DEFINE rest == Registered \ {t}
            stopped == {u \in rest : [reg EXCEPT ![t] = "none"][u] = "Stopped"}
            next == IF rest = {} THEN cur ELSE IF stopped # {} THEN Min(stopped) ELSE Min(rest)
            through == Reinserts("Exit") /\ stopped # {}
            fails == through /\ ~Reachable(next)
            prompt == rest = {} \/ stopped # {}
<1>1. /\ Moving /\ ks[t] = "zombie"
      /\ ks' = [ks EXCEPT ![t] = "none"] /\ rip' = [rip EXCEPT ![t] = "else"]
      /\ bp' = IF through /\ ~fails THEN "installed" ELSE bp
      /\ pend' = IF Over /\ prompt /\ ~fails THEN None ELSE pend
      /\ call' = IF rest = {} THEN "gone" ELSE IF fails THEN "threw"
                 ELSE IF prompt THEN "idle" ELSE call
  BY DEF Collect
<1>. HIDE DEF fails, rest, stopped
<1>2. rip' \in [Tid -> {"at", "mid", "else"}]
  BY <1>1 DEF LiftInv, Lifted
<1>3. \A u \in Tid : ks'[u] = IF u = t THEN "none" ELSE ks[u]
  BY <1>1 DEF Types
<1>4. \A u \in Tid : ks'[u] # "run" /\ (ks'[u] = "zombie" => \A v \in Tid : ks'[v] # "stop")
  BY <1>1, <1>3, SMT DEF LiftInv, Held, Dying
<1>5. Held' /\ Dying'
  BY <1>4 DEF Held, Dying
<1>6. CASE rest = {} \/ fails
  BY <1>1, <1>2, <1>6, LiftEnd
<1>7. CASE rest # {} /\ ~fails /\ stopped # {}
  <2>1. through <=> Over /\ bp = "lifted"
    BY <1>7 DEF Reinserts
  <2>2. call' = "idle" /\ pend' = None /\ bp' # "lifted"
    BY <1>1, <1>7, <2>1 DEF LiftInv, Lifted
  <2>. QED
    BY <1>2, <1>5, <2>2 DEF LiftInv, Lifted, Idle, Moving, Over
<1>8. CASE rest # {} /\ ~fails /\ stopped = {}
  <2>1. UNCHANGED <<call, bp, pend>>
    BY <1>1, <1>8
  <2>2. ~Idle'
    BY <1>1, <2>1 DEF Idle, Moving
  <2>. QED
    BY <1>2, <1>5, <2>1, <2>2 DEF LiftInv, Lifted, Idle, Moving, Over
<1>. QED
  BY <1>6, <1>7, <1>8

\* A new thread or a new image ends the displaced step.
LEMMA BirthLift ==
  ASSUME Types, LiftInv, NEW t \in Tid, Exec(t) \/ \E u \in Tid : Clone(t, u)
  PROVE  LiftInv'
<1>1. CASE Exec(t)
  <2>1. /\ ks' = [u \in Tid |-> IF u = Leader THEN "stop" ELSE "none"]
        /\ rip' = [u \in Tid |-> "else"] /\ bp' = "none" /\ pend' = None /\ call' = "idle"
    BY <1>1 DEF Exec
  <2>2. \A u \in Tid : ks'[u] \in {"stop", "none"}
    BY <2>1
  <2>3. Held' /\ Dying'
    BY <2>2 DEF Held, Dying
  <2>4. Lifted'
    BY <2>1 DEF Lifted, Idle, Moving, Over
  <2>. QED
    BY <2>3, <2>4 DEF LiftInv
<1>2. ASSUME NEW u \in Tid, Clone(t, u) PROVE LiftInv'
  <2>1. /\ Moving /\ ks[t] = "run" /\ ks[u] = "none"
        /\ ks' = [ks EXCEPT ![t] = "stop", ![u] = "stop"] /\ rip' = [rip EXCEPT ![u] = "else"]
    BY <1>2 DEF Clone
  <2>2. rip' \in [Tid -> {"at", "mid", "else"}]
    BY <2>1 DEF LiftInv, Lifted
  <2>3. CASE Watching
    BY <1>2, <2>2, <2>3, LiftEnd DEF Clone
  <2>4. CASE ~Watching
    <3>1. /\ call' = "idle"
          /\ bp' = IF Over /\ bp = "lifted" THEN "installed" ELSE bp
          /\ pend' = IF Over THEN None ELSE pend
      BY <1>2, <2>4 DEF Clone, Reinserts
    <3>2. pend' = None /\ bp' # "lifted"
      BY <2>1, <3>1 DEF LiftInv, Lifted
    <3>3. \A v \in Tid : ks'[v] = IF v = t \/ v = u THEN "stop" ELSE ks[v]
      BY <2>1 DEF Types
    <3>4. \A v \in Tid : ks[v] = "run" => v = t
      BY <2>1 DEF LiftInv, Held
    <3>5. \A v \in Tid : /\ ks'[v] = "stop" \/ (v # t /\ ks'[v] = ks[v])
                         /\ ks'[v] = "run" => v = t
      BY <3>3, <3>4
    <3>6. Held' /\ Dying'
      BY <2>1, <3>1, <3>5, StopHeld DEF Idle
    <3>. QED
      BY <2>2, <3>1, <3>2, <3>6 DEF LiftInv, Lifted, Idle, Moving, Over
  <2>. QED
    BY <2>3, <2>4
<1>. QED
  BY <1>1, <1>2

\* For every set of threads: a call that returns has put the breakpoint back,
\* unless it reports a thread that stands on it, whichever way the displaced
\* step ended.
THEOREM BreakpointBackSafe == Spec => []BreakpointBack
<1>1. IInv /\ LiftInv /\ [Next]_vars => LiftInv'
  <2>. SUFFICES ASSUME IInv, LiftInv, [Next]_vars PROVE LiftInv'
    OBVIOUS
  <2>1. Types
    BY DEF IInv
  <2>2. CASE UNCHANGED vars
    BY <2>2 DEF vars, LiftInv, Lifted, Held, Dying, Idle, Moving, Over
  <2>3. CASE detach \/ cleanup
    <3>1. rip' \in [Tid -> {"at", "mid", "else"}] /\ call' \in {"detached", "gone"}
      BY <2>3 DEF detach, cleanup, LiftInv, Lifted
    <3>. QED
      BY <3>1, LiftEnd
  <2>4. CASE Next
    BY <2>1, <2>3, <2>4, CommandLift, EventLift, ExecutionLift, CollectLift, BirthLift DEF Next
  <2>. QED
    BY <2>2, <2>4
<1>2. IInv /\ LiftInv => BreakpointBack
  <2>. SUFFICES ASSUME IInv, LiftInv, Idle, \A t \in Registered : Alive(t)
                PROVE  bp = "lifted" <=> pend # None /\ rip[pend] = "at" /\ ks[pend] = "stop"
    BY DEF BreakpointBack
  <2>1. bp = "lifted" <=> pend # None
    BY DEF LiftInv, Lifted
  <2>2. pend # None => pend \in Tid /\ reg[pend] # "none" /\ rip[pend] = "at"
    BY DEF LiftInv, Lifted
  <2>3. pend # None => Alive(pend) /\ ks[pend] # "run"
    BY <2>2 DEF LiftInv, Held, Registered
  <2>. QED
    BY <2>1, <2>2, <2>3 DEF Alive
<1>. QED
  BY <1>1, <1>2, LiftInit, Invariance, PTL DEF Spec
=============================================================================
