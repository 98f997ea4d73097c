------------------------- MODULE SourceMotionProofs -------------------------
(***************************************************************************)
(* UserArmed for every program, number of threads, set of breakpoints and  *)
(* instruction limit: step, next, finish, continue and stepi leave the     *)
(* breakpoints as the user set them, however they end.                     *)
(*                                                                         *)
(* UserArmed speaks of the prompt.  In the middle of a motion the table    *)
(* holds the temporary breakpoint too, and what is restored at the end     *)
(* depends on what the motion remembers of it (mo.temp) and on which call  *)
(* waits: only a wait with a displaced step pending puts an INT3 back.     *)
(***************************************************************************)
EXTENDS SourceMotion, TLAPS, WellFoundedInduction

\* Most leaves are first-order; the others name their prover.
USE Zenon

-----------------------------------------------------------------------------
(* The inductive invariant.                                                *)

Motions == [kind : Kinds \cup {"none"}, tid : Tid \cup {None}, line : Nat, depth : Nat,
            n : Nat, temp : Address \cup {None}, ret : Address \cup {None},
            users : BOOLEAN, frame : Nat]

Types ==
  /\ prog \in Programs
  /\ pc \in [Tid -> Address] /\ stk \in [Tid -> Seq(Address)]
  /\ st \in [Tid -> {"Stopped", "Running", "Stepping"}]
  /\ ev \in [Tid -> {"none", "trap", "step", "signal", "exit", "exec"}]
  /\ alive \in BOOLEAN /\ cur \in Tid
  /\ user \subseteq Address /\ temp \in Address \cup {None} /\ inst \subseteq Address
  /\ pend \in [tid : Tid \cup {None}, addr : Address \cup {None}]
  /\ phase \in {"idle", "loop", "wait"} /\ mo \in Motions

\* Between two resumptions the current task is stopped and there is no
\* temporary breakpoint; while the motion waits, the task runs and the motion
\* remembers the temporary breakpoint it made.
Control ==
  /\ phase = "loop" =>
       /\ st[cur] = "Stopped" /\ temp = None /\ mo.temp = None
       /\ mo.kind = "finish" => stk[cur] # <<>>
  /\ phase = "wait" => st[cur] # "Stopped" /\ temp = mo.temp
  /\ \A t \in Tid : ev[t] = "exit" => ~alive

\* The call that waits steps over a breakpoint exactly if one is lifted.
Displaced ==
  /\ pend # NoPend => pend.addr # None
  /\ phase = "wait" => /\ wmode \in {"step", "go", "over", "overgo"}
                       /\ wmode \in {"step", "go"} <=> pend = NoPend

\* The entries of the breakpoint table.
Entries == user \cup ({temp} \ {None})

\* Every entry is in memory, but for the user's that is lifted.
TableOK ==
  alive /\ (phase = "idle" => st[cur] = "Stopped") =>
    /\ user = wish /\ temp \notin user /\ (phase # "wait" => temp = None)
    /\ inst \subseteq Entries /\ Entries \ inst \subseteq {pend.addr}
    /\ pend.addr \in user \cup {None}

IInv == Types /\ Control /\ Displaced /\ TableOK

-----------------------------------------------------------------------------
(* The program.                                                            *)

\* Addresses are those of instructions, and an instruction's successor is one:
\* what the tracee executes stays in the program.
LEMMA ProgramFacts ==
  ASSUME prog \in Programs
  PROVE  /\ Tid \subseteq Nat \ {0} /\ Tid # {}
         /\ Len(Code) \in Nat /\ Address = DOMAIN Code
         /\ prog.entry \in [Tid -> Address] /\ prog.users \subseteq Address
         /\ \A a \in Address : Line(a) \in Nat
         /\ \A a \in Address : Op(a) \in {"jump", "call", "callx"} => Code[a].to \in Address
<1>1. /\ Code \in Seq([op : STRING, line : Nat, to : Nat])
      /\ Tid \subseteq Threads /\ Tid # {} /\ prog.entry \in [Tid -> DOMAIN Code]
      /\ prog.users \subseteq DOMAIN Code
      /\ \A a \in DOMAIN Code :
           Code[a].op \in {"jump", "call", "callx"} => Code[a].to \in DOMAIN Code
  BY MotionAssumption DEF Tid, Code
<1>2. Len(Code) \in Nat /\ DOMAIN Code = 1..Len(Code)
      /\ \A a \in 1..Len(Code) : Code[a] \in [op : STRING, line : Nat, to : Nat]
  <2>. DEFINE Instruction == [op : STRING, line : Nat, to : Nat]
  <2>1. Code \in Seq(Instruction)
    BY <1>1
  <2>. HIDE DEF Instruction
  <2>2. Len(Code) \in Nat /\ DOMAIN Code = 1..Len(Code)
        /\ \A a \in 1..Len(Code) : Code[a] \in Instruction
    BY <2>1, SMT
  <2>. QED BY <2>2 DEF Instruction
<1>3. \A a \in Address : Line(a) \in Nat
  BY <1>2, SMT DEF Address, Line
<1>. QED BY <1>1, <1>2, <1>3, MotionAssumption DEF Address, Op

\* Addresses are positive, so that None is not one; the next one is one.
LEMMA AddressFacts ==
  ASSUME prog \in Programs
  PROVE  /\ None \notin Address
         /\ \A a \in Address : Next1(a) \in Address /\ 1 \in Address
<1>1. Len(Code) \in Nat
  BY ProgramFacts
<1>2. None \notin Address /\ \A a \in Address : 1 \in Address
  BY <1>1, SMT DEF Address, None
<1>. QED BY <1>2 DEF Next1

\* The program of a session does not change.
LEMMA SameProgram ==
  ASSUME prog' = prog
  PROVE  Tid' = Tid /\ Address' = Address /\ Motions' = Motions
BY DEF Tid, Address, Code, Motions

LEMMA NoMotionType == NoMotion \in Motions
<1>. USE SMT
<1>. QED BY DEF NoMotion, Motions, None

\* The leader, the lowest thread, exists.
LEMMA LeaderExists ==
  ASSUME prog \in Programs
  PROVE  (CHOOSE t \in Tid : \A u \in Tid : t <= u) \in Tid
<1>1. \E t \in Tid : \A u \in Tid : <<u, t>> \notin OpToRel(<, Nat)
  BY ProgramFacts, NatLessThanWellFounded, WFMin
<1>2. \A x, y \in Nat : <<y, x>> \notin OpToRel(<, Nat) => x <= y
  BY SMT DEF OpToRel
<1>. QED BY <1>1, <1>2, ProgramFacts

-----------------------------------------------------------------------------
(* The initial states.                                                     *)

LEMMA InitIInv == Init => IInv
<1>. SUFFICES ASSUME Init PROVE IInv
  OBVIOUS
<1>1. prog \in Programs /\ cur \in Tid /\ pc \in [Tid -> Address]
  BY ProgramFacts, LeaderExists DEF Init
<1>2. stk \in [Tid -> Seq(Address)] /\ ev \in [Tid -> {"none"}]
  BY SMT DEF Init
<1>3. pend \in [tid : Tid \cup {None}, addr : Address \cup {None}] /\ pend.addr = None
  BY SMT DEF Init, NoPend
<1>4. Types
  BY <1>1, <1>2, <1>3, NoMotionType, SMT DEF Init, Types
<1>5. Control /\ Displaced
  BY <1>2 DEF Init, Control, Displaced
<1>6. TableOK
  BY <1>3 DEF Init, TableOK, Entries
<1>. QED BY <1>4, <1>5, <1>6 DEF IInv

-----------------------------------------------------------------------------
(* The tracee.                                                             *)

\* An instruction leads to an instruction, and a return address is one.
LEMMA ExecutesTypes ==
  ASSUME Types, NEW t \in Tid, Executes(t)
  PROVE  pc' \in [Tid -> Address] /\ stk' \in [Tid -> Seq(Address)]
<1>1. /\ pc \in [Tid -> Address] /\ stk \in [Tid -> Seq(Address)] /\ pc[t] \in Address
      /\ stk[t] \in Seq(Address) /\ prog \in Programs
  BY DEF Types
<1>2. Next1(pc[t]) \in Address
      /\ (Op(pc[t]) \in {"jump", "call", "callx"} => Code[pc[t]].to \in Address)
  BY <1>1, ProgramFacts, AddressFacts
<1>3. \A a \in Address : Append(stk[t], a) \in Seq(Address)
  BY <1>1, SMT
<1>4. stk[t] # <<>> => Last(stk[t]) \in Address /\ Front(stk[t]) \in Seq(Address)
  BY <1>1, SMT DEF Last, Front
<1>. QED BY <1>1, <1>2, <1>3, <1>4 DEF Executes

\* A thread that runs leaves the table and what the debugger knows alone.
LEMMA RunInstrKeeps ==
  ASSUME IInv, NEW t \in Tid, RunInstr(t), prog' = prog
  PROVE  IInv'
<1>. USE DEF IInv
<1>1. /\ st[t] # "Stopped" /\ UNCHANGED <<st, alive, cur, phase, wmode, mo, wish>>
      /\ UNCHANGED <<user, temp, inst, pend>>
  BY DEF RunInstr, table
<1>2. pc' \in [Tid -> Address] /\ stk' \in [Tid -> Seq(Address)]
  <2>1. CASE pc[t] \in inst
    <3>1. pc' = [pc EXCEPT ![t] = Next1(pc[t])] /\ stk' = stk
      BY <2>1 DEF RunInstr, Types
    <3>2. Next1(pc[t]) \in Address
      BY AddressFacts DEF Types
    <3>. QED BY <3>1, <3>2 DEF Types
  <2>2. CASE pc[t] \notin inst
    BY <2>2, ExecutesTypes DEF RunInstr
  <2>. QED BY <2>1, <2>2
<1>3. \E e \in {"trap", "step", "none"} : ev' = [ev EXCEPT ![t] = e]
  BY DEF RunInstr
<1>4. \A u \in Tid \ {t} : stk'[u] = stk[u]
  BY DEF RunInstr, Executes, Types
<1>5. Types'
  BY <1>1, <1>2, <1>3, SameProgram DEF Types
<1>6. Control'
  BY <1>1, <1>3, <1>4, SameProgram DEF Types, Control
<1>7. Displaced' /\ TableOK'
  BY <1>1 DEF Displaced, TableOK, Entries
<1>. QED BY <1>5, <1>6, <1>7

\* The end of a process or of its image, seen by the kernel only.
LEMMA EndImageKeeps ==
  ASSUME IInv, NEW t \in Tid, EndImage(t), prog' = prog
  PROVE  IInv'
<1>. USE DEF IInv
<1>1. UNCHANGED <<pc, stk, st, cur, phase, wmode, mo, wish, user, temp, inst, pend>>
  BY DEF EndImage, table
<1>2. /\ alive /\ Op(pc[t]) \in {"exit", "exec"} /\ alive' = (Op(pc[t]) = "exec")
      /\ ev' = [u \in Tid |-> IF u = t THEN Op(pc[t]) ELSE "none"]
  BY DEF EndImage
<1>3. ev' \in [Tid -> {"none", "exit", "exec"}]
  BY <1>2
<1>4. \A u \in Tid : ev'[u] = "exit" => ~alive'
  BY <1>2
<1>5. Types'
  BY <1>1, <1>2, <1>3, SameProgram DEF Types
<1>6. Control'
  BY <1>1, <1>3, <1>4, SameProgram DEF Types, Control
<1>7. Displaced' /\ TableOK'
  BY <1>1, <1>2 DEF Displaced, TableOK, Entries
<1>. QED BY <1>5, <1>6, <1>7

LEMMA SignalKeeps ==
  ASSUME IInv, NEW t \in Tid, Signal(t), prog' = prog
  PROVE  IInv'
<1>. USE DEF IInv
<1>1. /\ UNCHANGED <<pc, stk, st, alive, cur, phase, wmode, mo, wish, user, temp, inst, pend>>
      /\ ev' = [ev EXCEPT ![t] = "signal"]
  BY DEF Signal, table
<1>2. Types'
  BY <1>1, SameProgram DEF Types
<1>3. Control'
  BY <1>1, SameProgram DEF Types, Control
<1>4. Displaced' /\ TableOK'
  BY <1>1 DEF Displaced, TableOK, Entries
<1>. QED BY <1>2, <1>3, <1>4

-----------------------------------------------------------------------------
(* The prompt.                                                             *)

LEMMA AddBreakpointKeeps ==
  ASSUME IInv, NEW a \in prog.users, AddBreakpoint(a), prog' = prog
  PROVE  IInv'
<1>. USE DEF IInv
<1>1. /\ UNCHANGED <<pc, stk, st, ev, alive, cur, phase, wmode, mo, temp, pend>>
      /\ user' = user \cup {a} /\ inst' = inst \cup {a} /\ wish' = wish \cup {a}
      /\ alive /\ phase = "idle" /\ st[cur] = "Stopped"
  BY DEF AddBreakpoint, threads, Stopped
<1>2. a \in Address /\ None \notin Address
  BY ProgramFacts, AddressFacts DEF Types
<1>3. Types'
  BY <1>1, <1>2, SameProgram DEF Types
<1>4. Control' /\ Displaced'
  BY <1>1, SameProgram DEF Control, Displaced
<1>5. TableOK'
  BY <1>1, <1>2 DEF TableOK, Entries
<1>. QED BY <1>3, <1>4, <1>5

LEMMA DeleteBreakpointKeeps ==
  ASSUME IInv, NEW a \in prog.users, DeleteBreakpoint(a), prog' = prog
  PROVE  IInv'
<1>. USE DEF IInv
<1>1. /\ UNCHANGED <<pc, stk, st, ev, alive, cur, phase, wmode, mo, temp>>
      /\ user' = user \ {a} /\ inst' = inst \ {a} /\ wish' = wish \ {a}
      /\ pend' = IF pend.addr = a THEN NoPend ELSE pend
      /\ alive /\ phase = "idle" /\ st[cur] = "Stopped"
  BY DEF DeleteBreakpoint, threads, Stopped
<1>2. NoPend \in [tid : Tid \cup {None}, addr : Address \cup {None}] /\ NoPend.addr = None
  BY SMT DEF NoPend
<1>3. Types'
  BY <1>1, <1>2, SameProgram DEF Types
<1>4. Control' /\ Displaced'
  BY <1>1, SameProgram DEF Control, Displaced
<1>5. TableOK'
  BY <1>1, <1>2 DEF TableOK, Entries
<1>. QED BY <1>3, <1>4, <1>5

LEMMA SelectThreadKeeps ==
  ASSUME IInv, NEW t \in Tid, SelectThread(t), prog' = prog
  PROVE  IInv'
<1>. USE DEF IInv
<1>1. /\ UNCHANGED <<pc, stk, st, ev, alive, phase, wmode, mo, wish, user, temp, inst, pend>>
      /\ alive /\ phase = "idle" /\ st[cur] = "Stopped" /\ st[t] = "Stopped" /\ cur' = t
  BY DEF SelectThread, threads, table, Stopped
<1>2. Types'
  BY <1>1, SameProgram DEF Types
<1>3. Control' /\ Displaced' /\ TableOK'
  BY <1>1, SameProgram DEF Control, Displaced, TableOK, Entries
<1>. QED BY <1>2, <1>3

\* finish needs a caller: the frame it waits for exists when it looks it up.
LEMMA BeginKeeps ==
  ASSUME IInv, NEW kind \in Kinds, BeginMotion(kind), prog' = prog
  PROVE  IInv'
<1>. USE DEF IInv
<1>1. /\ UNCHANGED <<pc, stk, st, ev, alive, cur, wmode, wish, user, temp, inst, pend>>
      /\ alive /\ phase = "idle" /\ st[cur] = "Stopped" /\ phase' = "loop"
      /\ kind = "finish" => stk[cur] # <<>>
      /\ mo' = [NoMotion EXCEPT !.kind = kind, !.tid = cur, !.line = Line(pc[cur]),
                                !.depth = Len(stk[cur])]
  BY DEF BeginMotion, threads, table, Stopped
<1>2. Line(pc[cur]) \in Nat /\ cur \in Tid
  BY ProgramFacts DEF Types
<1>3. Len(stk[cur]) \in Nat
  <2>1. stk[cur] \in Seq(Address)
    BY <1>2 DEF Types
  <2>. QED BY <2>1, SMT
<1>4. mo' \in Motions /\ mo'.kind = kind /\ mo'.temp = None
  <2>1. mo' = [kind |-> kind, tid |-> cur, line |-> Line(pc[cur]), depth |-> Len(stk[cur]),
               n |-> 0, temp |-> None, ret |-> None, users |-> FALSE, frame |-> 0]
    BY <1>1 DEF NoMotion
  <2>. QED BY <2>1, <1>2, <1>3, SMT DEF Motions
<1>5. Types'
  BY <1>1, <1>4, SameProgram DEF Types
<1>6. Control' /\ Displaced'
  BY <1>1, <1>4, SameProgram DEF Control, Displaced, TableOK
<1>7. TableOK'
  BY <1>1 DEF TableOK, Entries
<1>. QED BY <1>5, <1>6, <1>7

-----------------------------------------------------------------------------
(* The motions.                                                            *)

\* A call to single_step or continue_execution: a pending displaced step is
\* taken first, with a wait of its own.
LEMMA ResumeFacts ==
  ASSUME Types, ResumeStep \/ ResumeGo
  PROVE  /\ st' \in [Tid -> {"Stopped", "Running", "Stepping"}] /\ st'[cur] # "Stopped"
         /\ phase' = "wait" /\ wmode' \in {"step", "go", "over", "overgo"}
         /\ wmode' \in {"step", "go"} <=> pend = NoPend
BY DEF Types, ResumeStep, ResumeGo

\* A turn of step, continue or stepi: the task is resumed and nothing else.
LEMMA ResumedKeeps ==
  ASSUME IInv, phase = "loop", ResumeStep \/ ResumeGo, prog' = prog,
         UNCHANGED <<pc, stk, ev, alive, table, mo, cur, wish>>
  PROVE  IInv'
<1>. USE DEF IInv
<1>1. UNCHANGED <<user, temp, inst, pend>>
  BY DEF table
<1>2. Types'
  BY <1>1, ResumeFacts, SameProgram DEF Types
<1>3. Control'
  BY <1>1, ResumeFacts, SameProgram DEF Control
<1>4. Displaced'
  BY <1>1, ResumeFacts DEF Displaced
<1>5. TableOK'
  BY <1>1, ResumeFacts DEF TableOK, Entries
<1>. QED BY <1>2, <1>3, <1>4, <1>5

\* next over a call and finish: the temporary breakpoint enters the table and
\* memory together, unless the user's is there.
LEMMA RunToKeeps ==
  ASSUME IInv, phase = "loop", NEW a \in Address, NEW frame \in Nat, RunTo(a, frame),
         prog' = prog, UNCHANGED <<pc, stk, ev, alive, cur, wish>>
  PROVE  IInv'
<1>. USE DEF IInv
<1>1. /\ UNCHANGED <<user, pend>> /\ temp' = IF a \in user THEN None ELSE a
      /\ inst' = IF a \in user THEN inst ELSE inst \cup {a}
      /\ mo' = [mo EXCEPT !.ret = a, !.users = a \in user, !.frame = frame,
                          !.temp = IF a \in user THEN None ELSE a]
  BY DEF RunTo
<1>2. ResumeGo /\ mo \in Motions /\ None \notin Address
  BY AddressFacts DEF RunTo, Types
<1>3. mo' \in Motions /\ mo'.temp = temp'
  <2>1. \E b \in BOOLEAN : mo' = [mo EXCEPT !.ret = a, !.users = b, !.frame = frame,
                                            !.temp = temp']
    <3>1. CASE a \in user
      BY <1>1, <3>1
    <3>2. CASE a \notin user
      <4>1. (a \in user) = FALSE
        BY <3>2, SMT
      <4>. QED BY <1>1, <4>1
    <3>. QED BY <3>1, <3>2
  <2>2. temp' \in Address \cup {None}
    BY <1>1
  <2>. QED BY <1>2, <2>1, <2>2 DEF Motions
<1>4. Types'
  BY <1>1, <1>2, <1>3, ResumeFacts, SameProgram DEF Types
<1>5. Control'
  BY <1>2, <1>3, ResumeFacts, SameProgram DEF Control
<1>6. Displaced'
  BY <1>1, <1>2, ResumeFacts DEF Displaced
<1>7. TableOK'
  BY <1>1, <1>2, ResumeFacts DEF TableOK, Entries, Types, Control
<1>. QED BY <1>4, <1>5, <1>6, <1>7

LEMMA NextTurnKeeps ==
  ASSUME IInv, NextTurn, prog' = prog
  PROVE  IInv'
<1>1. phase = "loop" /\ UNCHANGED <<pc, stk, ev, alive, cur, wish>>
  BY DEF NextTurn, InLoop
<1>2. stk[cur] \in Seq(Address) /\ pc[cur] \in Address
  BY DEF IInv, Types
<1>3. Len(stk[cur]) \in Nat
  BY <1>2, SMT
<1>4. ReturnAddress # None => ReturnAddress \in Address
  BY <1>2, AddressFacts DEF ReturnAddress, IInv, Types
<1>5. CASE ReturnAddress # None
  BY <1>1, <1>3, <1>4, <1>5, RunToKeeps DEF NextTurn
<1>6. CASE ReturnAddress = None
  BY <1>1, <1>6, ResumedKeeps DEF NextTurn
<1>. QED BY <1>5, <1>6

LEMMA FinishKeeps ==
  ASSUME IInv, Finish, prog' = prog
  PROVE  IInv'
<1>1. phase = "loop" /\ mo.kind = "finish" /\ UNCHANGED <<pc, stk, ev, alive, cur, wish>>
  BY DEF Finish
<1>2. stk[cur] \in Seq(Address) /\ stk[cur] # <<>>
  BY <1>1 DEF IInv, Types, Control
<1>3. CallerReturn \in Address /\ Len(stk[cur]) - 1 \in Nat
  BY <1>2, SMT DEF CallerReturn, Last
<1>. QED BY <1>1, <1>3, RunToKeeps DEF Finish

LEMMA TurnKeeps ==
  ASSUME IInv, StepTurn \/ Plain, prog' = prog
  PROVE  IInv'
BY ResumedKeeps DEF StepTurn, Plain, InLoop

LEMMA LimitReachedKeeps ==
  ASSUME IInv, LimitReached, prog' = prog
  PROVE  IInv'
<1>. USE DEF IInv
<1>1. /\ UNCHANGED <<pc, stk, st, ev, alive, user, temp, inst, pend, cur, wish>>
      /\ phase = "loop" /\ phase' = "idle" /\ mo' = NoMotion
  BY DEF LimitReached, threads, table
<1>2. Types'
  BY <1>1, NoMotionType, SameProgram DEF Types
<1>3. Control' /\ Displaced'
  BY <1>1, SameProgram DEF Control, Displaced
<1>4. TableOK'
  BY <1>1 DEF TableOK, Entries
<1>. QED BY <1>2, <1>3, <1>4

-----------------------------------------------------------------------------
(* The wait.                                                               *)

\* A breakpoint is reported only to continue_execution, and at an INT3 that
\* is in memory.
LEMMA ClassifyFacts ==
  ASSUME IInv, NEW t \in Tid, ev[t] # "none"
  PROVE  /\ Classify(t) = "Exited" => ~alive
         /\ Classify(t) = "Breakpoint" => wmode = "go" /\ HitAddress(t) \in inst
<1>1. ev[t] \in {"trap", "step", "signal", "exit", "exec"} /\ (ev[t] = "exit" => ~alive)
  BY DEF IInv, Types, Control
<1>2. CASE ev[t] = "exit"
  BY <1>1, <1>2 DEF Classify
<1>3. CASE ev[t] = "exec"
  BY <1>3 DEF Classify
<1>4. CASE ev[t] = "signal"
  BY <1>4 DEF Classify
<1>5. CASE ev[t] \in {"trap", "step"} /\ wmode # "go"
  <2>1. Classify(t) = "SingleStep"
    BY <1>5 DEF Classify
  <2>. QED BY <2>1
<1>6. CASE ev[t] \in {"trap", "step"} /\ wmode = "go"
  <2>1. Classify(t) = IF ev[t] = "trap" /\ pc[t] - 1 \in inst THEN "Breakpoint" ELSE "Trap"
    BY <1>6 DEF Classify
  <2>. QED BY <1>6, <2>1 DEF HitAddress
<1>. QED BY <1>1, <1>2, <1>3, <1>4, <1>5, <1>6

\* What the stop does to the table before the motion looks at it: an INT3 that
\* was lifted for a displaced step is back, and the one that was hit is lifted.
LEMMA TableAfter ==
  ASSUME IInv, NEW t \in Tid, phase = "wait", ev[t] # "none", NEW stop, stop = Classify(t)
  PROVE  /\ InstAfter(t, stop) \subseteq Address
         /\ PendAfter(t, stop) \in [tid : Tid \cup {None}, addr : Address \cup {None}]
         /\ PendAfter(t, stop) # NoPend => PendAfter(t, stop).addr # None
         /\ stop = "Exec" => InstAfter(t, stop) = {} /\ PendAfter(t, stop) = NoPend
         /\ stop = "SingleStep" /\ wmode # "go" => PendAfter(t, stop) = NoPend
         /\ alive /\ stop # "Exec" =>
              /\ InstAfter(t, stop) \subseteq Entries
              /\ Entries \ InstAfter(t, stop) \subseteq {PendAfter(t, stop).addr}
              /\ PendAfter(t, stop).addr \in Entries \cup {None}
<1>. USE DEF IInv
<1>1. inst \subseteq Address /\ user \subseteq Address /\ temp \in Address \cup {None}
      /\ pend \in [tid : Tid \cup {None}, addr : Address \cup {None}]
  BY DEF Types
<1>2. None \notin Address /\ (pend # NoPend => pend.addr # None)
  BY AddressFacts DEF Types, Displaced
<1>3. NoPend \in [tid : Tid \cup {None}, addr : Address \cup {None}] /\ NoPend.addr = None
  BY SMT DEF NoPend
<1>4. /\ wmode \in {"step", "go", "over", "overgo"}
      /\ wmode \in {"step", "go"} <=> pend = NoPend
  BY DEF Displaced
<1>5. alive => /\ inst \subseteq Entries /\ Entries \ inst \subseteq {pend.addr}
               /\ pend.addr \in user \cup {None}
  BY DEF TableOK
<1>6. CASE stop = "Exec"
  BY <1>3, <1>6 DEF InstAfter, PendAfter
<1>7. CASE stop = "Breakpoint"
  <2>1. wmode = "go" /\ HitAddress(t) \in inst /\ pend = NoPend
    BY <1>4, <1>7, ClassifyFacts
  <2>2. /\ InstAfter(t, stop) = inst \ {HitAddress(t)}
        /\ PendAfter(t, stop) = [tid |-> t, addr |-> HitAddress(t)]
    BY <1>7 DEF InstAfter, PendAfter
  <2>3. /\ PendAfter(t, stop) \in [tid : Tid \cup {None}, addr : Address \cup {None}]
        /\ PendAfter(t, stop).addr = HitAddress(t)
    BY <1>1, <2>1, <2>2, SMT
  <2>4. alive => Entries \subseteq inst
    BY <1>1, <1>2, <1>3, <1>5, <2>1 DEF Entries
  <2>. QED BY <1>1, <1>2, <1>5, <1>7, <2>1, <2>2, <2>3, <2>4
<1>8. CASE stop \notin {"Exec", "Breakpoint"} /\ wmode \in {"over", "overgo"}
  <2>1. pend # NoPend /\ pend.addr \in Address
    BY <1>1, <1>2, <1>4, <1>8, SMT
  <2>2. PendAfter(t, stop) = NoPend
    BY <1>8 DEF PendAfter
  <2>3. InstAfter(t, stop) = IF stop # "Exited"
                             THEN inst \cup ({pend.addr} \cap (user \cup {temp})) ELSE inst
    BY <1>8 DEF InstAfter
  <2>4. alive => stop # "Exited"
    BY ClassifyFacts
  <2>5. InstAfter(t, stop) \subseteq Address
    BY <1>1, <2>1, <2>3
  <2>6. alive => /\ InstAfter(t, stop) \subseteq Entries
                 /\ Entries \ InstAfter(t, stop) = {}
    BY <1>2, <1>5, <2>1, <2>3, <2>4 DEF Entries
  <2>. QED BY <1>3, <1>8, <2>2, <2>5, <2>6
<1>9. CASE stop \notin {"Exec", "Breakpoint"} /\ wmode \in {"step", "go"}
  <2>1. PendAfter(t, stop) = NoPend /\ InstAfter(t, stop) = inst
    BY <1>4, <1>9 DEF PendAfter, InstAfter
  <2>. QED BY <1>1, <1>3, <1>4, <1>5, <1>9, <2>1 DEF Entries
<1>. QED BY <1>4, <1>6, <1>7, <1>8, <1>9

\* A collected stop: the temporary breakpoint goes away whatever the stop is,
\* unless the wait goes on after the displaced step.
LEMMA CollectKeeps ==
  ASSUME IInv, NEW t \in Tid, Collect(t), prog' = prog
  PROVE  IInv'
<1>. DEFINE stop == Classify(t)
            verdict == Verdict(t, stop)
<1>. USE DEF IInv
<1>1. /\ phase = "wait" /\ ev[t] # "none" /\ ev' = [ev EXCEPT ![t] = "none"] /\ cur' = t
      /\ pc' = PcAfter(t, stop) /\ alive' = alive
      /\ stk' = IF stop = "Exec" THEN [stk EXCEPT ![t] = <<>>] ELSE stk
      /\ user' = IF stop = "Exec" THEN {} ELSE user
      /\ wish' = IF stop = "Exec" THEN {} ELSE wish
  BY DEF Collect
<1>2. temp = mo.temp /\ temp \in Address \cup {None} /\ None \notin Address
      /\ user \subseteq Address /\ mo \in Motions
  BY <1>1, AddressFacts DEF Types, Control
<1>3. pc' \in [Tid -> Address]
  <2>1. 1 \in Address /\ pc \in [Tid -> Address]
    BY AddressFacts DEF Types
  <2>2. stop = "Breakpoint" => HitAddress(t) \in Address
    BY <1>1, ClassifyFacts DEF Types
  <2>. QED BY <1>1, <2>1, <2>2 DEF PcAfter
<1>4. stk' \in [Tid -> Seq(Address)]
  <2>1. <<>> \in Seq(Address)
    BY SMT
  <2>. QED BY <1>1, <2>1 DEF Types
<1>5. ev' \in [Tid -> {"none", "trap", "step", "signal", "exit", "exec"}]
      /\ \A u \in Tid : ev'[u] = "exit" => ~alive'
  BY <1>1 DEF Types, Control
<1>. HIDE DEF stop, verdict
<1>6. CASE GoesOn(t, stop)
  <2>1. /\ st' = [st EXCEPT ![t] = "Running"] /\ wmode' = "go"
        /\ inst' = InstAfter(t, stop) /\ pend' = PendAfter(t, stop)
        /\ UNCHANGED <<temp, phase, mo>>
    BY <1>6 DEF Collect, stop
  <2>2. stop = "SingleStep" /\ wmode = "overgo"
    BY <1>6 DEF GoesOn
  <2>3. pend' = NoPend /\ inst' \subseteq Address /\ NoPend.addr = None
        /\ pend' \in [tid : Tid \cup {None}, addr : Address \cup {None}]
    BY <1>1, <2>1, <2>2, TableAfter DEF stop, NoPend
  <2>4. Types'
    BY <1>1, <1>3, <1>4, <1>5, <2>1, <2>2, <2>3, SameProgram DEF Types
  <2>5. Control'
    BY <1>1, <1>2, <1>5, <2>1, SameProgram DEF Control, Types
  <2>6. Displaced'
    BY <1>1, <2>1, <2>3 DEF Displaced
  <2>7. alive => inst' \subseteq Entries /\ Entries \ inst' \subseteq {None}
    BY <1>1, <2>1, <2>2, <2>3, TableAfter DEF stop
  <2>8. TableOK'
    BY <1>1, <2>1, <2>2, <2>3, <2>7 DEF TableOK, Entries
  <2>. QED BY <2>4, <2>5, <2>6, <2>8
<1>7. CASE ~GoesOn(t, stop)
  <2>1. /\ st' = [st EXCEPT ![t] = "Stopped"] /\ temp' = None
        /\ inst' = IF mo.temp = None THEN InstAfter(t, stop)
                   ELSE InstAfter(t, stop) \ {mo.temp}
        /\ pend' = IF mo.temp # None /\ PendAfter(t, stop).addr = mo.temp
                   THEN NoPend ELSE PendAfter(t, stop)
        /\ phase' = (IF verdict = "again" THEN "loop" ELSE "idle")
        /\ mo' = IF verdict = "again" THEN Counted ELSE NoMotion
    BY <1>7 DEF Collect, stop, verdict, EndRun
  <2>2. NoPend \in [tid : Tid \cup {None}, addr : Address \cup {None}] /\ NoPend.addr = None
    BY SMT DEF NoPend
  <2>3. /\ inst' \subseteq Address /\ (pend' # NoPend => pend'.addr # None)
        /\ pend' \in [tid : Tid \cup {None}, addr : Address \cup {None}]
    BY <1>1, <2>1, <2>2, TableAfter DEF stop
  <2>4. mo' \in Motions /\ mo'.temp = None /\ (verdict = "again" => mo'.kind # "finish")
    <3>1. Counted \in Motions /\ Counted.temp = None /\ Counted.kind = mo.kind
      <4>1. mo.n + 1 \in Nat
        BY <1>2, SMT DEF Motions
      <4>. QED BY <1>2, <4>1 DEF Counted, Motions
    <3>2. NoMotion \in Motions /\ NoMotion.temp = None
      BY NoMotionType DEF NoMotion
    <3>3. verdict = "again" => mo.kind # "finish"
      BY DEF verdict, Verdict, FinishVerdict
    <3>. QED BY <2>1, <3>1, <3>2, <3>3
  <2>5. Types'
    BY <1>1, <1>3, <1>4, <1>5, <2>1, <2>3, <2>4, SameProgram DEF Types
  <2>6. Control'
    BY <1>1, <1>5, <2>1, <2>4, SameProgram DEF Control, Types
  <2>7. Displaced'
    BY <2>1, <2>3 DEF Displaced
  <2>8. TableOK'
    <3>. SUFFICES ASSUME alive
                  PROVE  /\ user' = wish' /\ inst' \subseteq user'
                         /\ user' \ inst' \subseteq {pend'.addr}
                         /\ pend'.addr \in user' \cup {None} /\ None \notin user'
      BY <1>1, <2>1 DEF TableOK, Entries
    <3>1. CASE stop = "Exec"
      BY <1>1, <2>1, <2>2, <3>1, TableAfter DEF stop
    <3>2. CASE stop # "Exec"
      <4>1. /\ InstAfter(t, stop) \subseteq Entries
            /\ Entries \ InstAfter(t, stop) \subseteq {PendAfter(t, stop).addr}
            /\ PendAfter(t, stop).addr \in Entries \cup {None}
        BY <1>1, <3>2, TableAfter DEF stop
      <4>2. user' = user /\ wish' = wish /\ user = wish /\ temp \notin user
        BY <1>1, <3>2 DEF TableOK
      <4>3. CASE temp = None
        BY <1>2, <2>1, <4>1, <4>2, <4>3 DEF Entries
      <4>4. CASE temp # None
        BY <1>2, <2>1, <2>2, <4>1, <4>2, <4>4 DEF Entries
      <4>. QED BY <4>3, <4>4
    <3>. QED BY <3>1, <3>2
  <2>. QED BY <2>5, <2>6, <2>7, <2>8
<1>. QED BY <1>6, <1>7

\* The wait of a run throws: the pending step is done by then, and the
\* temporary breakpoint is removed if the task is stopped.
LEMMA WaitThrowsKeeps ==
  ASSUME IInv, NEW b \in BOOLEAN, WaitThrows(b), prog' = prog
  PROVE  IInv'
<1>. USE DEF IInv
<1>1. /\ phase = "wait" /\ wmode = "go" /\ phase' = "idle" /\ mo' = NoMotion
      /\ UNCHANGED <<pc, stk, ev, alive, user, pend, cur, wish>>
      /\ st' = (IF b THEN [st EXCEPT ![cur] = "Stopped"] ELSE st)
  BY DEF WaitThrows
<1>2. mo.temp # None /\ b => temp' = None /\ inst' = inst \ {mo.temp}
  BY DEF WaitThrows
<1>3. ~(mo.temp # None /\ b) => temp' = temp /\ inst' = inst
  BY DEF WaitThrows
<1>4. /\ st[cur] # "Stopped" /\ temp = mo.temp /\ temp \in Address \cup {None}
      /\ None \notin Address /\ user \subseteq Address /\ pend = NoPend
  BY <1>1, AddressFacts DEF Types, Control, Displaced
<1>5. pend.addr = None
  BY <1>4 DEF NoPend
<1>6. Types'
  <2>1. st' \in [Tid -> {"Stopped", "Running", "Stepping"}]
    BY <1>1 DEF Types
  <2>2. temp' \in Address \cup {None} /\ inst' \subseteq Address
    BY <1>2, <1>3 DEF Types
  <2>. QED BY <1>1, <2>1, <2>2, NoMotionType, SameProgram DEF Types
<1>7. Control' /\ Displaced'
  BY <1>1, SameProgram DEF Control, Displaced
<1>8. CASE ~b
  BY <1>1, <1>4, <1>6, <1>7, <1>8 DEF TableOK
<1>9. CASE b
  <2>1. temp' = None /\ inst' = inst \ ({temp} \ {None})
    <3>1. CASE temp = None
      BY <1>3, <1>4, <3>1
    <3>2. CASE temp # None
      BY <1>2, <1>4, <1>9, <3>2
    <3>. QED BY <3>1, <3>2
  <2>. QED BY <1>1, <1>4, <1>5, <1>6, <1>7, <2>1 DEF TableOK, Entries
<1>. QED BY <1>6, <1>7, <1>8, <1>9

-----------------------------------------------------------------------------
(* The theorem.                                                            *)

LEMMA NextKeeps ==
  ASSUME IInv, [Next /\ UNCHANGED prog]_<<vars, prog>>
  PROVE  IInv'
<1>1. CASE Next /\ UNCHANGED prog
  BY <1>1, RunInstrKeeps, EndImageKeeps, SignalKeeps, AddBreakpointKeeps, DeleteBreakpointKeeps,
     SelectThreadKeeps, BeginKeeps, TurnKeeps, NextTurnKeeps, LimitReachedKeeps, FinishKeeps,
     CollectKeeps, WaitThrowsKeeps DEF Next, Begin
<1>2. CASE UNCHANGED <<vars, prog>>
  BY <1>2, SameProgram DEF vars, IInv, Types, Control, Displaced, TableOK, Entries
<1>. QED BY <1>1, <1>2

LEMMA Inductive == Spec => []IInv
BY InitIInv, NextKeeps, PTL DEF Spec

\* Whatever ended step, next, finish, continue or stepi, at the next prompt the
\* breakpoints are those the user set, all in memory but for the one the
\* current task stands at, and the temporary one is gone: for every program,
\* whatever its threads do.
THEOREM UserStaysArmed == Spec => []UserArmed
<1>1. IInv => UserArmed
  BY DEF IInv, TableOK, Entries, UserArmed, Stopped
<1>. QED BY <1>1, Inductive, PTL
=============================================================================
