------------------------ MODULE ProcessDomainsProofs ------------------------
(***************************************************************************)
(* DomainState, CliFollows, ReleasedClean and TracedOwned for every        *)
(* environment: any number of processes, addresses and policies, however   *)
(* the session starts and whichever faults occur.                          *)
(***************************************************************************)
EXTENDS ProcessDomains, TLAPS, WellFoundedInduction

\* Most leaves are first-order; the others name their prover.
USE Zenon DEF Motions

Domain == [pid : Pid, st : {"Stopped", "Running", "Exited"}, exe : Image,
           tab : SUBSET Addr, inst : SUBSET Addr, pend : Addr \cup {None}, wp : BOOLEAN]

TypeOK ==
  /\ env \in Environments
  /\ ks \in [Pid -> {"none", "run", "stop", "free", "zombie", "dead"}]
  /\ int3 \in [Pid -> SUBSET Addr] /\ armed \in [Pid -> BOOLEAN] /\ image \in [Pid -> Image]
  /\ root \in Pid
  /\ origin \in env.origins /\ policy \in env.policies \cup {"Parent"}
  /\ act \in Domain
  /\ DOMAIN ret \subseteq Pid /\ \A p \in DOMAIN ret : ret[p] \in Domain
  /\ user \in [Pid -> SUBSET (Addr \cup {None})]
  /\ temp \in Addr \cup {None} /\ over \in BOOLEAN /\ vchild \in Pid \cup {None}

(***************************************************************************)
(* What is true of every domain, selected or retained.  DomainState says   *)
(* it of the processes that are alive when nothing is killed from outside; *)
(* a process that was killed can still be selected, and a transfer that a  *)
(* SIGKILL interrupts leaves fewer INT3s than the table says, never more.  *)
(***************************************************************************)
DomainOK(d) ==
  /\ d.inst \subseteq d.tab /\ d.exe = image[d.pid] /\ ks[d.pid] # "none"
  /\ d.st = "Stopped" => ks[d.pid] # "run"
  /\ int3[d.pid] \subseteq d.inst /\ (armed[d.pid] => d.wp)
  /\ "kill" \notin Faults /\ ks[d.pid] \in {"stop", "run"} =>
       d.inst \subseteq int3[d.pid] /\ (d.wp => armed[d.pid])

\* Only the selected process has a breakpoint lifted.
Active ==
  /\ DomainOK(act)
  /\ act.st # "Exited" => act.tab \ act.inst = {act.pend} \ {None}
  /\ act.st = "Exited" => int3[act.pid] = {}

Retained ==
  \A p \in DOMAIN ret :
    /\ DomainOK(ret[p]) /\ ret[p].pid = p /\ p # act.pid
    /\ ret[p].st = "Stopped" /\ ret[p].pend = None /\ ret[p].inst = ret[p].tab

\* The user's entries for a process are its breakpoints, without the temporary
\* one of a source motion that has not ended.
Listed ==
  "Child" \notin env.policies /\ "exec_in_motion" \notin Faults =>
    /\ (call \in Motions \cup {"undo"} \/ Idle) /\ ks[act.pid] \in {"stop", "run"} =>
         user[act.pid] = act.tab \ {temp}
    /\ \A p \in DOMAIN ret : ks[p] \in {"stop", "run"} => user[p] = ret[p].tab

\* A motion is over a breakpoint exactly when it started at a lifted one.
Motion ==
  /\ call \in Motions => act.st = "Running" /\ (over <=> act.pend # None)
  /\ call \notin Motions => ~over /\ vchild = None
  /\ vchild # None => ks[act.pid] = "run"
  /\ temp # None => call \in {"run", "undo"}

\* An attached session has one process from beginning to end.  At the prompt or
\* at its end that process is stopped or dead, unless a wait threw: on a fork
\* child that stopped too early, or on one that was killed and not collected.
Alone ==
  origin = "Attached" =>
    /\ DOMAIN ret = {} /\ policy # "Both"
    /\ "child_first" \notin Faults /\ "kill" \notin Faults => \A z \in Pid : ks[z] # "zombie"
    /\ call \notin Motions \cup {"gone"} /\ ks[act.pid] \in {"run", "stop"} =>
         \/ act.st = "Stopped" /\ ks[act.pid] = "stop"
         \/ act.st = "Running" /\ ("child_first" \in Faults \/ "kill" \in Faults)

\* There is nothing in a process before it exists; without the policy both
\* there is one process, and the command line has its image unless an exec
\* made the motion throw.
Entries ==
  /\ \A p \in Pid : ks[p] = "none" => user[p] = {} /\ int3[p] = {}
  /\ policy # "Both" => DOMAIN ret = {}
  /\ "Both" \notin env.policies /\ "exec_in_motion" \notin Faults => elf = image[act.pid]

IInv == /\ TypeOK /\ Active /\ Retained /\ Listed /\ Motion /\ Alone /\ Entries
        /\ ReleasedClean /\ TracedOwned

\* 0 is neither a process nor an address, and a session has an origin.
LEMMA EnvFacts ==
  ASSUME env \in Environments
  PROVE  /\ None \notin Pid /\ None \notin Addr /\ Pid \subseteq Nat
         /\ env.origins \subseteq {"Launched", "Attached"}
BY DomainAssumption DEF None, Pid, Addr

\* The environment never changes.
LEMMA SameEnv ==
  ASSUME UNCHANGED env
  PROVE  Pid' = Pid /\ Addr' = Addr /\ Faults' = Faults /\ Domain' = Domain
BY DEF Pid, Addr, Faults, Domain, Image, None

\* A new domain is one.
LEMMA FreshDomain ==
  ASSUME NEW p \in Pid, NEW exe \in Image, NEW wp \in BOOLEAN
  PROVE  Fresh(p, exe, wp) \in Domain
BY DEF Fresh, Domain

\* A session starts with one process and nothing in it.
LEMMA InitInv == Init => IInv
<1>. SUFFICES ASSUME Init PROVE IInv
  OBVIOUS
<1>1. TypeOK
  <2>1. act \in Domain
    BY FreshDomain DEF Init, Image
  <2>2. DOMAIN ret = {}
    BY DEF Init
  <2>. QED BY <2>1, <2>2 DEF Init, TypeOK, Image
<1>2. DOMAIN ret = {} /\ act.pid = root /\ root \in Pid
  BY DEF Init, Fresh
<1>3. Active
  BY <1>2 DEF Init, Active, DomainOK, Fresh, Image
<1>4. Retained /\ Motion /\ Alone /\ Listed
  BY <1>2 DEF Init, Retained, Motion, Alone, Listed, Fresh
<1>5. Entries
  BY <1>2 DEF Init, Entries
<1>6. ReleasedClean /\ TracedOwned
  BY <1>2 DEF Init, ReleasedClean, TracedOwned, Owned
<1>. QED BY <1>1, <1>3, <1>4, <1>5, <1>6 DEF IInv

-----------------------------------------------------------------------------
(* What a step has to leave alone.                                         *)

\* The retained domains stay right when their processes are left alone.
LEMMA RetainedKept ==
  ASSUME Retained, UNCHANGED <<env, ret>>, act'.pid \notin DOMAIN ret,
         \A p \in DOMAIN ret :
           /\ int3'[p] = int3[p] /\ armed'[p] = armed[p] /\ image'[p] = image[p]
           /\ ks'[p] = ks[p] \/ ks'[p] \in {"dead", "zombie"}
  PROVE  Retained'
BY SameEnv, SMT DEF Retained, DomainOK

\* The entries stay right when the tables and the entries are left alone.
LEMMA ListedKept ==
  ASSUME Listed, UNCHANGED <<env, ret, user, temp>>, act'.pid = act.pid, act'.tab = act.tab,
         (call \in Motions \cup {"undo"} \/ Idle)' => call \in Motions \cup {"undo"} \/ Idle,
         \A p \in DOMAIN ret \cup {act.pid} :
           ks'[p] \in {"stop", "run"} => ks[p] \in {"stop", "run"}
  PROVE  Listed'
BY SameEnv DEF Listed

\* A process is released with its own bytes, or was and is left alone.
LEMMA ReleasedKept ==
  ASSUME ReleasedClean, UNCHANGED <<env, origin>>, call # "gone" \/ UNCHANGED <<call, act>>,
         \A p \in Pid : ks'[p] = "free" =>
           \/ ks[p] = "free" /\ int3'[p] = int3[p] /\ armed'[p] = armed[p]
           \/ int3'[p] = {} /\ ~armed'[p]
  PROVE  ReleasedClean'
BY SameEnv DEF ReleasedClean, Abandoned

\* In a motion the step over the lifted breakpoint puts it back.
LEMMA SettledFacts ==
  ASSUME IInv, call \in Motions
  PROVE  /\ Settled(act) = [act EXCEPT !.st = "Stopped", !.inst = act.tab, !.pend = None]
         /\ SettledInt3(int3, act) = [int3 EXCEPT ![act.pid] = @ \cup (act.tab \ act.inst)]
<1>1. act \in Domain /\ int3 \in [Pid -> SUBSET Addr] /\ None \notin Addr
  BY EnvFacts DEF IInv, TypeOK
<1>2. act.inst \subseteq act.tab /\ act.tab \ act.inst = {act.pend} \ {None}
  BY DEF IInv, Motion, Active, DomainOK
<1>3. CASE over
  <2>1. act.pend # None
    BY <1>3 DEF IInv, Motion
  <2>2. {act.pend} \cap act.tab = act.tab \ act.inst
        /\ {act.pend} \cap (act.tab \ act.inst) = act.tab \ act.inst
    BY <2>1, <1>2
  <2>3. act.inst \cup (act.tab \ act.inst) = act.tab
    BY <1>2
  <2>. QED BY <1>3, <2>2, <2>3 DEF Settled, SettledInt3
<1>4. CASE ~over
  <2>1. act.pend = None
    BY <1>4 DEF IInv, Motion
  <2>2. act.tab \ act.inst = {} /\ act.inst = act.tab
    BY <2>1, <1>2
  <2>3. SettledInt3(int3, act) = int3
    BY <1>4 DEF SettledInt3
  <2>4. [int3 EXCEPT ![act.pid] = @ \cup (act.tab \ act.inst)] = int3
    BY <2>2, <1>1 DEF Domain
  <2>5. Settled(act) = [act EXCEPT !.st = "Stopped", !.inst = act.inst, !.pend = act.pend]
    BY <1>4 DEF Settled
  <2>. QED BY <2>1, <2>2, <2>3, <2>4, <2>5
<1>. QED BY <1>3, <1>4

-----------------------------------------------------------------------------
(* wait_and_classify.                                                      *)

\* The selected process stops, with its lifted breakpoint put back.
LEMMA StopsSettled ==
  ASSUME IInv, UNCHANGED env, call \in Motions, ks[act.pid] = "run",
         ks' = [ks EXCEPT ![act.pid] = "stop"],
         int3' = SettledInt3(int3, act), act' = Settled(act), Return,
         UNCHANGED <<armed, image, root, origin, policy, ret, cliVars>>
  PROVE  IInv'
<1>. USE DEF IInv, cliVars
<1>1. act \in Domain /\ act.pid \in Pid /\ act.pid \notin DOMAIN ret /\ act.tab \subseteq Addr
  BY DEF TypeOK, Domain, Retained
<1>2. /\ act' = [act EXCEPT !.st = "Stopped", !.inst = act.tab, !.pend = None]
      /\ act' \in Domain /\ act'.pid = act.pid /\ act'.tab = act.tab /\ act'.inst = act.tab
      /\ act'.pend = None /\ act'.st = "Stopped" /\ act'.wp = act.wp /\ act'.exe = act.exe
  BY <1>1, SettledFacts DEF Domain
<1>3. \A p \in Pid : /\ ks'[p] = IF p = act.pid THEN "stop" ELSE ks[p]
                     /\ p # act.pid => int3'[p] = int3[p]
  BY SettledFacts DEF TypeOK
<1>4. int3'[act.pid] = int3[act.pid] \cup (act.tab \ act.inst) /\ int3' \in [Pid -> SUBSET Addr]
  BY <1>1, SettledFacts, SMT DEF TypeOK
<1>5. TypeOK'
  BY <1>1, <1>2, <1>4, SameEnv DEF TypeOK, Return
<1>6. Active'
  <2>1. DomainOK(act)
    BY DEF Active
  <2>2. int3'[act.pid] \subseteq act.tab
        /\ (act.inst \subseteq int3[act.pid] => act.tab \subseteq int3'[act.pid])
    BY <1>4, <2>1 DEF DomainOK
  <2>. QED BY <1>1, <1>2, <1>3, <2>1, <2>2, SameEnv, SMT DEF Active, DomainOK
<1>7. Retained' /\ Listed'
  BY <1>1, <1>2, <1>3, RetainedKept, ListedKept DEF TypeOK, Return
<1>8. Motion'
  BY <1>2 DEF Motion, Return, AfterMotion
<1>9. Alone'
  BY <1>1, <1>2, <1>3, SameEnv, SMT DEF Alone
<1>10. Entries'
  BY <1>1, <1>2, <1>3, SameEnv, SMT DEF Entries
<1>11. ReleasedClean'
  BY <1>3, ReleasedKept, SMT
<1>12. TracedOwned'
  BY <1>2, <1>3, SameEnv, SMT DEF TracedOwned, Owned
<1>. QED BY <1>5, <1>6, <1>7, <1>8, <1>9, <1>10, <1>11, <1>12

\* A child that is killed and not kept leaves the session as it was.  When its
\* registers could not be written, the parent already has its own bytes back.
LEMMA Rejected ==
  ASSUME IInv, UNCHANGED env, Waiting, NEW c \in Pid, ks[c] = "none", RejectChild(c),
         \/ int3' = int3
         \/ "kill" \in Faults /\ int3' = [int3 EXCEPT ![act.pid] = ReleasedBytes],
         \/ image' = image
         \/ image' = [image EXCEPT ![c] = image[act.pid]],
         UNCHANGED <<root, origin, policy, cliVars>>
  PROVE  IInv'
<1>. USE DEF IInv, cliVars
<1>1. act \in Domain /\ act.pid \in Pid /\ act.pid \notin DOMAIN ret /\ ks[act.pid] = "run"
  BY DEF TypeOK, Domain, Retained, Waiting
<1>2. c # act.pid /\ c \notin DOMAIN ret /\ DOMAIN ret \subseteq Pid
  BY SMT DEF Active, Retained, DomainOK, TypeOK
<1>3. /\ act' \in Domain /\ act'.pid = act.pid /\ act'.tab = act.tab /\ act'.inst = act.inst
      /\ act'.pend = act.pend /\ act'.st = "Stopped" /\ act'.wp = act.wp /\ act'.exe = act.exe
  BY <1>1 DEF RejectChild, Domain
<1>4. /\ \A p \in Pid : /\ p # c => image'[p] = image[p]
                        /\ p # act.pid => int3'[p] = int3[p]
                        /\ p # c /\ p # act.pid => ks'[p] = ks[p]
      /\ ks'[act.pid] = "stop" /\ ks'[c] \in {"dead", "zombie"}
      /\ "kill" \notin Faults => ks'[c] = "dead"
  BY <1>1, <1>2 DEF RejectChild, TypeOK
<1>5. int3'[act.pid] \subseteq int3[act.pid]
      /\ ("kill" \notin Faults => int3'[act.pid] = int3[act.pid])
  BY <1>1, SMT DEF ReleasedBytes, TypeOK
<1>6. call' \in {"idle", "undo", "threw"} /\ over' = FALSE /\ vchild' = None
      /\ UNCHANGED <<armed, ret, temp>> /\ (temp # None => call' = "undo")
  BY <1>1 DEF RejectChild, Throw, AfterMotion, Motion
<1>7. TypeOK'
  <2>1. int3' \in [Pid -> SUBSET Addr]
    BY SMT DEF ReleasedBytes, TypeOK
  <2>2. ks' \in [Pid -> {"none", "run", "stop", "free", "zombie", "dead"}]
    <3>1. PICK end \in {"dead", "zombie"} : ks' = [ks EXCEPT ![act.pid] = "stop", ![c] = end]
      BY DEF RejectChild
    <3>. QED BY <3>1 DEF TypeOK
  <2>3. image' \in [Pid -> Image]
    BY <1>1 DEF TypeOK
  <2>. QED BY <1>3, <1>6, <2>1, <2>2, <2>3, SameEnv DEF TypeOK
<1>8. Active'
  BY <1>1, <1>2, <1>3, <1>4, <1>5, <1>6, SameEnv, SMT DEF Active, DomainOK, Motion, Waiting
<1>9. Retained' /\ Listed'
  BY <1>1, <1>2, <1>3, <1>4, <1>6, RetainedKept, ListedKept DEF Waiting
<1>10. Motion' /\ Alone'
  BY <1>1, <1>2, <1>3, <1>4, <1>6, SameEnv, SMT DEF Motion, Alone
<1>11. Entries'
  BY <1>1, <1>2, <1>3, <1>4, <1>6, SameEnv, SMT DEF Entries
<1>12. ReleasedClean'
  BY <1>1, <1>4, <1>6, ReleasedKept DEF Waiting
<1>13. TracedOwned'
  BY <1>3, <1>4, <1>6, SameEnv DEF TracedOwned, Owned
<1>. QED BY <1>7, <1>8, <1>9, <1>10, <1>11, <1>12, <1>13

\* OnStep, OnSignal and OnVforkDone.
LEMMA OnStepInv ==
  ASSUME IInv, UNCHANGED env, OnStep PROVE IInv'
<1>1. CASE call # "step"
  <2>. USE DEF IInv, cliVars
  <2>1. act \in Domain /\ act.pid \in Pid /\ act.pid \notin DOMAIN ret /\ act.tab \subseteq Addr
    BY DEF TypeOK, Domain, Retained
  <2>2. /\ call' = call /\ over' = FALSE /\ call \in Motions
        /\ UNCHANGED <<ks, armed, image, root, origin, policy, ret, cliVars, temp, vchild>>
        /\ act' = [Settled(act) EXCEPT !.st = "Running"]
        /\ int3' = [int3 EXCEPT ![act.pid] = @ \cup (act.tab \ act.inst)]
    BY <1>1, SettledFacts DEF OnStep, Waiting
  <2>3. /\ act' \in Domain /\ act'.pid = act.pid /\ act'.tab = act.tab /\ act'.inst = act.tab
        /\ act'.pend = None /\ act'.st = "Running" /\ act'.wp = act.wp /\ act'.exe = act.exe
    BY <1>1, <2>1, <2>2, SettledFacts DEF Domain
  <2>4. \A p \in Pid : p # act.pid => int3'[p] = int3[p]
    BY <2>2 DEF TypeOK
  <2>5. int3'[act.pid] = int3[act.pid] \cup (act.tab \ act.inst) /\ int3' \in [Pid -> SUBSET Addr]
    BY <2>1, <2>2 DEF TypeOK
  <2>6. TypeOK'
    BY <2>2, <2>3, <2>5, SameEnv DEF TypeOK
  <2>7. Active'
    <3>1. DomainOK(act)
      BY DEF Active
    <3>2. int3'[act.pid] \subseteq act.tab
          /\ (act.inst \subseteq int3[act.pid] => act.tab \subseteq int3'[act.pid])
      BY <2>5, <3>1 DEF DomainOK
    <3>. QED BY <2>2, <2>3, <3>1, <3>2, SameEnv DEF Active, DomainOK
  <2>8. Retained' /\ Listed'
    BY <2>1, <2>2, <2>3, <2>4, RetainedKept, ListedKept DEF TypeOK
  <2>9. Motion' /\ Alone' /\ Entries'
    <3>1. ks[act.pid] = "run"
      BY DEF OnStep, Waiting
    <3>. QED BY <1>1, <2>2, <2>3, <2>4, <3>1, SameEnv DEF Motion, Alone, Entries
  <2>10. ReleasedClean'
    BY <2>2, <2>4, ReleasedKept DEF OnStep, Waiting
  <2>11. TracedOwned'
    BY <2>2, <2>3, SameEnv DEF TracedOwned, Owned
  <2>. QED BY <2>6, <2>7, <2>8, <2>9, <2>10, <2>11
<1>2. CASE call = "step"
  BY <1>2, StopsSettled DEF OnStep, Waiting, Return, AfterMotion, IInv, Motion
<1>. QED BY <1>1, <1>2 DEF OnStep, Waiting

\* A stop with a signal of the program's own.
LEMMA OnSignalInv ==
  ASSUME IInv, UNCHANGED env, OnSignal PROVE IInv'
BY StopsSettled DEF OnSignal, Waiting

\* A vfork parent goes on when its child has left the shared memory.
LEMMA OnVforkDoneInv ==
  ASSUME IInv, UNCHANGED env, OnVforkDone PROVE IInv'
<1>1. ks[act.pid] = "run"
  BY DEF IInv, Motion, OnVforkDone
<1>. QED BY <1>1, StopsSettled DEF OnVforkDone

\* A managed INT3 is lifted: the domain has no other lifted breakpoint.
LEMMA OnBreakpointInv ==
  ASSUME IInv, UNCHANGED env, NEW a \in Addr, OnBreakpoint(a) PROVE IInv'
<1>. USE DEF IInv, cliVars
<1>1. act \in Domain /\ act.pid \in Pid /\ act.pid \notin DOMAIN ret /\ None \notin Addr
  BY EnvFacts DEF TypeOK, Domain, Retained
<1>2. /\ a \in act.inst /\ act.pend = None /\ act.inst = act.tab /\ ks[act.pid] = "run"
  BY <1>1 DEF OnBreakpoint, Waiting, Motion, Active, DomainOK
<1>3. /\ act' = [act EXCEPT !.st = "Stopped", !.inst = @ \ {a}, !.pend = a]
      /\ int3' = [int3 EXCEPT ![act.pid] = @ \ {a}]
      /\ ks' = [ks EXCEPT ![act.pid] = "stop"]
      /\ call' = AfterMotion /\ over' = FALSE /\ vchild' = None /\ call \in Motions
      /\ UNCHANGED <<armed, image, root, origin, policy, ret, cliVars, temp>>
  BY <1>2 DEF OnBreakpoint, UnpatchedInt3, Return, Waiting
<1>4. /\ act' \in Domain /\ act'.pid = act.pid /\ act'.tab = act.tab /\ act'.inst = act.inst \ {a}
      /\ act'.pend = a /\ act'.st = "Stopped" /\ act'.wp = act.wp /\ act'.exe = act.exe
  BY <1>1, <1>3 DEF Domain
<1>5. \A p \in Pid : /\ ks'[p] = IF p = act.pid THEN "stop" ELSE ks[p]
                     /\ p # act.pid => int3'[p] = int3[p]
  BY <1>3 DEF TypeOK
<1>6. int3'[act.pid] = int3[act.pid] \ {a} /\ int3' \in [Pid -> SUBSET Addr]
  BY <1>1, <1>3 DEF TypeOK
<1>7. TypeOK'
  BY <1>3, <1>4, <1>6, SameEnv DEF TypeOK
<1>8. Active'
  <2>1. DomainOK(act)
    BY DEF Active
  <2>2. act'.tab \ act'.inst = {a} /\ a # None
    BY <1>1, <1>2, <1>4
  <2>3. DomainOK(act)'
    BY <1>1, <1>2, <1>3, <1>4, <1>5, <1>6, <2>1, SameEnv, SMT DEF DomainOK
  <2>. QED BY <1>4, <2>2, <2>3 DEF Active
<1>9. Retained' /\ Listed'
  BY <1>1, <1>2, <1>3, <1>4, <1>5, RetainedKept, ListedKept DEF TypeOK
<1>10. Motion' /\ Alone' /\ Entries'
  BY <1>1, <1>3, <1>4, <1>5, SameEnv, SMT DEF Motion, Alone, Entries, AfterMotion
<1>11. ReleasedClean'
  BY <1>3, <1>5, ReleasedKept, SMT
<1>12. TracedOwned'
  BY <1>3, <1>4, <1>5, SameEnv DEF TracedOwned, Owned
<1>. QED BY <1>7, <1>8, <1>9, <1>10, <1>11, <1>12

\* The process of the session dies: another domain is promoted, in which
\* step_over_pending_breakpoint finds nothing to reinsert, or none is left.
LEMMA OnExitInv ==
  ASSUME IInv, UNCHANGED env, OnExit PROVE IInv'
<1>. USE DEF IInv, cliVars
<1>. DEFINE memory == [int3 EXCEPT ![act.pid] = {}]
<1>1. act \in Domain /\ act.pid \in Pid /\ act.pid \notin DOMAIN ret /\ DOMAIN ret \subseteq Pid
  BY DEF TypeOK, Domain, Retained
<1>2. /\ call' \in {"idle", "undo"} /\ over' = FALSE /\ vchild' = None
      /\ UNCHANGED <<image, root, origin, policy, cliVars>>
      /\ ks[act.pid] = "run" /\ call \in Motions
      /\ temp' \in {temp, None} /\ (temp' # None => call' = "undo")
  BY DEF OnExit, Return, TemporaryGone, AfterMotion, Waiting
<1>3. /\ \A p \in Pid : p # act.pid => /\ ks'[p] = ks[p] /\ armed'[p] = armed[p]
                                       /\ memory[p] = int3[p]
      /\ ks'[act.pid] = "dead" /\ ~armed'[act.pid] /\ memory[act.pid] = {}
  BY <1>1 DEF OnExit, TypeOK
<1>4. /\ ks' \in [Pid -> {"none", "run", "stop", "free", "zombie", "dead"}]
      /\ armed' \in [Pid -> BOOLEAN] /\ memory \in [Pid -> SUBSET Addr]
  BY <1>1 DEF OnExit, TypeOK
<1>5. CASE \E p \in DOMAIN ret : ret[p].st = "Stopped"
  <2>. DEFINE s == first_stopped_retained_process
  <2>1. s \in DOMAIN ret
    <3>. DEFINE S == {p \in DOMAIN ret : ret[p].st = "Stopped"}
    <3>1. S # {} /\ S \in SUBSET Nat
      BY <1>1, <1>5, EnvFacts DEF TypeOK
    <3>. HIDE DEF S
    <3>2. Min(S) \in S
      <4>1. \E x \in S : \A y \in S : <<y, x>> \notin OpToRel(<, Nat)
        BY <3>1, NatLessThanWellFounded, WFMin
      <4>2. \A x, y \in Nat : <<y, x>> \notin OpToRel(<, Nat) => x <= y
        BY SMT DEF OpToRel
      <4>. QED BY <3>1, <4>1, <4>2 DEF Min
    <3>. QED BY <3>2 DEF first_stopped_retained_process, S
  <2>. HIDE DEF s
  <2>2. /\ ret[s] \in Domain /\ ret[s].pid = s /\ s # act.pid /\ DomainOK(ret[s])
        /\ ret[s].st = "Stopped" /\ ret[s].pend = None /\ ret[s].inst = ret[s].tab
    BY <2>1 DEF Retained, TypeOK
  <2>3. /\ act' = Settled(ret[s]) /\ int3' = SettledInt3(memory, ret[s])
        /\ ret' = [q \in DOMAIN ret \ {s} |-> ret[q]] /\ temp' = None
    BY <1>5 DEF OnExit, s, Return, TemporaryGone
  <2>4. int3' = memory
    <3>1. [memory EXCEPT ![s] = @ \cup ({act.pend} \cap (ret[s].tab \ ret[s].inst))] = memory
      BY <1>4, <2>2
    <3>. HIDE DEF memory
    <3>. QED BY <2>2, <2>3, <3>1 DEF SettledInt3
  <2>5. /\ act' \in Domain /\ act'.pid = s /\ act'.tab = ret[s].tab /\ act'.inst = ret[s].inst
        /\ act'.pend = None /\ act'.st = "Stopped" /\ act'.wp = ret[s].wp /\ act'.exe = ret[s].exe
    <3>1. CASE over
      <4>1. ret[s].inst \cup ({act.pend} \cap ret[s].tab) = ret[s].inst
        BY <2>2
      <4>. QED BY <2>2, <2>3, <3>1, <4>1 DEF Settled, Domain
    <3>2. CASE ~over
      BY <2>2, <2>3, <3>2 DEF Settled, Domain
    <3>. QED BY <3>1, <3>2
  <2>. HIDE DEF memory
  <2>6. TypeOK'
    BY <1>1, <1>2, <1>4, <2>3, <2>4, <2>5, SameEnv DEF TypeOK
  <2>7. Active'
    BY <1>1, <1>2, <1>3, <2>1, <2>2, <2>4, <2>5, SameEnv, SMT DEF Active, DomainOK
  <2>8. Retained'
    <3>. SUFFICES ASSUME NEW p \in DOMAIN ret, p # s
                  PROVE  /\ DomainOK(ret[p])' /\ ret[p].pid = p
                         /\ ret[p].st = "Stopped" /\ ret[p].pend = None
                         /\ ret[p].inst = ret[p].tab
      BY <2>3, <2>5, SMT DEF Retained, DomainOK
    <3>1. DomainOK(ret[p]) /\ ret[p].pid = p /\ p # act.pid /\ p \in Pid /\ ret'[p] = ret[p]
      BY <1>1, <2>3 DEF Retained
    <3>. QED BY <1>2, <1>3, <2>4, <3>1, SameEnv, SMT DEF Retained, DomainOK
  <2>9. Listed'
    <3>1. None \notin Addr /\ ret[s].tab \subseteq Addr
      BY <2>2, EnvFacts DEF Domain, TypeOK
    <3>2. act'.tab \ {temp'} = ret[s].tab
      BY <2>3, <2>5, <3>1
    <3>3. \A p \in DOMAIN ret \ {s} : ret'[p] = ret[p] /\ ks'[p] = ks[p] /\ user'[p] = user[p]
      BY <1>1, <1>2, <1>3, <2>3
    <3>4. ks'[s] = ks[s] /\ user'[s] = user[s] /\ DOMAIN ret' = DOMAIN ret \ {s}
      BY <1>1, <1>2, <1>3, <2>1, <2>2, <2>3
    <3>5. "Child" \notin env.policies /\ "exec_in_motion" \notin Faults =>
            /\ \A p \in DOMAIN ret' : ks'[p] \in {"stop", "run"} => user'[p] = ret'[p].tab
            /\ ks'[s] \in {"stop", "run"} => user'[s] = ret[s].tab
      BY <2>1, <3>3, <3>4 DEF Listed
    <3>. QED BY <2>5, <3>2, <3>5, SameEnv DEF Listed
  <2>10. "Attached" # origin /\ policy = "Both" /\ "Both" \in env.policies
    BY <1>5 DEF Alone, Entries, TypeOK
  <2>11. Motion' /\ Alone' /\ Entries'
    <3>1. \A p \in Pid : p # act.pid => int3'[p] = int3[p]
      BY <1>3, <2>4
    <3>2. Motion'
      BY <1>1, <1>2, <1>3, <2>3, <2>5 DEF Motion
    <3>3. Alone'
      BY <1>2, <2>10, SameEnv DEF Alone
    <3>4. Entries'
      BY <1>1, <1>2, <1>3, <2>10, <3>1, SameEnv DEF Entries
    <3>. QED BY <3>2, <3>3, <3>4
  <2>12. ReleasedClean'
    BY <1>2, <1>3, <2>4, ReleasedKept
  <2>13. TracedOwned'
    BY <1>2, <1>3, <2>3, <2>5, SameEnv DEF TracedOwned, Owned
  <2>. QED BY <2>6, <2>7, <2>8, <2>9, <2>11, <2>12, <2>13
<1>6. CASE ~\E p \in DOMAIN ret : ret[p].st = "Stopped"
  <2>1. /\ act' = [act EXCEPT !.st = "Exited", !.wp = FALSE, !.pend = IF over THEN None ELSE @]
        /\ int3' = memory /\ ret' = ret /\ temp' = temp
    BY <1>6 DEF OnExit, Return
  <2>2. /\ act' \in Domain /\ act'.pid = act.pid /\ act'.tab = act.tab /\ act'.inst = act.inst
        /\ act'.st = "Exited" /\ act'.wp = FALSE /\ act'.exe = act.exe
    BY <1>1, <2>1 DEF Domain
  <2>. HIDE DEF memory
  <2>3. TypeOK'
    BY <1>1, <1>2, <1>4, <2>1, <2>2, SameEnv DEF TypeOK
  <2>4. Active'
    BY <1>1, <1>2, <1>3, <1>4, <2>1, <2>2, SameEnv DEF Active, DomainOK
  <2>5. Retained' /\ Listed'
    BY <1>1, <1>2, <1>3, <2>1, <2>2, RetainedKept, ListedKept
  <2>6. Motion' /\ Alone' /\ Entries'
    BY <1>1, <1>2, <1>3, <2>1, <2>2, SameEnv DEF Motion, Alone, Entries
  <2>7. ReleasedClean'
    BY <1>2, <1>3, <2>1, ReleasedKept
  <2>8. TracedOwned'
    BY <1>2, <1>3, <2>1, <2>2, SameEnv DEF TracedOwned, Owned
  <2>. QED BY <2>3, <2>4, <2>5, <2>6, <2>7, <2>8
<1>. QED BY <1>5, <1>6

\* The new image has nothing of the session in it, and nor has the domain.
LEMMA OnExecInv ==
  ASSUME IInv, UNCHANGED env, OnExec PROVE IInv'
<1>. USE DEF IInv
<1>1. act \in Domain /\ act.pid \in Pid /\ act.pid \notin DOMAIN ret /\ DOMAIN ret \subseteq Pid
  BY DEF TypeOK, Domain, Retained
<1>2. /\ call' = "idle" /\ over' = FALSE /\ vchild' = None /\ temp' = None
      /\ UNCHANGED <<root, origin, policy, ret>>
      /\ ks[act.pid] = "run" /\ call \in Motions
  BY DEF OnExec, Return, TemporaryGone, AfterMotion, Waiting
<1>3. /\ act' \in Domain /\ act'.pid = act.pid /\ act'.tab = {} /\ act'.inst = {}
      /\ act'.pend = None /\ act'.st = "Stopped" /\ act'.wp = FALSE /\ act'.exe = "new"
  BY <1>1, FreshDomain DEF OnExec, Fresh, Image
<1>4. \A p \in Pid : p # act.pid => /\ ks'[p] = ks[p] /\ int3'[p] = int3[p]
                                    /\ armed'[p] = armed[p] /\ image'[p] = image[p]
                                    /\ user'[p] = user[p]
  BY DEF OnExec, refresh_image, image_not_refreshed, TypeOK
<1>5. /\ ks'[act.pid] = "stop" /\ int3'[act.pid] = {} /\ ~armed'[act.pid]
      /\ image'[act.pid] = "new"
      /\ "exec_in_motion" \in Faults \/ (elf' = "new" /\ user'[act.pid] = {})
  BY <1>1 DEF OnExec, refresh_image, TypeOK
<1>6. TypeOK'
  <2>1. user' \in [Pid -> SUBSET (Addr \cup {None})]
    BY DEF OnExec, refresh_image, image_not_refreshed, TypeOK
  <2>. QED BY <1>1, <1>2, <1>3, <2>1, SameEnv DEF OnExec, TypeOK, Image
<1>7. Active'
  BY <1>1, <1>3, <1>4, <1>5, SameEnv DEF Active, DomainOK
<1>8. Retained'
  BY <1>1, <1>2, <1>3, <1>4, RetainedKept
<1>9. Listed'
  BY <1>1, <1>2, <1>3, <1>4, <1>5, SameEnv DEF Listed
<1>10. Motion' /\ Alone' /\ Entries'
  BY <1>1, <1>2, <1>3, <1>4, <1>5, SameEnv, SMT DEF Motion, Alone, Entries
<1>11. ReleasedClean'
  BY <1>2, <1>4, <1>5, ReleasedKept
<1>12. TracedOwned'
  BY <1>2, <1>3, <1>4, <1>5, SameEnv DEF TracedOwned, Owned
<1>. QED BY <1>6, <1>7, <1>8, <1>9, <1>10, <1>11, <1>12

\* A new thread: refused with a watchpoint, otherwise the process stops.
LEMMA OnCloneInv ==
  ASSUME IInv, UNCHANGED env, OnClone PROVE IInv'
<1>. USE DEF IInv, cliVars
<1>1. act \in Domain /\ act.pid \in Pid /\ act.pid \notin DOMAIN ret /\ DOMAIN ret \subseteq Pid
  BY DEF TypeOK, Domain, Retained
<1>2. CASE ~act.wp /\ ~WaitsForCurrent
  BY <1>2, StopsSettled DEF OnClone, Waiting
<1>3. CASE act.wp \/ WaitsForCurrent
  <2>1. /\ ks' = [ks EXCEPT ![act.pid] = "stop"] /\ ks[act.pid] = "run" /\ vchild = None
        /\ UNCHANGED <<int3, armed, image, root, origin, policy, ret, cliVars>>
        /\ \/ act' = [act EXCEPT !.st = "Stopped"] /\ Throw
           \/ act' = act /\ UNCHANGED callVars /\ WaitsForCurrent
        /\ call \in Motions /\ temp' = temp
    BY <1>3 DEF OnClone, Waiting, Throw, callVars
  <2>2. /\ act' \in Domain /\ act'.pid = act.pid /\ act'.tab = act.tab /\ act'.inst = act.inst
        /\ act'.pend = act.pend /\ act'.wp = act.wp /\ act'.exe = act.exe
    BY <1>1, <2>1 DEF Domain
  <2>3. \A p \in Pid : ks'[p] = IF p = act.pid THEN "stop" ELSE ks[p]
    BY <2>1 DEF TypeOK
  <2>4. TypeOK'
    BY <2>1, <2>2, SameEnv DEF TypeOK, Throw, callVars
  <2>5. Active'
    <3>1. act.st = "Running" /\ act'.st \in {"Running", "Stopped"}
      <4>1. act.st = "Running"
        BY DEF OnClone, Waiting, Motion
      <4>. QED BY <1>1, <2>1, <4>1 DEF Domain
    <3>. QED BY <1>1, <2>1, <2>2, <2>3, <3>1, SameEnv, SMT DEF Active, DomainOK
  <2>6. Retained' /\ Listed'
    BY <1>1, <2>1, <2>2, <2>3, RetainedKept, ListedKept
  <2>7. Motion'
    BY <1>1, <2>1, <2>2, <2>3, SMT DEF Motion, Throw, AfterMotion, callVars
  <2>8. Alone'
    <3>1. origin = "Attached" => act'.st = "Stopped"
      BY <1>1, <2>1 DEF Alone, WaitsForCurrent, Domain
    <3>. QED BY <1>1, <2>1, <2>2, <2>3, <3>1, SameEnv, SMT DEF Alone
  <2>9. Entries'
    BY <1>1, <2>1, <2>2, <2>3, SameEnv, SMT DEF Entries
  <2>10. ReleasedClean'
    BY <2>1, <2>3, ReleasedKept, SMT
  <2>11. TracedOwned'
    BY <2>1, <2>2, <2>3, SameEnv DEF TracedOwned, Owned
  <2>. QED BY <2>4, <2>5, <2>6, <2>7, <2>8, <2>9, <2>10, <2>11
<1>. QED BY <1>2, <1>3

-----------------------------------------------------------------------------
(* fork and vfork.                                                         *)

\* A child is a process of its own, and its debug registers hold nothing that
\* the parent's domain does not record.
LEMMA NewChild ==
  ASSUME IInv, Waiting, NEW c \in Pid, ks[c] = "none", NEW regs \in {FALSE, armed[act.pid]}
  PROVE  /\ act \in Domain /\ act.pid \in Pid /\ act.pid \notin DOMAIN ret
         /\ c # act.pid /\ c \notin DOMAIN ret /\ DOMAIN ret \subseteq Pid
         /\ ks[act.pid] = "run" /\ act.st = "Running" /\ call \in Motions
         /\ regs \in BOOLEAN /\ (regs => act.wp) /\ act.wp \in BOOLEAN
         /\ int3[act.pid] \subseteq act.inst /\ user[c] = {} /\ int3[c] = {}
         /\ act.exe = image[act.pid]
<1>. USE DEF IInv
<1>1. act \in Domain /\ act.pid \in Pid /\ act.wp \in BOOLEAN /\ DOMAIN ret \subseteq Pid
  BY DEF TypeOK, Domain
<1>2. act.pid \notin DOMAIN ret /\ c # act.pid /\ c \notin DOMAIN ret /\ user[c] = {} /\ int3[c] = {}
  BY SMT DEF Active, Retained, DomainOK, Entries
<1>3. ks[act.pid] = "run" /\ act.st = "Running" /\ call \in Motions
  BY DEF Waiting, Motion
<1>4. regs \in BOOLEAN
  BY <1>1 DEF TypeOK
<1>5. int3[act.pid] \subseteq act.inst /\ act.exe = image[act.pid] /\ (regs => act.wp)
  BY DEF Active, DomainOK
<1>. QED BY <1>1, <1>2, <1>3, <1>4, <1>5

\* Follow the parent: the child is released with its own bytes.
LEMMA OnForkParentInv ==
  ASSUME IInv, UNCHANGED env, NEW c \in Pid, NEW regs \in BOOLEAN, OnForkParent(c, regs)
  PROVE  IInv'
<1>. USE DEF IInv, cliVars
<1>1. Waiting /\ ks[c] = "none" /\ regs \in {FALSE, armed[act.pid]}
      /\ UNCHANGED <<root, origin, policy, cliVars>>
      /\ image' = [image EXCEPT ![c] = image[act.pid]]
  BY DEF OnForkParent, Inherits
<1>2. CASE "kill" \in Faults /\ RejectChild(c) /\ UNCHANGED int3
  BY <1>1, <1>2, Rejected
<1>3. CASE /\ ks' = [ks EXCEPT ![act.pid] = "stop", ![c] = "free"]
           /\ int3' = SettledInt3([int3 EXCEPT ![c] = ReleasedBytes], act)
           /\ armed' = [armed EXCEPT ![c] = IF act.wp THEN FALSE ELSE regs]
           /\ act' = Settled(act) /\ Return /\ UNCHANGED ret
  <2>1. ReleasedBytes = {} /\ (IF act.wp THEN FALSE ELSE regs) = FALSE
    BY <1>1, NewChild DEF ReleasedBytes
  <2>2. /\ act' \in Domain /\ act'.pid = act.pid /\ act'.tab = act.tab /\ act'.inst = act.tab
        /\ act'.pend = None /\ act'.st = "Stopped" /\ act'.wp = act.wp /\ act'.exe = act.exe
    BY <1>1, <1>3, NewChild, SettledFacts DEF Domain
  <2>3. /\ \A p \in Pid : p # act.pid /\ p # c =>
             ks'[p] = ks[p] /\ armed'[p] = armed[p] /\ image'[p] = image[p]
        /\ ks'[act.pid] = "stop" /\ armed'[act.pid] = armed[act.pid]
        /\ image'[act.pid] = image[act.pid]
        /\ ks'[c] = "free" /\ ~armed'[c]
    BY <1>1, <1>3, <2>1, NewChild DEF TypeOK
  <2>4. /\ int3' \in [Pid -> SUBSET Addr]
        /\ \A p \in Pid : p # act.pid /\ p # c => int3'[p] = int3[p]
        /\ int3'[c] = {}
        /\ int3'[act.pid] = int3[act.pid] \cup (act.tab \ act.inst)
    <3>. DEFINE born == [int3 EXCEPT ![c] = {}]
    <3>1. /\ born \in [Pid -> SUBSET Addr] /\ born[c] = {} /\ born[act.pid] = int3[act.pid]
          /\ \A p \in Pid : p # c => born[p] = int3[p]
      BY <1>1, NewChild DEF TypeOK
    <3>2. int3' = SettledInt3(born, act)
      BY <1>3, <2>1
    <3>3. act.tab \subseteq Addr /\ act.pid \in Pid
      BY <1>1, NewChild DEF Domain
    <3>. HIDE DEF born
    <3>4. CASE over
      <4>1. {act.pend} \cap (act.tab \ act.inst) = act.tab \ act.inst
        BY <1>1, <3>4, NewChild DEF Motion, Active
      <4>2. int3' = [born EXCEPT ![act.pid] = @ \cup (act.tab \ act.inst)]
        BY <3>2, <3>4, <4>1 DEF SettledInt3
      <4>. QED BY <1>1, <3>1, <3>3, <4>2, NewChild
    <3>5. CASE ~over
      <4>1. act.tab \ act.inst = {} /\ int3' = born
        BY <1>1, <3>2, <3>5, NewChild DEF Motion, Active, SettledInt3
      <4>. QED BY <3>1, <4>1
    <3>. QED BY <3>4, <3>5
  <2>5. TypeOK'
    <3>1. ks' \in [Pid -> {"none", "run", "stop", "free", "zombie", "dead"}]
          /\ armed' \in [Pid -> BOOLEAN] /\ image' \in [Pid -> Image]
      BY <1>1, <1>3, <2>1, NewChild DEF TypeOK
    <3>. QED BY <1>1, <1>3, <2>2, <2>4, <3>1, SameEnv DEF TypeOK, Return
  <2>6. Active'
    <3>1. DomainOK(act)
      BY DEF Active
    <3>2. int3'[act.pid] \subseteq act.tab
          /\ (act.inst \subseteq int3[act.pid] => act.tab \subseteq int3'[act.pid])
      BY <2>4, <3>1 DEF DomainOK
    <3>. QED BY <1>1, <2>2, <2>3, <3>1, <3>2, NewChild, SameEnv, SMT DEF Active, DomainOK
  <2>7. Retained'
    <3>1. \A p \in DOMAIN ret : p \in Pid /\ p # act.pid /\ p # c
      BY <1>1, NewChild
    <3>2. \A p \in DOMAIN ret :
            /\ int3'[p] = int3[p] /\ armed'[p] = armed[p] /\ image'[p] = image[p]
            /\ user'[p] = user[p] /\ ks'[p] = ks[p]
      BY <1>1, <1>3, <2>3, <2>4, <3>1
    <3>. QED BY <1>1, <1>3, <2>2, <3>1, <3>2, RetainedKept
  <2>12. Listed'
    <3>1. call \in Motions /\ UNCHANGED <<env, ret, user, temp>> /\ ks[act.pid] = "run"
      BY <1>1, <1>3, NewChild DEF Return
    <3>2. \A p \in DOMAIN ret : p \in Pid /\ p # act.pid /\ p # c
      BY <1>1, NewChild
    <3>. QED BY <2>2, <2>3, <3>1, <3>2, ListedKept
  <2>8. Motion'
    BY <1>1, <1>3, <2>2, NewChild DEF Motion, Return, AfterMotion
  <2>9. Alone' /\ Entries'
    <3>1. UNCHANGED <<ret, origin, policy, elf, user>> /\ act.pid \in Pid /\ c # act.pid
      BY <1>1, <1>3, NewChild
    <3>2. Alone'
      BY <2>2, <2>3, <3>1, SameEnv, SMT DEF Alone
    <3>. QED BY <2>2, <2>3, <2>4, <3>1, <3>2, SameEnv, SMT DEF Entries
  <2>10. ReleasedClean'
    BY <1>1, <2>3, <2>4, ReleasedKept DEF Waiting
  <2>11. TracedOwned'
    BY <1>1, <1>3, <2>2, <2>3, SameEnv DEF TracedOwned, Owned
  <2>. QED BY <2>5, <2>6, <2>7, <2>8, <2>9, <2>10, <2>11, <2>12
<1>. QED BY <1>2, <1>3 DEF OnForkParent

\* Follow both: the child's memory is a copy of a memory without INT3s.
LEMMA OnForkBothInv ==
  ASSUME IInv, UNCHANGED env, NEW c \in Pid, NEW regs \in BOOLEAN, OnForkBoth(c, regs)
  PROVE  IInv'
<1>. USE DEF IInv, cliVars
<1>1. Waiting /\ ks[c] = "none" /\ regs \in {FALSE, armed[act.pid]} /\ policy = "Both"
      /\ UNCHANGED <<root, origin, policy, cliVars>>
      /\ image' = [image EXCEPT ![c] = image[act.pid]]
  BY DEF OnForkBoth, Inherits
<1>2. CASE RejectChild(c) /\ UNCHANGED int3
  BY <1>1, <1>2, Rejected
<1>3. CASE /\ CanRetain
           /\ ks' = [ks EXCEPT ![act.pid] = "stop", ![c] = "stop"]
           /\ int3' = [int3 EXCEPT ![c] = int3[act.pid]]
           /\ armed' = [armed EXCEPT ![c] = TransferredRegs(regs)]
           /\ ret' = [q \in DOMAIN ret \cup {c} |->
                        IF q = c THEN Fresh(c, act.exe, act.wp) ELSE ret[q]]
           /\ act' = [act EXCEPT !.st = "Stopped"] /\ Return
  <2>1. act.inst = {} /\ int3[act.pid] = {} /\ TransferredRegs(regs) = act.wp
    BY <1>1, <1>3, NewChild DEF CanRetain, Active, DomainOK, TransferredRegs
  <2>2. /\ act' \in Domain /\ act'.pid = act.pid /\ act'.tab = act.tab /\ act'.inst = act.inst
        /\ act'.pend = act.pend /\ act'.st = "Stopped" /\ act'.wp = act.wp /\ act'.exe = act.exe
    BY <1>1, <1>3, NewChild DEF Domain
  <2>3. /\ \A p \in Pid : p # c => /\ int3'[p] = int3[p] /\ armed'[p] = armed[p]
                                   /\ image'[p] = image[p]
        /\ \A p \in Pid : p # act.pid /\ p # c => ks'[p] = ks[p]
        /\ ks'[act.pid] = "stop" /\ ks'[c] = "stop"
        /\ int3'[c] = {} /\ armed'[c] = act.wp /\ image'[c] = act.exe
    BY <1>1, <1>3, <2>1, NewChild DEF TypeOK
  <2>4. Fresh(c, act.exe, act.wp) \in Domain
    BY <1>1, NewChild, FreshDomain DEF Domain
  <2>5. /\ DOMAIN ret' = DOMAIN ret \cup {c} /\ ret'[c] = Fresh(c, act.exe, act.wp)
        /\ \A q \in DOMAIN ret : ret'[q] = ret[q]
    BY <1>1, <1>3, NewChild
  <2>6. TypeOK'
    <3>1. ks' \in [Pid -> {"none", "run", "stop", "free", "zombie", "dead"}]
          /\ armed' \in [Pid -> BOOLEAN] /\ image' \in [Pid -> Image]
          /\ int3' \in [Pid -> SUBSET Addr]
      BY <1>1, <1>3, <2>1, NewChild DEF TypeOK
    <3>2. DOMAIN ret' \subseteq Pid /\ \A q \in DOMAIN ret' : ret'[q] \in Domain
      BY <1>1, <2>4, <2>5, NewChild, SMT DEF TypeOK
    <3>. QED BY <1>1, <1>3, <2>2, <3>1, <3>2, SameEnv DEF TypeOK, Return
  <2>7. Active'
    BY <1>1, <2>2, <2>3, NewChild, SameEnv, SMT DEF Active, DomainOK
  <2>8. Retained'
    <3>1. /\ DomainOK(ret[c])' /\ ret'[c].pid = c /\ c # act'.pid
          /\ ret'[c].st = "Stopped" /\ ret'[c].pend = None /\ ret'[c].inst = ret'[c].tab
      BY <1>1, <2>2, <2>3, <2>5, NewChild, SameEnv, SMT DEF Fresh, DomainOK
    <3>2. ASSUME NEW q \in DOMAIN ret
          PROVE  /\ DomainOK(ret[q])' /\ ret'[q].pid = q /\ q # act'.pid
                 /\ ret'[q].st = "Stopped" /\ ret'[q].pend = None /\ ret'[q].inst = ret'[q].tab
      <4>1. q # c /\ q # act.pid /\ q \in Pid /\ ret'[q] = ret[q]
        BY <1>1, <2>5, NewChild
      <4>2. ret[q].pid = q
        BY DEF Retained
      <4>. QED BY <1>1, <2>2, <2>3, <4>1, <4>2, SameEnv, SMT DEF Retained, DomainOK
    <3>. QED BY <2>5, <3>1, <3>2 DEF Retained
  <2>9. Motion'
    BY <1>1, <1>3, <2>2, NewChild DEF Motion, Return, AfterMotion
  <2>14. Listed'
    <3>1. call \in Motions /\ UNCHANGED <<user, temp>> /\ ks[act.pid] = "run" /\ act.tab = {}
          /\ user[c] = {} /\ ret'[c].tab = {}
      BY <1>1, <1>3, <2>5, NewChild DEF Return, CanRetain, Fresh
    <3>2. \A q \in DOMAIN ret : q \in Pid /\ q # act.pid /\ q # c
      BY <1>1, NewChild
    <3>. QED BY <2>2, <2>3, <2>5, <3>1, <3>2, SameEnv DEF Listed
  <2>10. origin # "Attached"
    BY <1>1 DEF Alone
  <2>11. Alone' /\ Entries'
    BY <1>1, <2>2, <2>3, <2>10, NewChild, SameEnv, SMT DEF Alone, Entries
  <2>12. ReleasedClean'
    BY <1>1, <2>3, NewChild, ReleasedKept
  <2>13. TracedOwned'
    BY <2>2, <2>3, <2>5, SameEnv DEF TracedOwned, Owned
  <2>. QED BY <2>6, <2>7, <2>8, <2>9, <2>11, <2>12, <2>13, <2>14
<1>. QED BY <1>2, <1>3 DEF OnForkBoth

\* Follow the child: the table, the pending breakpoint and the watchpoint now
\* describe the child, and the parent is released with its own bytes.
LEMMA OnForkChildInv ==
  ASSUME IInv, UNCHANGED env, NEW c \in Pid, NEW regs \in BOOLEAN, OnForkChild(c, regs)
  PROVE  IInv'
<1>. USE DEF IInv, cliVars
<1>. DEFINE d == [act EXCEPT !.pid = c]
            restored == [int3 EXCEPT ![act.pid] = ReleasedBytes]
<1>1. Waiting /\ ks[c] = "none" /\ regs \in {FALSE, armed[act.pid]} /\ policy = "Child"
      /\ UNCHANGED <<root, origin, policy, cliVars>>
      /\ image' = [image EXCEPT ![c] = image[act.pid]]
  BY DEF OnForkChild, Inherits
<1>2. CASE RejectChild(c) /\ int3' = int3
  BY <1>1, <1>2, Rejected
<1>3. CASE RejectChild(c) /\ int3' = restored /\ "kill" \in Faults
  BY <1>1, <1>3, Rejected
<1>4. CASE /\ origin = "Launched"
           /\ ks' = [ks EXCEPT ![act.pid] = "free", ![c] = "stop"]
           /\ int3' = SettledInt3([restored EXCEPT ![c] = int3[act.pid]], d)
           /\ armed' = [armed EXCEPT ![act.pid] = FALSE, ![c] = TransferredRegs(regs)]
           /\ act' = Settled(d) /\ Return /\ UNCHANGED ret
  <2>1. /\ ReleasedBytes = {} /\ TransferredRegs(regs) = act.wp
        /\ DOMAIN ret = {} /\ "Child" \in env.policies
    BY <1>1, NewChild DEF ReleasedBytes, TransferredRegs, Entries, TypeOK
  <2>2. d \in Domain /\ d.pid = c /\ d.tab = act.tab /\ d.inst = act.inst /\ d.pend = act.pend
        /\ d.wp = act.wp /\ d.exe = act.exe
    BY <1>1, NewChild DEF Domain
  <2>3. /\ act' \in Domain /\ act'.pid = c /\ act'.tab = act.tab /\ act'.inst = act.tab
        /\ act'.pend = None /\ act'.st = "Stopped" /\ act'.wp = act.wp /\ act'.exe = act.exe
    <3>. HIDE DEF d
    <3>1. act.inst \subseteq act.tab /\ act.tab \ act.inst = {act.pend} \ {None}
      BY <1>1, NewChild DEF Active, DomainOK
    <3>2. CASE over
      <4>1. act.inst \cup ({act.pend} \cap act.tab) = act.tab
        BY <1>1, <3>1, <3>2, NewChild DEF Motion
      <4>. QED BY <1>4, <2>2, <3>2, <4>1 DEF Settled, Domain
    <3>3. CASE ~over
      <4>1. act.inst = act.tab /\ act.pend = None
        BY <1>1, <3>1, <3>3, NewChild DEF Motion
      <4>. QED BY <1>4, <2>2, <3>3, <4>1 DEF Settled, Domain
    <3>. QED BY <3>2, <3>3
  <2>4. /\ int3' \in [Pid -> SUBSET Addr]
        /\ \A p \in Pid : p # act.pid /\ p # c => int3'[p] = int3[p]
        /\ int3'[act.pid] = {}
        /\ int3'[c] = int3[act.pid] \cup (act.tab \ act.inst)
    <3>. DEFINE born == [restored EXCEPT ![c] = int3[act.pid]]
    <3>1. /\ born \in [Pid -> SUBSET Addr] /\ born[act.pid] = {} /\ born[c] = int3[act.pid]
          /\ \A p \in Pid : p # act.pid /\ p # c => born[p] = int3[p]
      BY <1>1, <2>1, NewChild DEF TypeOK
    <3>2. int3' = SettledInt3(born, d)
      BY <1>4
    <3>3. act.tab \subseteq Addr
      BY <1>1, NewChild DEF Domain
    <3>. HIDE DEF born, d
    <3>4. CASE over
      <4>1. {act.pend} \cap (act.tab \ act.inst) = act.tab \ act.inst
        BY <1>1, <3>4, NewChild DEF Motion, Active
      <4>2. int3' = [born EXCEPT ![c] = @ \cup (act.tab \ act.inst)]
        BY <2>2, <3>2, <3>4, <4>1 DEF SettledInt3
      <4>. QED BY <1>1, <3>1, <3>3, <4>2, NewChild
    <3>5. CASE ~over
      <4>1. act.tab \ act.inst = {} /\ int3' = born
        BY <1>1, <3>2, <3>5, NewChild DEF Motion, Active, SettledInt3
      <4>. QED BY <3>1, <4>1
    <3>. QED BY <3>4, <3>5
  <2>5. /\ \A p \in Pid : p # act.pid /\ p # c =>
             ks'[p] = ks[p] /\ armed'[p] = armed[p] /\ image'[p] = image[p]
        /\ ks'[act.pid] = "free" /\ ~armed'[act.pid] /\ image'[act.pid] = image[act.pid]
        /\ ks'[c] = "stop" /\ armed'[c] = act.wp /\ image'[c] = image[act.pid]
    BY <1>1, <1>4, <2>1, NewChild, SMT DEF TypeOK
  <2>6. UNCHANGED <<ret, origin, policy, elf, user, root>> /\ act.pid \in Pid /\ c # act.pid
        /\ origin = "Launched"
    BY <1>1, <1>4, NewChild
  <2>7. TypeOK'
    <3>1. ks' \in [Pid -> {"none", "run", "stop", "free", "zombie", "dead"}]
          /\ armed' \in [Pid -> BOOLEAN] /\ image' \in [Pid -> Image]
      BY <1>1, <1>4, <2>1, NewChild DEF TypeOK
    <3>. QED BY <1>4, <2>3, <2>4, <2>6, <3>1, SameEnv DEF TypeOK, Return
  <2>8. Active'
    <3>1. DomainOK(act)
      BY DEF Active
    <3>2. int3'[c] \subseteq act.tab
          /\ (act.inst \subseteq int3[act.pid] => act.tab \subseteq int3'[c])
      BY <2>4, <3>1 DEF DomainOK
    <3>3. ks[act.pid] = "run" /\ act.wp \in BOOLEAN
      BY <1>1, NewChild
    <3>. QED BY <2>1, <2>3, <2>5, <3>1, <3>2, <3>3, SameEnv DEF Active, DomainOK
  <2>9. Retained' /\ Motion' /\ Listed'
    <3>1. temp # None => call = "run"
      BY <1>1, NewChild DEF Motion
    <3>. QED BY <1>4, <2>1, <2>3, <3>1, SameEnv DEF Retained, Motion, Return, AfterMotion, Listed
  <2>10. Alone' /\ Entries'
    BY <2>1, <2>3, <2>4, <2>5, <2>6, SameEnv, SMT DEF Alone, Entries
  <2>11. ReleasedClean'
    BY <1>1, <2>4, <2>5, <2>6, ReleasedKept DEF Waiting
  <2>12. TracedOwned'
    BY <2>1, <2>3, <2>5, <2>6, SameEnv DEF TracedOwned, Owned
  <2>. QED BY <2>7, <2>8, <2>9, <2>10, <2>11, <2>12
<1>. QED BY <1>2, <1>3, <1>4 DEF OnForkChild

\* The child's stop came first: the call throws, and the child is in no domain.
LEMMA OnForkChildFirstInv ==
  ASSUME IInv, UNCHANGED env, NEW c \in Pid, NEW regs \in BOOLEAN, OnForkChildFirst(c, regs)
  PROVE  IInv'
<1>. USE DEF IInv, cliVars
<1>1. Waiting /\ ks[c] = "none" /\ regs \in {FALSE, armed[act.pid]}
      /\ "child_first" \in Faults /\ UNCHANGED <<act, ret, root, origin, policy, elf, user>>
      /\ call' \in {"idle", "undo", "threw"} /\ over' = FALSE /\ vchild' = None
      /\ temp' = temp /\ (temp # None => call' = "undo")
  BY DEF OnForkChildFirst, Inherits, debugVars, Throw, AfterMotion, Waiting, Motion
<1>2. /\ \A p \in Pid : p # c => /\ int3'[p] = int3[p] /\ armed'[p] = armed[p]
                                 /\ image'[p] = image[p]
      /\ \A p \in Pid : p # act.pid /\ p # c => ks'[p] = ks[p]
      /\ ks'[act.pid] = "stop" /\ ks'[c] = "stop"
  BY <1>1, NewChild, SMT DEF OnForkChildFirst, Inherits, TypeOK
<1>3. TypeOK'
  <2>1. ks' \in [Pid -> {"none", "run", "stop", "free", "zombie", "dead"}]
        /\ armed' \in [Pid -> BOOLEAN] /\ image' \in [Pid -> Image]
        /\ int3' \in [Pid -> SUBSET Addr]
    BY <1>1, NewChild DEF OnForkChildFirst, Inherits, TypeOK
  <2>. QED BY <1>1, <2>1, SameEnv DEF TypeOK
<1>4. Active'
  BY <1>1, <1>2, NewChild, SameEnv DEF Active, DomainOK
<1>5. Retained'
  <2>1. \A p \in DOMAIN ret : p # act.pid /\ p # c /\ p \in Pid
    BY <1>1, NewChild
  <2>. QED BY <1>1, <1>2, <2>1, RetainedKept
<1>9. Listed'
  <2>1. \A p \in DOMAIN ret : p # act.pid /\ p # c /\ p \in Pid
    BY <1>1, NewChild
  <2>. QED BY <1>1, <1>2, <2>1, NewChild, ListedKept
<1>6. Motion' /\ Alone' /\ Entries'
  BY <1>1, <1>2, NewChild, SameEnv, SMT DEF Motion, Alone, Entries
<1>7. ReleasedClean'
  BY <1>1, <1>2, NewChild, ReleasedKept
<1>8. TracedOwned'
  BY <1>1, SameEnv DEF TracedOwned
<1>. QED BY <1>3, <1>4, <1>5, <1>6, <1>7, <1>8, <1>9

\* vfork: the child ends or execs while the parent is held, or is rejected.
LEMMA OnVforkInv ==
  ASSUME IInv, UNCHANGED env, NEW c \in Pid, NEW regs \in BOOLEAN, OnVfork(c, regs)
  PROVE  IInv'
<1>. USE DEF IInv, cliVars
<1>1. Waiting /\ ks[c] = "none" /\ regs \in {FALSE, armed[act.pid]}
      /\ UNCHANGED <<int3, root, origin, policy, ret, elf, user>>
  BY DEF OnVfork
<1>2. CASE RejectChild(c) /\ UNCHANGED image
  BY <1>1, <1>2, Rejected
<1>3. CASE /\ vchild' = c /\ UNCHANGED <<act, call, temp, over>>
           /\ \/ ks' = [ks EXCEPT ![c] = "dead"] /\ UNCHANGED <<armed, image>>
              \/ /\ ks' = [ks EXCEPT ![c] = "free"]
                 /\ armed' = [armed EXCEPT ![c] = IF act.wp THEN FALSE ELSE regs]
                 /\ image' = [image EXCEPT ![c] = "new"]
  <2>1. /\ \A p \in Pid : p # c => ks'[p] = ks[p] /\ armed'[p] = armed[p] /\ image'[p] = image[p]
        /\ ks'[c] \in {"dead", "free"} /\ (ks'[c] = "free" => ~armed'[c])
    <3>1. /\ \A p \in Pid : p # c => ks'[p] = ks[p] /\ image'[p] = image[p]
          /\ ks'[c] \in {"dead", "free"}
      BY <1>1, <1>3 DEF TypeOK
    <3>2. /\ \A p \in Pid : p # c => armed'[p] = armed[p]
          /\ ks'[c] = "free" => armed'[c] = IF act.wp THEN FALSE ELSE regs
      BY <1>1, <1>3 DEF TypeOK
    <3>. QED BY <1>1, <3>1, <3>2, NewChild
  <2>2. TypeOK'
    <3>1. ks' \in [Pid -> {"none", "run", "stop", "free", "zombie", "dead"}]
      BY <1>3 DEF TypeOK
    <3>2. armed' \in [Pid -> BOOLEAN]
      <4>1. (IF act.wp THEN FALSE ELSE regs) \in BOOLEAN
        BY <1>1, NewChild
      <4>. QED BY <1>3, <4>1 DEF TypeOK
    <3>3. image' \in [Pid -> Image]
      BY <1>3 DEF TypeOK, Image
    <3>. QED BY <1>1, <1>3, <3>1, <3>2, <3>3, SameEnv DEF TypeOK
  <2>3. Active'
    BY <1>1, <1>3, <2>1, NewChild, SameEnv DEF Active, DomainOK
  <2>4. Retained'
    <3>1. \A p \in DOMAIN ret : p # c /\ p \in Pid
      BY <1>1, NewChild
    <3>2. act'.pid \notin DOMAIN ret
      BY <1>1, <1>3, NewChild
    <3>. QED BY <1>1, <2>1, <3>1, <3>2, RetainedKept
  <2>8. Listed'
    <3>1. \A p \in DOMAIN ret : p # c /\ p \in Pid
      BY <1>1, NewChild
    <3>. QED BY <1>1, <1>3, <2>1, <3>1, NewChild, ListedKept
  <2>5. Motion' /\ Alone' /\ Entries'
    BY <1>1, <1>3, <2>1, NewChild, SameEnv, SMT DEF Motion, Alone, Entries
  <2>6. ReleasedClean'
    BY <1>1, <2>1, NewChild, ReleasedKept
  <2>7. TracedOwned'
    BY <1>1, <1>3, <2>1, SameEnv DEF TracedOwned, Owned
  <2>. QED BY <2>2, <2>3, <2>4, <2>5, <2>6, <2>7, <2>8
<1>. QED BY <1>2, <1>3 DEF OnVfork

-----------------------------------------------------------------------------
(* Deaths, and the end of the session.                                     *)

\* A process dies, is killed or is reaped, and nothing else happens to it.  A
\* death that is not awaited makes wait_for throw.
LEMMA DiesInv ==
  ASSUME IInv, UNCHANGED env, NEW z \in Pid, ks[z] \in {"stop", "free", "zombie"},
         NEW e \in {"zombie", "dead"}, ks' = [ks EXCEPT ![z] = e],
         UNCHANGED <<int3, armed, image, root, debugVars, cliVars>>,
         UNCHANGED callVars \/ (Throw /\ call \in Motions /\ z # act.pid /\ ks[z] = "zombie"),
         origin = "Attached" /\ e = "zombie" => "kill" \in Faults
  PROVE  IInv'
<1>. USE DEF IInv
<1>1. /\ ks'[z] = e /\ \A p \in Pid : p # z => ks'[p] = ks[p]
      /\ ks' \in [Pid -> {"none", "run", "stop", "free", "zombie", "dead"}]
  BY DEF TypeOK
<1>2. /\ UNCHANGED <<int3, armed, image, root, origin, policy, act, ret, elf, user>>
      /\ act \in Domain /\ act.pid \in Pid /\ act.pid \notin DOMAIN ret /\ DOMAIN ret \subseteq Pid
  BY DEF debugVars, cliVars, TypeOK, Domain, Retained
<1>3. /\ \/ UNCHANGED <<call, over, vchild>>
         \/ /\ call' \in {"idle", "undo", "threw"} /\ over' = FALSE /\ vchild' = None
            /\ (temp # None => call' = "undo") /\ call \in Motions /\ act.st = "Running"
            /\ z # act.pid /\ ks[z] = "zombie"
      /\ temp' = temp
  BY DEF callVars, Throw, AfterMotion, Motion
<1>4. TypeOK'
  BY <1>1, <1>2, <1>3, SameEnv DEF TypeOK
<1>5. Active'
  BY <1>1, <1>2, SameEnv DEF Active, DomainOK
<1>6. Retained' /\ Listed'
  <2>1. Retained'
    BY <1>1, <1>2, RetainedKept
  <2>2. (call \in Motions \cup {"undo"} \/ Idle)' => call \in Motions \cup {"undo"} \/ Idle
    BY <1>2, <1>3 DEF Idle
  <2>3. \A p \in DOMAIN ret \cup {act.pid} : ks'[p] \in {"stop", "run"} => ks'[p] = ks[p]
    BY <1>1, <1>2
  <2>. QED BY <1>2, <1>3, <2>1, <2>2, <2>3, ListedKept
<1>7. Motion'
  BY <1>1, <1>2, <1>3, SMT DEF Motion
<1>8. Alone'
  BY <1>1, <1>2, <1>3, SameEnv DEF Alone
<1>9. Entries'
  BY <1>1, <1>2, SameEnv DEF Entries
<1>10. ReleasedClean'
  BY <1>1, <1>2, <1>3, ReleasedKept
<1>11. TracedOwned'
  BY <1>1, <1>2, SameEnv DEF TracedOwned, Owned
<1>. QED BY <1>4, <1>5, <1>6, <1>7, <1>8, <1>9, <1>10, <1>11

\* A process exits, is killed or is reaped, selected or not.
LEMMA DeathInv ==
  ASSUME IInv, UNCHANGED env, NEW p \in Pid, OnStray(p) \/ Ends(p) \/ Kill(p) \/ Reap(p)
  PROVE  IInv'
<1>1. CASE OnStray(p)
  BY <1>1, DiesInv DEF OnStray
<1>2. CASE Ends(p)
  BY <1>2, DiesInv DEF Ends, Reaped
<1>3. CASE Kill(p)
  BY <1>3, DiesInv DEF Kill
<1>4. CASE Reap(p)
  BY <1>4, DiesInv DEF Reap
<1>. QED BY <1>1, <1>2, <1>3, <1>4

\* Every owned process is killed at the end of a launched session.
LEMMA DestroyLaunchedInv ==
  ASSUME IInv, UNCHANGED env, destroy_launched PROVE IInv'
<1>. USE DEF IInv
<1>1. \A p \in Pid : ks'[p] = ks[p] \/ (ks[p] # "none" /\ ks'[p] = "zombie")
  BY DEF destroy_launched
<1>2. /\ UNCHANGED <<int3, armed, image, root, origin, policy, act, ret, elf, user, over, vchild>>
      /\ act \in Domain /\ act.pid \in Pid /\ act.pid \notin DOMAIN ret /\ DOMAIN ret \subseteq Pid
      /\ origin = "Launched" /\ call \in {"idle", "threw"} /\ call' \in {"gone", "cleanup"}
      /\ temp' = temp
  BY DEF destroy_launched, Ending, debugVars, cliVars, TypeOK, Domain, Retained
<1>3. TypeOK'
  <2>1. ks' \in [Pid -> {"none", "run", "stop", "free", "zombie", "dead"}]
    BY DEF destroy_launched, TypeOK
  <2>. QED BY <1>2, <2>1, SameEnv DEF TypeOK
<1>4. Active'
  BY <1>1, <1>2, SameEnv DEF Active, DomainOK
<1>5. Retained' /\ Listed'
  <2>1. Retained'
    BY <1>1, <1>2, RetainedKept
  <2>2. \A p \in DOMAIN ret \cup {act.pid} : ks'[p] \in {"stop", "run"} => ks'[p] = ks[p]
    BY <1>1, <1>2
  <2>. QED BY <1>2, <2>1, <2>2, ListedKept DEF Idle
<1>6. Motion' /\ Alone' /\ Entries'
  BY <1>1, <1>2, SameEnv DEF Motion, Alone, Entries
<1>7. ReleasedClean'
  BY <1>1, <1>2, ReleasedKept
<1>8. TracedOwned'
  BY <1>1, <1>2, SameEnv DEF TracedOwned, Owned
<1>. QED BY <1>3, <1>4, <1>5, <1>6, <1>7, <1>8

\* An attached session lets its only process go, with its own bytes unless it
\* has lost track of a fork child.
LEMMA DestroyAttachedInv ==
  ASSUME IInv, UNCHANGED env, destroy_attached PROVE IInv'
<1>. USE DEF IInv
<1>1. /\ \A p \in Pid : ks'[p] = IF ks[p] \in {"stop", "run"} THEN "free" ELSE ks[p]
      /\ ks' \in [Pid -> {"none", "run", "stop", "free", "zombie", "dead"}]
  BY DEF destroy_attached, TypeOK
<1>2. /\ UNCHANGED <<image, root, origin, policy, act, ret, elf, user, over, vchild>>
      /\ act \in Domain /\ act.pid \in Pid /\ act.wp \in BOOLEAN
      /\ origin = "Attached" /\ call \in {"idle", "threw"} /\ call' = "gone"
      /\ DOMAIN ret = {} /\ temp' = temp
  BY DEF destroy_attached, Ending, debugVars, cliVars, TypeOK, Domain, Alone
<1>3. /\ int3' \in [Pid -> SUBSET Addr] /\ armed' \in [Pid -> BOOLEAN]
      /\ \A p \in Pid : p # act.pid => int3'[p] = int3[p] /\ armed'[p] = armed[p]
      /\ int3'[act.pid] \subseteq int3[act.pid] /\ (armed'[act.pid] => armed[act.pid])
      /\ act.st = "Stopped" /\ ks[act.pid] = "stop" => int3'[act.pid] = {} /\ ~armed'[act.pid]
  <2>1. int3[act.pid] \ act.inst = {} /\ (armed[act.pid] => act.wp)
    BY DEF Active, DomainOK
  <2>2. CASE act.st = "Stopped" /\ ks[act.pid] = "stop"
    <3>1. /\ int3' = [int3 EXCEPT ![act.pid] = {}]
          /\ armed' = [armed EXCEPT ![act.pid] = FALSE]
      BY <1>2, <2>1, <2>2 DEF destroy_attached, Reachable, TypeOK
    <3>. QED BY <1>2, <3>1 DEF TypeOK
  <2>3. CASE ~(act.st = "Stopped" /\ ks[act.pid] = "stop")
    BY <2>3 DEF destroy_attached, Reachable, TypeOK
  <2>. QED BY <2>2, <2>3
<1>4. TypeOK'
  BY <1>1, <1>2, <1>3, SameEnv DEF TypeOK
<1>5. Active'
  BY <1>1, <1>2, <1>3, SameEnv DEF Active, DomainOK
<1>6. Retained' /\ Motion' /\ Listed'
  BY <1>2 DEF Retained, Motion, Listed, Idle
<1>7. Alone' /\ Entries'
  BY <1>1, <1>2, <1>3, SameEnv, SMT DEF Alone, Entries, Active, DomainOK
<1>8. ReleasedClean'
  <2>. SUFFICES ASSUME "child_first" \notin Faults, NEW p \in Pid, ks'[p] = "free"
                PROVE  \/ int3'[p] = {} /\ ~armed'[p]
                       \/ "kill" \in Faults /\ p = act.pid /\ Abandoned'
    BY <1>2, SameEnv DEF ReleasedClean
  <2>1. CASE ks[p] = "free"
    BY <1>2, <1>3, <2>1 DEF ReleasedClean, Abandoned
  <2>2. CASE ks[p] # "free"
    <3>1. p = act.pid
      BY <1>1, <1>2, <2>2 DEF TracedOwned, Owned
    <3>. QED BY <1>1, <1>2, <1>3, <2>2, <3>1 DEF Alone, Abandoned
  <2>. QED BY <2>1, <2>2
<1>9. TracedOwned'
  BY <1>1, SameEnv DEF TracedOwned
<1>. QED BY <1>4, <1>5, <1>6, <1>7, <1>8, <1>9

\* ~Process has let every process of the session go.
LEMMA CleanupEndsInv ==
  ASSUME IInv, UNCHANGED env, cleanup_ends PROVE IInv'
<1>. USE DEF IInv
<1>1. /\ UNCHANGED <<ks, int3, armed, image, root, origin, policy, act, ret, elf, user, temp, over, vchild>>
      /\ call = "cleanup" /\ call' = "gone"
  BY DEF cleanup_ends, kernelVars, debugVars, cliVars
<1>2. TypeOK' /\ Active' /\ Motion' /\ Alone'
  BY <1>1, SameEnv DEF TypeOK, Active, DomainOK, Motion, Alone
<1>3. Retained' /\ Listed'
  BY <1>1, RetainedKept, ListedKept DEF Retained, Idle
<1>4. Entries' /\ ReleasedClean' /\ TracedOwned'
  BY <1>1, SameEnv DEF Entries, ReleasedClean, Abandoned, TracedOwned, Owned
<1>. QED BY <1>2, <1>3, <1>4

-----------------------------------------------------------------------------
(* Commands.                                                               *)

\* What is the same at every prompt.
LEMMA Prompt ==
  ASSUME IInv, Idle
  PROVE  /\ act \in Domain /\ act.pid \in Pid /\ act.pid \notin DOMAIN ret
         /\ DOMAIN ret \subseteq Pid /\ act.st = "Stopped"
         /\ ~over /\ vchild = None /\ call = "idle" /\ temp = None
         /\ act.inst \subseteq act.tab /\ act.tab \ act.inst = {act.pend} \ {None}
         /\ None \notin Addr
BY EnvFacts, SMT DEF IInv, TypeOK, Domain, Active, Retained, DomainOK, Idle, Motion

\* `set follow-fork-mode' changes what the next fork does.
LEMMA PolicyInv ==
  ASSUME IInv, UNCHANGED env, NEW new \in env.policies, set_fork_follow_policy(new)
  PROVE  IInv'
<1>. USE DEF IInv
<1>1. /\ UNCHANGED <<ks, int3, armed, image, root, origin, act, ret, elf, user, call, temp, over, vchild>>
      /\ policy' = new /\ (new = "Both" => DOMAIN ret # {} \/ origin = "Launched")
      /\ (new # "Both" => DOMAIN ret = {})
  BY DEF set_fork_follow_policy, kernelVars, cliVars, callVars
<1>2. TypeOK' /\ Active' /\ Motion'
  <2>1. TypeOK'
    BY <1>1, SameEnv DEF TypeOK
  <2>2. Active'
    BY <1>1, SameEnv DEF Active, DomainOK
  <2>3. Motion'
    BY <1>1 DEF Motion
  <2>. QED BY <2>1, <2>2, <2>3
<1>3. Retained' /\ Listed'
  BY <1>1, RetainedKept, ListedKept DEF Retained, Idle
<1>4. Alone' /\ Entries'
  BY <1>1, SameEnv DEF Alone, Entries
<1>5. ReleasedClean' /\ TracedOwned'
  BY <1>1, SameEnv DEF ReleasedClean, Abandoned, TracedOwned, Owned
<1>. QED BY <1>2, <1>3, <1>4, <1>5

\* The user's entries of the retained processes, when they are left alone.
LEMMA ListedRetained ==
  ASSUME Listed, \A p \in DOMAIN ret : user'[p] = user[p]
  PROVE  "Child" \notin env.policies /\ "exec_in_motion" \notin Faults =>
           \A p \in DOMAIN ret : ks[p] \in {"stop", "run"} => user'[p] = ret[p].tab
BY DEF Listed

\* A command, or the end of a source motion, edits the selected domain and its
\* process, and nothing else.
LEMMA EditInv ==
  ASSUME IInv, UNCHANGED env, Idle \/ call = "undo",
         UNCHANGED <<ks, image, root, origin, policy, ret, elf, over, vchild>>,
         call' \in {"idle", "threw"}, temp' = None,
         act' \in Domain, act'.pid = act.pid, act'.st = act.st, act'.exe = act.exe,
         act'.inst \subseteq act'.tab,
         act.st # "Exited" => act'.tab \ act'.inst = {act'.pend} \ {None},
         act.st = "Exited" => int3'[act.pid] = {},
         int3' \in [Pid -> SUBSET Addr], armed' \in [Pid -> BOOLEAN],
         user' \in [Pid -> SUBSET (Addr \cup {None})],
         \A p \in Pid : p # act.pid =>
           int3'[p] = int3[p] /\ armed'[p] = armed[p] /\ user'[p] = user[p],
         int3'[act.pid] \subseteq act'.inst, armed'[act.pid] => act'.wp,
         "kill" \notin Faults /\ ks[act.pid] \in {"stop", "run"} =>
           act'.inst \subseteq int3'[act.pid] /\ (act'.wp => armed'[act.pid]),
         "Child" \notin env.policies /\ "exec_in_motion" \notin Faults
           /\ ks[act.pid] \in {"stop", "run"} /\ act.st = "Stopped" => user'[act.pid] = act'.tab,
         ks[act.pid] # "stop" => int3'[act.pid] = int3[act.pid] /\ armed'[act.pid] = armed[act.pid]
  PROVE  IInv'
<1>. USE DEF IInv
<1>1. ks[act.pid] # "none" /\ act.exe = image[act.pid] /\ act.pid \in Pid
      /\ act.pid \notin DOMAIN ret /\ DOMAIN ret \subseteq Pid
  BY DEF Active, DomainOK, TypeOK, Domain, Retained
<1>2. TypeOK'
  BY SameEnv DEF TypeOK
<1>3. Active'
  BY <1>1, SameEnv DEF Active, DomainOK
<1>4. Retained'
  BY <1>1, RetainedKept
<1>5. Listed'
  <2>1. None \notin Addr /\ act'.tab \subseteq Addr
    BY EnvFacts, SameEnv DEF Domain, TypeOK
  <2>2. act'.tab \ {temp'} = act'.tab
    BY <2>1
  <2>3. \A p \in DOMAIN ret : user'[p] = user[p]
    BY <1>1
  <2>4. (call \in Motions \cup {"undo"} \/ Idle)' => act.st = "Stopped"
    BY DEF Idle
  <2>5. "Child" \notin env.policies /\ "exec_in_motion" \notin Faults =>
          \A p \in DOMAIN ret : ks[p] \in {"stop", "run"} => user'[p] = ret[p].tab
    BY <2>3, ListedRetained
  <2>. QED BY <2>2, <2>4, <2>5, SameEnv DEF Listed
<1>6. Motion' /\ Alone'
  <2>1. call \in {"idle", "undo"}
    BY DEF Idle
  <2>. QED BY <2>1, SameEnv DEF Motion, Alone
<1>7. Entries'
  BY <1>1, SameEnv DEF Entries
<1>8. ReleasedClean'
  BY <1>1, ReleasedKept DEF Idle
<1>9. TracedOwned'
  BY SameEnv DEF TracedOwned, Owned
<1>. QED BY <1>2, <1>3, <1>4, <1>5, <1>6, <1>7, <1>8, <1>9

\* What the user's entries are at the prompt.
LEMMA PromptListed ==
  ASSUME IInv, Idle, "Child" \notin env.policies, "exec_in_motion" \notin Faults,
         ks[act.pid] \in {"stop", "run"}
  PROVE  user[act.pid] = act.tab
<1>1. act.tab \subseteq Addr
  BY Prompt DEF Domain
<1>2. act.tab \ {temp} = act.tab
  BY <1>1, Prompt
<1>. QED BY <1>2 DEF IInv, Listed

\* A breakpoint is set in the selected process.
LEMMA AddBreakpointInv ==
  ASSUME IInv, UNCHANGED env, NEW a \in Addr, add_breakpoint(a) PROVE IInv'
<1>. USE DEF IInv
<1>1. Idle /\ ks[act.pid] = "stop" /\ DomainOK(act) /\ a \notin act.tab /\ act \in Domain
      /\ UNCHANGED <<ks, armed, image, root, origin, policy, ret, elf, call, temp, over, vchild>>
  BY DEF add_breakpoint, Reachable, callVars, Active, TypeOK
<1>2. /\ act' = [act EXCEPT !.tab = @ \cup {a}, !.inst = @ \cup {a}]
      /\ act' \in Domain /\ act'.pid = act.pid /\ act'.st = act.st /\ act'.exe = act.exe
      /\ act'.tab = act.tab \cup {a} /\ act'.inst = act.inst \cup {a}
      /\ act'.pend = act.pend /\ act'.wp = act.wp
  BY <1>1 DEF add_breakpoint, Domain
<1>3. act'.tab \ act'.inst = act.tab \ act.inst
  BY <1>1, <1>2
<1>4. /\ int3' \in [Pid -> SUBSET Addr] /\ user' \in [Pid -> SUBSET (Addr \cup {None})]
      /\ int3'[act.pid] = int3[act.pid] \cup {a} /\ user'[act.pid] = user[act.pid] \cup {a}
      /\ \A p \in Pid : p # act.pid => int3'[p] = int3[p] /\ user'[p] = user[p]
  BY <1>1, Prompt DEF add_breakpoint, TypeOK
<1>5. armed' \in [Pid -> BOOLEAN]
  BY <1>1 DEF TypeOK
<1>6. /\ int3'[act.pid] \subseteq act'.inst /\ (armed'[act.pid] => act'.wp)
      /\ ("kill" \notin Faults => act'.inst \subseteq int3'[act.pid] /\ (act'.wp => armed'[act.pid]))
      /\ act'.inst \subseteq act'.tab
  BY <1>1, <1>2, <1>4, SMT DEF DomainOK
<1>7. "Child" \notin env.policies /\ "exec_in_motion" \notin Faults => user'[act.pid] = act'.tab
  BY <1>1, <1>2, <1>4, PromptListed
<1>. QED BY <1>1, <1>2, <1>3, <1>4, <1>5, <1>6, <1>7, Prompt, EditInv

\* A breakpoint is deleted, or the delete throws.
LEMMA RemoveBreakpointInv ==
  ASSUME IInv, UNCHANGED env, NEW a \in Addr \cup {None}, remove_breakpoint(a) PROVE IInv'
<1>. USE DEF IInv
<1>1. Idle /\ DomainOK(act) /\ act \in Domain /\ act.pid \in Pid
      /\ UNCHANGED <<ks, armed, image, root, origin, policy, ret, elf, over, vchild>>
      /\ armed' \in [Pid -> BOOLEAN] /\ a \in user[act.pid]
      /\ call' \in {"idle", "threw"} /\ temp' = None /\ act.st = "Stopped"
  BY Prompt DEF remove_breakpoint, Active, TypeOK, Domain, Idle
<1>2. CASE a \in act.tab /\ (a \in act.inst => ks[act.pid] = "stop")
  <2>1. /\ act' = [act EXCEPT !.tab = @ \ {a}, !.inst = @ \ {a}, !.pend = IF @ = a THEN None ELSE @]
        /\ user' = [user EXCEPT ![act.pid] = @ \ {a}]
        /\ int3' = IF a \in act.inst THEN [int3 EXCEPT ![act.pid] = @ \ {a}] ELSE int3
    BY <1>2 DEF remove_breakpoint, Reachable, UnpatchedInt3
  <2>2. /\ act' \in Domain /\ act'.pid = act.pid /\ act'.st = act.st /\ act'.exe = act.exe
        /\ act'.tab = act.tab \ {a} /\ act'.inst = act.inst \ {a}
        /\ act'.pend = (IF act.pend = a THEN None ELSE act.pend) /\ act'.wp = act.wp
    BY <1>1, <2>1 DEF Domain
  <2>3. act'.tab \ act'.inst = {act'.pend} \ {None} /\ act'.inst \subseteq act'.tab
    <3>1. act.tab \ act.inst = {act.pend} \ {None} /\ act.inst \subseteq act.tab
      BY <1>1, Prompt
    <3>2. act'.tab \ act'.inst = (act.tab \ act.inst) \ {a}
      BY <2>2
    <3>. QED BY <2>2, <3>1, <3>2
  <2>4. /\ int3' \in [Pid -> SUBSET Addr] /\ user' \in [Pid -> SUBSET (Addr \cup {None})]
        /\ user'[act.pid] = user[act.pid] \ {a}
        /\ \A p \in Pid : p # act.pid => int3'[p] = int3[p] /\ user'[p] = user[p]
    BY <1>1, <2>1 DEF TypeOK
  <2>5. int3'[act.pid] = int3[act.pid] \ {a}
    <3>1. a \notin act.inst => a \notin int3[act.pid]
      BY <1>1 DEF DomainOK
    <3>. QED BY <1>1, <2>1, <3>1 DEF TypeOK
  <2>6. ks[act.pid] # "stop" => int3'[act.pid] = int3[act.pid]
    BY <1>2, <2>1
  <2>7. /\ int3'[act.pid] \subseteq act'.inst /\ (armed'[act.pid] => act'.wp)
        /\ "kill" \notin Faults /\ ks[act.pid] \in {"stop", "run"} =>
             act'.inst \subseteq int3'[act.pid] /\ (act'.wp => armed'[act.pid])
    BY <1>1, <2>2, <2>4, <2>5, SMT DEF DomainOK
  <2>8. "Child" \notin env.policies /\ "exec_in_motion" \notin Faults
          /\ ks[act.pid] \in {"stop", "run"} => user'[act.pid] = act'.tab
    BY <1>1, <2>2, <2>4, PromptListed
  <2>. QED BY <1>1, <2>2, <2>3, <2>4, <2>6, <2>7, <2>8, EditInv
<1>3. CASE ~(a \in act.tab /\ (a \in act.inst => ks[act.pid] = "stop"))
  <2>1. UNCHANGED <<int3, act, user>>
    BY <1>3 DEF remove_breakpoint, Reachable
  <2>2. act.inst \subseteq act.tab /\ act.tab \ act.inst = {act.pend} \ {None}
    BY <1>1, Prompt
  <2>. QED BY <1>1, <2>1, <2>2, PromptListed, EditInv DEF DomainOK, TypeOK
<1>. QED BY <1>2, <1>3

\* The watchpoint is set or deleted in the selected process.
LEMMA WatchInv ==
  ASSUME IInv, UNCHANGED env, add_write_watchpoint \/ remove_watchpoint PROVE IInv'
<1>. USE DEF IInv
<1>1. Idle /\ ks[act.pid] = "stop" /\ DomainOK(act) /\ act \in Domain /\ act.pid \in Pid
      /\ UNCHANGED <<ks, int3, image, root, origin, policy, ret, elf, user, call, over, vchild>>
      /\ temp' = None /\ act.st = "Stopped"
      /\ int3 \in [Pid -> SUBSET Addr] /\ user \in [Pid -> SUBSET (Addr \cup {None})]
      /\ act.inst \subseteq act.tab /\ act.tab \ act.inst = {act.pend} \ {None} /\ call = "idle"
  BY Prompt DEF add_write_watchpoint, remove_watchpoint, Reachable, cliVars, callVars, Active, TypeOK
<1>2. /\ act' \in Domain /\ act'.pid = act.pid /\ act'.st = act.st /\ act'.exe = act.exe
      /\ act'.tab = act.tab /\ act'.inst = act.inst /\ act'.pend = act.pend
  BY <1>1 DEF add_write_watchpoint, remove_watchpoint, Domain
<1>3. /\ armed' \in [Pid -> BOOLEAN]
      /\ \A p \in Pid : p # act.pid => armed'[p] = armed[p]
      /\ act'.wp <=> armed'[act.pid]
  BY <1>1 DEF add_write_watchpoint, remove_watchpoint, TypeOK, Domain
<1>. QED BY <1>1, <1>2, <1>3, PromptListed, EditInv DEF DomainOK

\* select_process: the domains change places, neither with a lifted breakpoint.
LEMMA SelectInv ==
  ASSUME IInv, UNCHANGED env, NEW p \in Pid, select_process(p) PROVE IInv'
<1>. USE DEF IInv
<1>1. /\ Idle /\ p \in DOMAIN ret /\ act.pend = None /\ act' = ret[p] /\ call' = call
      /\ ret' = [q \in (DOMAIN ret \ {p}) \cup {act.pid} |-> IF q = act.pid THEN act ELSE ret[q]]
      /\ UNCHANGED <<ks, int3, armed, image, root, origin, policy, user, temp, over, vchild>>
  BY DEF select_process, swap_active_process, kernelVars, callVars
<1>2. /\ ret[p] \in Domain /\ DomainOK(ret[p]) /\ ret[p].pid = p /\ p # act.pid
      /\ ret[p].st = "Stopped" /\ ret[p].pend = None /\ ret[p].inst = ret[p].tab
  BY <1>1 DEF Retained, TypeOK
<1>3. /\ DomainOK(act) /\ act.inst = act.tab /\ act.st = "Stopped" /\ act.pid \in Pid
      /\ act \in Domain
  BY <1>1, Prompt DEF Active
<1>4. /\ DOMAIN ret' = (DOMAIN ret \ {p}) \cup {act.pid} /\ ret'[act.pid] = act
      /\ \A q \in DOMAIN ret : q # p => ret'[q] = ret[q]
  BY <1>1, Prompt
<1>5. TypeOK'
  <2>1. DOMAIN ret' \subseteq Pid /\ \A q \in DOMAIN ret' : ret'[q] \in Domain
    BY <1>1, <1>3, <1>4, Prompt DEF TypeOK
  <2>. QED BY <1>1, <1>2, <2>1, SameEnv DEF TypeOK
<1>6. Active'
  BY <1>1, <1>2, SameEnv DEF Active, DomainOK
<1>7. Retained'
  <2>. SUFFICES ASSUME NEW q \in DOMAIN ret'
                PROVE  /\ DomainOK(ret[q])' /\ ret'[q].pid = q /\ q # act'.pid
                       /\ ret'[q].st = "Stopped" /\ ret'[q].pend = None
                       /\ ret'[q].inst = ret'[q].tab
    BY DEF Retained
  <2>1. CASE q = act.pid
    BY <1>1, <1>2, <1>3, <1>4, <2>1, SameEnv DEF DomainOK
  <2>2. CASE q # act.pid
    <3>1. q \in DOMAIN ret /\ q # p /\ ret'[q] = ret[q]
      BY <1>4, <2>2
    <3>. QED BY <1>1, <1>2, <3>1, SameEnv DEF Retained, DomainOK
  <2>. QED BY <2>1, <2>2
<1>12. Listed'
  <2>1. temp' = None /\ None \notin Addr /\ ret[p].tab \subseteq Addr
    BY <1>1, <1>2, Prompt DEF Domain
  <2>2. act'.tab \ {temp'} = ret[p].tab
    BY <1>1, <2>1
  <2>3. "Child" \notin env.policies /\ "exec_in_motion" \notin Faults
          /\ ks[act.pid] \in {"stop", "run"} => user[act.pid] = ret'[act.pid].tab
    BY <1>1, <1>4, PromptListed
  <2>. QED BY <1>1, <1>2, <1>4, <2>2, <2>3, SameEnv DEF Listed
<1>8. policy = "Both" /\ origin # "Attached" /\ "Both" \in env.policies
  BY <1>1 DEF Entries, Alone, TypeOK
<1>9. Motion' /\ Alone' /\ Entries'
  BY <1>1, <1>2, <1>8, Prompt, SameEnv DEF Motion, Alone, Entries
<1>10. ReleasedClean'
  BY <1>1, ReleasedKept DEF Idle
<1>11. TracedOwned'
  BY <1>1, <1>2, <1>4, SameEnv DEF TracedOwned, Owned
<1>. QED BY <1>5, <1>6, <1>7, <1>9, <1>10, <1>11, <1>12

\* The selected process is resumed, over a lifted breakpoint or not.
LEMMA ResumeInv ==
  ASSUME IInv, UNCHANGED env, NEW command \in {"continue", "step"}, Resume(command) PROVE IInv'
<1>. USE DEF IInv
<1>1. Idle /\ UNCHANGED <<int3, armed, image, root, origin, policy, ret, elf, user, temp, vchild>>
  BY DEF Resume, cliVars
<1>2. CASE ks[act.pid] = "stop"
  <2>1. /\ act' = [act EXCEPT !.st = "Running"] /\ over' = (act.pend # None) /\ call' = command
        /\ ks' = [ks EXCEPT ![act.pid] = "run"]
    BY <1>2 DEF Resume, Reachable
  <2>2. /\ act' \in Domain /\ act'.pid = act.pid /\ act'.tab = act.tab /\ act'.inst = act.inst
        /\ act'.pend = act.pend /\ act'.st = "Running" /\ act'.wp = act.wp /\ act'.exe = act.exe
    BY <1>1, <2>1, Prompt DEF Domain
  <2>3. ks'[act.pid] = "run" /\ \A q \in Pid : q # act.pid => ks'[q] = ks[q]
    BY <1>1, <2>1, Prompt DEF TypeOK
  <2>4. TypeOK'
    BY <1>1, <2>1, <2>2, SameEnv DEF TypeOK
  <2>5. Active'
    BY <1>1, <1>2, <2>2, <2>3, Prompt, SameEnv DEF Active, DomainOK
  <2>6. Retained' /\ Listed'
    <3>1. Retained'
      BY <1>1, <2>2, <2>3, Prompt, RetainedKept
    <3>2. \A p \in DOMAIN ret \cup {act.pid} :
            ks'[p] \in {"stop", "run"} => ks[p] \in {"stop", "run"}
      BY <1>1, <1>2, <2>3, Prompt
    <3>. QED BY <1>1, <2>2, <3>1, <3>2, ListedKept
  <2>7. Motion' /\ Alone' /\ Entries'
    <3>1. Motion'
      BY <1>1, <2>1, <2>2, <2>3, Prompt DEF Motion
    <3>2. Alone'
      <4>1. \A z \in Pid : ks'[z] = "zombie" => ks[z] = "zombie"
        BY <2>3
      <4>2. call' \in Motions
        BY <2>1
      <4>. QED BY <1>1, <2>2, <4>1, <4>2, SameEnv DEF Alone
    <3>3. Entries'
      BY <1>1, <1>2, <2>2, <2>3, Prompt, SameEnv DEF Entries
    <3>. QED BY <3>1, <3>2, <3>3
  <2>8. ReleasedClean'
    BY <1>1, <2>3, ReleasedKept DEF Idle
  <2>9. TracedOwned'
    BY <1>1, <1>2, <2>2, <2>3, SameEnv DEF TracedOwned, Owned
  <2>. QED BY <2>4, <2>5, <2>6, <2>7, <2>8, <2>9
<1>3. CASE ks[act.pid] # "stop"
  <2>1. UNCHANGED <<ks, act, over>> /\ call' \in {"idle", "threw"}
    BY <1>3 DEF Resume, Reachable
  <2>2. "Child" \notin env.policies /\ "exec_in_motion" \notin Faults
          /\ ks[act.pid] \in {"stop", "run"} => user'[act.pid] = act'.tab
    BY <1>1, <2>1, PromptListed
  <2>. QED BY <1>1, <2>1, <2>2, Prompt, EditInv DEF TypeOK, Active, DomainOK
<1>. QED BY <1>2, <1>3

\* next or finish sets its temporary breakpoint and resumes.
LEMMA RunToReturnInv ==
  ASSUME IInv, UNCHANGED env, NEW a \in Addr, run_to_return_address(a) PROVE IInv'
<1>. USE DEF IInv
<1>. DEFINE new == {a} \ act.tab
<1>1. /\ Idle /\ UNCHANGED <<armed, image, root, origin, policy, ret, elf, user, vchild>>
      /\ ks[act.pid] = "stop" /\ call' = "run" /\ over' = (act.pend # None)
      /\ temp' = (IF a \in new THEN a ELSE None) /\ ks' = [ks EXCEPT ![act.pid] = "run"]
      /\ int3' = [int3 EXCEPT ![act.pid] = @ \cup new]
      /\ act' = [act EXCEPT !.st = "Running", !.tab = @ \cup new, !.inst = @ \cup new]
  BY DEF run_to_return_address, cliVars, Reachable
<1>2. /\ act' \in Domain /\ act'.pid = act.pid /\ act'.tab = act.tab \cup new
      /\ act'.inst = act.inst \cup new /\ act'.pend = act.pend /\ act'.st = "Running"
      /\ act'.wp = act.wp /\ act'.exe = act.exe
  BY <1>1, Prompt DEF Domain
<1>3. ks'[act.pid] = "run" /\ \A q \in Pid : q # act.pid => ks'[q] = ks[q]
  BY <1>1, Prompt DEF TypeOK
<1>4. /\ int3' \in [Pid -> SUBSET Addr] /\ int3'[act.pid] = int3[act.pid] \cup new
      /\ \A q \in Pid : q # act.pid => int3'[q] = int3[q]
  BY <1>1, Prompt DEF TypeOK
<1>5. TypeOK'
  BY <1>1, <1>2, <1>4, SameEnv DEF TypeOK
<1>6. Active'
  <2>1. DomainOK(act) /\ act.tab \ act.inst = {act.pend} \ {None}
    BY <1>1, Prompt DEF Active
  <2>2. act'.tab \ act'.inst = act.tab \ act.inst
    BY <1>2, <2>1 DEF DomainOK
  <2>3. DomainOK(act)'
    BY <1>1, <1>2, <1>3, <1>4, <2>1, SameEnv DEF DomainOK
  <2>. QED BY <1>2, <2>1, <2>2, <2>3 DEF Active
<1>7. Retained'
  BY <1>1, <1>2, <1>3, <1>4, Prompt, RetainedKept
<1>8. Listed'
  <2>1. act'.tab \ {temp'} = act.tab
    <3>1. None \notin act.tab
      BY <1>1, Prompt DEF Domain
    <3>. QED BY <1>1, <1>2, <3>1
  <2>2. \A q \in DOMAIN ret : ks'[q] = ks[q]
    BY <1>1, <1>3, Prompt
  <2>. QED BY <1>1, <1>2, <2>1, <2>2, PromptListed, SameEnv DEF Listed
<1>9. Motion' /\ Alone' /\ Entries'
  <2>1. Motion'
    BY <1>1, <1>2, <1>3, Prompt DEF Motion
  <2>2. Alone'
    <3>1. \A z \in Pid : ks'[z] = "zombie" => ks[z] = "zombie"
      BY <1>3
    <3>. QED BY <1>1, <1>2, <3>1, SameEnv DEF Alone
  <2>3. Entries'
    <3>1. \A p \in Pid : ks'[p] = "none" => p # act.pid /\ user'[p] = {} /\ int3'[p] = {}
      BY <1>1, <1>3, <1>4, SMT DEF Entries
    <3>. QED BY <1>1, <1>2, <3>1, SameEnv DEF Entries
  <2>. QED BY <2>1, <2>2, <2>3
<1>10. ReleasedClean'
  BY <1>1, <1>3, <1>4, ReleasedKept DEF Idle
<1>11. TracedOwned'
  BY <1>1, <1>2, <1>3, SameEnv DEF TracedOwned, Owned
<1>. QED BY <1>5, <1>6, <1>7, <1>8, <1>9, <1>10, <1>11

\* The temporary breakpoint is removed, or cannot be.
LEMMA RemoveTemporaryInv ==
  ASSUME IInv, UNCHANGED env, remove_temporary_breakpoint PROVE IInv'
<1>. USE DEF IInv
<1>1. /\ call = "undo" /\ call' = "idle" /\ temp' = None
      /\ UNCHANGED <<ks, armed, image, root, origin, policy, ret, elf, user, over, vchild>>
      /\ DomainOK(act) /\ act \in Domain /\ act.pid \in Pid
      /\ armed' \in [Pid -> BOOLEAN] /\ user' \in [Pid -> SUBSET (Addr \cup {None})]
      /\ int3 \in [Pid -> SUBSET Addr]
  BY DEF remove_temporary_breakpoint, cliVars, Active, TypeOK, Domain
<1>2. CASE act.st = "Running" \/ (act.st = "Stopped" /\ temp \in act.inst /\ ks[act.pid] # "stop")
  <2>1. UNCHANGED <<int3, act>>
    BY <1>2 DEF remove_temporary_breakpoint, Reachable
  <2>2. ks[act.pid] \in {"stop", "run"} => act.st # "Stopped"
    BY <1>1, <1>2 DEF DomainOK
  <2>. QED BY <1>1, <2>1, <2>2, EditInv DEF DomainOK, Active
<1>3. CASE ~(act.st = "Running" \/ (act.st = "Stopped" /\ temp \in act.inst /\ ks[act.pid] # "stop"))
  <2>1. /\ act' = [act EXCEPT !.tab = @ \ {temp}, !.inst = @ \ {temp},
                              !.pend = IF @ = temp THEN None ELSE @]
        /\ int3' = IF act.st = "Stopped" /\ temp \in act.inst
                   THEN [int3 EXCEPT ![act.pid] = @ \ {temp}] ELSE int3
    BY <1>3 DEF remove_temporary_breakpoint, Reachable, UnpatchedInt3
  <2>2. /\ act' \in Domain /\ act'.pid = act.pid /\ act'.st = act.st /\ act'.exe = act.exe
        /\ act'.tab = act.tab \ {temp} /\ act'.inst = act.inst \ {temp}
        /\ act'.pend = (IF act.pend = temp THEN None ELSE act.pend) /\ act'.wp = act.wp
    BY <1>1, <2>1 DEF Domain
  <2>3. /\ int3' \in [Pid -> SUBSET Addr] /\ \A q \in Pid : q # act.pid => int3'[q] = int3[q]
        /\ int3'[act.pid] = (IF act.st = "Stopped" /\ temp \in act.inst
                             THEN int3[act.pid] \ {temp} ELSE int3[act.pid])
    BY <1>1, <2>1
  <2>4. int3'[act.pid] \subseteq act'.inst
    BY <1>1, <1>3, <2>2, <2>3 DEF DomainOK, Active, Domain
  <2>5. act.st # "Exited" => act'.tab \ act'.inst = {act'.pend} \ {None}
    BY <2>2 DEF Active
  <2>6. "kill" \notin Faults /\ ks[act.pid] \in {"stop", "run"} =>
          act'.inst \subseteq int3'[act.pid] /\ (act'.wp => armed'[act.pid])
    BY <1>1, <2>2, <2>3 DEF DomainOK
  <2>7. "Child" \notin env.policies /\ "exec_in_motion" \notin Faults
          /\ ks[act.pid] \in {"stop", "run"} => user'[act.pid] = act'.tab
    BY <1>1, <2>2 DEF Listed
  <2>8. ks[act.pid] # "stop" => int3'[act.pid] = int3[act.pid] /\ armed'[act.pid] = armed[act.pid]
    BY <1>1, <1>3, <2>3
  <2>. QED BY <1>1, <2>2, <2>3, <2>4, <2>5, <2>6, <2>7, <2>8, EditInv DEF DomainOK, Active
<1>. QED BY <1>2, <1>3

-----------------------------------------------------------------------------
(* The theorems.                                                           *)

\* Every step of a session keeps the invariant.
LEMMA NextInv ==
  ASSUME IInv, [Next /\ UNCHANGED env]_<<vars, env>>
  PROVE  IInv'
<1>1. CASE Next /\ UNCHANGED env
  <2>1. CASE \E new \in env.policies : set_fork_follow_policy(new)
    BY <1>1, <2>1, PolicyInv
  <2>2. CASE \E a \in Addr : add_breakpoint(a) \/ OnBreakpoint(a) \/ run_to_return_address(a)
    BY <1>1, <2>2, AddBreakpointInv, OnBreakpointInv, RunToReturnInv
  <2>10. CASE \E a \in Addr \cup {None} : remove_breakpoint(a)
    BY <1>1, <2>10, RemoveBreakpointInv
  <2>3. CASE add_write_watchpoint \/ remove_watchpoint
    BY <1>1, <2>3, WatchInv
  <2>4. CASE \E p \in Pid : select_process(p) \/ OnStray(p) \/ Ends(p) \/ Kill(p) \/ Reap(p)
    BY <1>1, <2>4, SelectInv, DeathInv
  <2>5. CASE \E command \in {"continue", "step"} : Resume(command)
    BY <1>1, <2>5, ResumeInv
  <2>6. CASE OnStep \/ OnSignal \/ OnExit \/ OnExec \/ OnClone
    BY <1>1, <2>6, OnStepInv, OnSignalInv, OnExitInv, OnExecInv, OnCloneInv
  <2>7. CASE \E c \in Pid, regs \in BOOLEAN :
               OnForkParent(c, regs) \/ OnForkChild(c, regs) \/ OnForkBoth(c, regs)
                 \/ OnForkChildFirst(c, regs) \/ OnVfork(c, regs)
    BY <1>1, <2>7, OnForkParentInv, OnForkChildInv, OnForkBothInv, OnForkChildFirstInv, OnVforkInv
  <2>8. CASE OnVforkDone \/ remove_temporary_breakpoint
    BY <1>1, <2>8, OnVforkDoneInv, RemoveTemporaryInv
  <2>9. CASE destroy_launched \/ destroy_attached \/ cleanup_ends
    BY <1>1, <2>9, DestroyLaunchedInv, DestroyAttachedInv, CleanupEndsInv
  <2>. QED BY <1>1, <2>1, <2>2, <2>3, <2>4, <2>5, <2>6, <2>7, <2>8, <2>9, <2>10 DEF Next
<1>2. CASE UNCHANGED <<vars, env>>
  <2>. USE DEF IInv
  <2>1. UNCHANGED <<env, ks, int3, armed, image, root, origin, policy, act, ret, elf, user,
                    call, temp, over, vchild>>
    BY <1>2 DEF vars
  <2>2. TypeOK' /\ Active' /\ Motion'
    <3>1. TypeOK'
      BY <2>1, SameEnv DEF TypeOK
    <3>2. Active'
      BY <2>1, SameEnv DEF Active, DomainOK
    <3>3. Motion'
      BY <2>1 DEF Motion
    <3>. QED BY <3>1, <3>2, <3>3
  <2>3. Retained' /\ Listed'
    BY <2>1, RetainedKept, ListedKept DEF Retained, Idle
  <2>4. Alone' /\ Entries' /\ ReleasedClean' /\ TracedOwned'
    BY <2>1, SameEnv DEF Alone, Entries, ReleasedClean, Abandoned, TracedOwned, Owned
  <2>. QED BY <2>2, <2>3, <2>4
<1>. QED BY <1>1, <1>2

\* The invariant holds in every state.
LEMMA AlwaysIInv == Spec => []IInv
BY InitInv, NextInv, PTL DEF Spec

\* Through fork, exec, handoff, selection and promotion, the INT3s and debug
\* registers of every process of the session are what its domain records, and
\* only the selected one can have a breakpoint lifted.
THEOREM EveryDomainTrue == Spec => []DomainState
<1>1. IInv => DomainState
  <2>. SUFFICES ASSUME IInv, "kill" \notin Faults, NEW d \in Domains, ks[d.pid] \in {"stop", "run"}
                PROVE  /\ int3[d.pid] = d.inst /\ armed[d.pid] = d.wp
                       /\ d.exe = image[d.pid]
                       /\ d.tab \ d.inst = {d.pend} \ {None}
                       /\ d.pid # act.pid => d.st = "Stopped" /\ d.pend = None
    BY DEF DomainState
  <2>. USE DEF IInv
  <2>1. CASE d = act
    <3>1. act.wp \in BOOLEAN /\ armed[act.pid] \in BOOLEAN
      BY DEF TypeOK, Domain
    <3>. QED BY <2>1, <3>1 DEF Active, DomainOK
  <2>2. ASSUME NEW p \in DOMAIN ret, d = ret[p]
        PROVE  /\ int3[d.pid] = d.inst /\ armed[d.pid] = d.wp
               /\ d.exe = image[d.pid]
               /\ d.tab \ d.inst = {d.pend} \ {None}
               /\ d.pid # act.pid => d.st = "Stopped" /\ d.pend = None
    <3>1. d.wp \in BOOLEAN /\ armed[d.pid] \in BOOLEAN
      BY <2>2 DEF TypeOK, Domain
    <3>2. DomainOK(d) /\ d.pid = p /\ d.st = "Stopped" /\ d.pend = None /\ d.inst = d.tab
      BY <2>2 DEF Retained
    <3>. QED BY <2>2, <3>1, <3>2 DEF DomainOK
  <2>. QED BY <2>1, <2>2 DEF Domains
<1>. QED BY <1>1, AlwaysIInv, PTL

\* At the prompt the user's entries are the breakpoints of the selected
\* process unless a child was followed, and the ElfFile is its image unless
\* both were, as long as no exec is met under next or finish: there the
\* exception keeps the command line from refreshing either.
THEOREM CliFollowsProcess == Spec => []CliFollows
<1>1. IInv => CliFollows
  <2>. SUFFICES ASSUME IInv, "exec_in_motion" \notin Faults, Idle, Reachable(act.pid)
                PROVE  /\ "Child" \notin env.policies => user[act.pid] = act.tab
                       /\ "Both" \notin env.policies => elf = image[act.pid]
    BY DEF CliFollows
  <2>1. "Child" \notin env.policies => user[act.pid] = act.tab
    BY PromptListed DEF Reachable
  <2>2. "Both" \notin env.policies => elf = image[act.pid]
    BY DEF IInv, Entries
  <2>. QED BY <2>1, <2>2
<1>. QED BY <1>1, AlwaysIInv, PTL

\* Whichever way a process is released, it runs with its own bytes and without
\* the session's watchpoint.  The exception is an attached process whose
\* session ends while it counts as running, after the kill of a fork child
\* made a wait throw.
THEOREM ReleasedRunsClean == Spec => []ReleasedClean
BY AlwaysIInv, PTL DEF IInv

\* No handler leaves a traced process outside the domains, so that nothing is
\* waited for or left stopped by a session that does not know it.
THEOREM NoStrayTracee == Spec => []TracedOwned
BY AlwaysIInv, PTL DEF IInv
=============================================================================
