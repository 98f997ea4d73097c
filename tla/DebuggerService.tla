--------------------------- MODULE DebuggerService --------------------------
(***************************************************************************)
(* Debugger implements BreakpointService when threads are born and die in  *)
(* order and the user moves them with continue.                            *)
(***************************************************************************)
EXTENDS Debugger

\* A thread that ran a managed INT3 is, for the program, still before it.
ProgramCounter(t) == IF owed[t] THEN rip[t] - 1 ELSE rip[t]

\* The breakpoint at which t was reported is lifted and t has not run it yet.
Told(t) == /\ pend.tid = t /\ pend.address = ProgramCounter(t)
           /\ call = "idle" \/ kst[t] = "step"

Service == INSTANCE BreakpointService WITH
  code <- prog,
  breaks <- IF ImageCurrent THEN {a \in Addr : bp[a].id # 0} ELSE {},
  pc <- [t \in Tid |-> ProgramCounter(t)],
  told <- {t \in Tid : Told(t)}

\* The byte patching of Debugger, seen from the program and the user, is a
\* breakpoint service: nothing is skipped, run twice or run unannounced.
ImplementsService == Service!Spec
=============================================================================
