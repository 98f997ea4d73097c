-------------------------- MODULE BreakpointService -------------------------
(***************************************************************************)
(* What breakpoints promise, without INT3, saved bytes or displaced steps: *)
(* the program runs as if it were alone, one instruction at a time, except *)
(* that a thread never runs an instruction that has a breakpoint before    *)
(* the user was told that the thread is there.                             *)
(***************************************************************************)
EXTENDS Integers

CONSTANTS Tid, CodeSize, Byte, INT3

Addr == 0 .. CodeSize - 1

VARIABLES
  code,    \* the program's bytes
  breaks,  \* addresses with a breakpoint
  pc,      \* where each thread is in the program
  told     \* the threads the user was told are at their breakpoint

vars == <<code, breaks, pc, told>>

Init ==
  /\ code \in [Addr -> Byte]
  /\ breaks = {}
  /\ pc \in [Tid -> 0 .. CodeSize]
  /\ told = {}

\* Thread t runs the instruction it is at; the program's own INT3 falls
\* through.  A thread that it creates, u # t, starts where t goes on.
Run(t, u) ==
  /\ pc[t] \in Addr
  /\ pc[t] \in breaks => t \in told
  /\ \E next \in 0 .. CodeSize :
       /\ code[pc[t]] = INT3 => next = pc[t] + 1
       /\ pc' = [pc EXCEPT ![t] = next, ![u] = next]
  /\ told' = told \ {t, u}
  /\ UNCHANGED <<code, breaks>>

Tell(t) ==
  /\ pc[t] \in breaks
  /\ told' = told \cup {t}
  /\ UNCHANGED <<code, breaks, pc>>

\* The thread is stopped, or dies, at its breakpoint without running it: the
\* user will be told again.
Retract(t) ==
  /\ told' = told \ {t}
  /\ UNCHANGED <<code, breaks, pc>>

SetBreak(a) ==
  /\ breaks' = breaks \cup {a}
  /\ UNCHANGED <<code, pc, told>>

ClearBreak(a) ==
  /\ breaks' = breaks \ {a}
  /\ told' = {t \in told : pc[t] # a}
  /\ UNCHANGED <<code, pc>>

\* A write by the user does not move a thread or lose a breakpoint.
Write ==
  /\ code' \in [Addr -> Byte]
  /\ \A t \in told : code'[pc[t]] = code[pc[t]]
  /\ UNCHANGED <<breaks, pc, told>>

\* exec: a new program starts at its entry, without breakpoints.
NewImage ==
  /\ code' \in [Addr -> Byte]
  /\ breaks' = {} /\ told' = {}
  /\ pc' = [t \in Tid |-> 0]

\* The session ends and leaves the program as it is.
Leave ==
  /\ breaks' = {} /\ told' = {}
  /\ UNCHANGED <<code, pc>>

Next ==
  \/ \E t \in Tid : Tell(t) \/ Retract(t) \/ \E u \in Tid : Run(t, u)
  \/ \E a \in Addr : SetBreak(a) \/ ClearBreak(a)
  \/ Write \/ NewImage \/ Leave

Spec == Init /\ [][Next]_vars
=============================================================================
