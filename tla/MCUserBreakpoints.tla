------------------------- MODULE MCUserBreakpoints -------------------------
(* Environments for UserBreakpoints.                                       *)
EXTENDS UserBreakpoints

\* A name that is defined and one that is not, every change seen; two names for
\* one function or a breakpoint at r_brk, where `continue' throws; the same with
\* one at the entry point and a library that comes and goes unseen; and an exec
\* under next or finish.
MCEnvironments ==
  {[targets |-> {"symbol", "typo"}, unknown |-> {"typo"}, users |-> {2, 7}, faults |-> {}],
   [targets |-> {"symbol", "line"}, unknown |-> {}, users |-> {2, 6}, faults |-> {}],
   [targets |-> {"symbol", "line"}, unknown |-> {}, users |-> {1, 6},
    faults |-> {"managed", "blind", "window"}],
   [targets |-> {"symbol"}, unknown |-> {}, users |-> {2, 6}, faults |-> {"exec_in_motion"}]}
=============================================================================
