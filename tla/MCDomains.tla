----------------------------- MODULE MCDomains -----------------------------
(* Environments for ProcessDomains.                                        *)
EXTENDS ProcessDomains

Start == {"Launched", "Attached"}

\* Parent and child, with a thread; both retained, selected and promoted; four
\* processes at the limit of three; SIGKILL under every policy; a motion with
\* its temporary breakpoint beside the user's breakpoint, and exec under it.
MCEnvironments ==
  {[pids |-> 1..3, addrs |-> {11}, policies |-> {"Parent", "Child"}, origins |-> Start,
    faults |-> {"thread"}],
   [pids |-> 1..3, addrs |-> {11}, policies |-> {"Parent", "Both"}, origins |-> {"Launched"},
    faults |-> {}],
   [pids |-> 1..4, addrs |-> {}, policies |-> {"Both"}, origins |-> Start,
    faults |-> {"child_first"}],
   [pids |-> 1..2, addrs |-> {11}, policies |-> {"Parent", "Child", "Both"},
    origins |-> Start, faults |-> {"kill"}],
   [pids |-> 1..3, addrs |-> {}, policies |-> {"Both"}, origins |-> {"Launched"},
    faults |-> {"kill"}],
   [pids |-> 1..2, addrs |-> {11, 12}, policies |-> {"Parent"}, origins |-> Start,
    faults |-> {"exec_in_motion"}],
   [pids |-> 1..2, addrs |-> {11, 12}, policies |-> {"Both"}, origins |-> {"Launched"},
    faults |-> {}]}
=============================================================================
