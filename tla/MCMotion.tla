----------------------------- MODULE MCMotion -----------------------------
(***************************************************************************)
(* Programs for SourceMotion.                                              *)
(***************************************************************************)
EXTENDS SourceMotion

\* A recognised call to a function that calls another, then a call form the
\* decoder does not know, in a loop; the last function starts without a
\* line and may replace the image.
Calls ==
  <<[op |-> "call", line |-> 1, to |-> 6],
    [op |-> "plain", line |-> 1, to |-> 0],
    [op |-> "callx", line |-> 2, to |-> 9],
    [op |-> "jump", line |-> 2, to |-> 3],
    [op |-> "exit", line |-> 3, to |-> 0],
    [op |-> "plain", line |-> 4, to |-> 0],
    [op |-> "call", line |-> 4, to |-> 9],
    [op |-> "ret", line |-> 5, to |-> 0],
    [op |-> "jump", line |-> 0, to |-> 11],
    [op |-> "ret", line |-> 6, to |-> 0],
    [op |-> "exec", line |-> 0, to |-> 0]>>

\* A function that calls itself from one place, or returns.
Recursive ==
  <<[op |-> "call", line |-> 1, to |-> 4],
    [op |-> "plain", line |-> 2, to |-> 0],
    [op |-> "exit", line |-> 2, to |-> 0],
    [op |-> "jump", line |-> 3, to |-> 6],
    [op |-> "call", line |-> 4, to |-> 4],
    [op |-> "plain", line |-> 5, to |-> 0],
    [op |-> "ret", line |-> 5, to |-> 0]>>

\* A call that may end the process, then a line that may loop for ever.
Spins ==
  <<[op |-> "call", line |-> 1, to |-> 5],
    [op |-> "plain", line |-> 1, to |-> 0],
    [op |-> "jump", line |-> 1, to |-> 2],
    [op |-> "exit", line |-> 2, to |-> 0],
    [op |-> "jump", line |-> 3, to |-> 7],
    [op |-> "jump", line |-> 4, to |-> 8],
    [op |-> "ret", line |-> 4, to |-> 0],
    [op |-> "exit", line |-> 4, to |-> 0]>>

\* Two threads run the same call in a loop.
Shared ==
  <<[op |-> "call", line |-> 1, to |-> 5],
    [op |-> "plain", line |-> 2, to |-> 0],
    [op |-> "jump", line |-> 2, to |-> 1],
    [op |-> "exit", line |-> 3, to |-> 0],
    [op |-> "plain", line |-> 4, to |-> 0],
    [op |-> "ret", line |-> 4, to |-> 0]>>

MCPrograms ==
  {[code |-> Calls, entry |-> <<1>>, users |-> {2, 7, 8, 10}, limit |-> 4,
    depth |-> 2, faults |-> {"signal"}],
   [code |-> Recursive, entry |-> <<1>>, users |-> {6}, limit |-> 4,
    depth |-> 3, faults |-> {}],
   [code |-> Spins, entry |-> <<1>>, users |-> {3, 5}, limit |-> 3,
    depth |-> 2, faults |-> {"signal"}],
   [code |-> Shared, entry |-> <<1, 2>>, users |-> {2, 5}, limit |-> 2,
    depth |-> 1, faults |-> {"throw"}]}
=============================================================================
