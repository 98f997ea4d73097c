---------------------------- MODULE MCCoreSession ----------------------------
(* Programs for CoreSession.                                                 *)
EXTENDS CoreSession

Row(off, rbx) == [kind |-> "rule", off |-> off, rbx |-> rbx]
Other(kind) == [kind |-> kind, off |-> 1, rbx |-> "absent"]
I(op, to, row, fn, mod, inl) ==
  [op |-> op, to |-> to, row |-> row, fn |-> fn, mod |-> mod, inl |-> inl]

\* 1 start, 3 main, whose last call does not return, 7 the function behind it,
\* 9 one that saves RBX and calls itself, 14 a leaf, 16 one that never returns,
\* 18 the handler, 22 a function without an FDE, 24 one in no file, 26 padding,
\* 27 the restorer.
Program1 ==
  << I("call", {3}, Other("outer"), "start", "exe", <<>>),
     I("halt", {}, Other("outer"), "start", "exe", <<>>),
     I("push", {}, Row(1, "absent"), "main", "exe", <<>>),
     I("set", {}, Row(2, "slot"), "main", "exe", <<3>>),
     I("call", {9, 14, 22, 24}, Row(2, "slot"), "main", "exe", <<3>>),
     I("call", {16}, Row(2, "slot"), "main", "exe", <<>>),
     I("nop", {}, Row(1, "absent"), "next", "exe", <<5>>),
     I("ret", {}, Row(1, "absent"), "next", "exe", <<>>),
     I("push", {}, Row(1, "absent"), "f", "exe", <<>>),
     I("set", {}, Row(2, "slot"), "f", "exe", <<1>>),
     I("call", {9, 14}, Row(2, "slot"), "f", "exe", <<1, 2>>),
     I("pop", {}, Row(2, "slot"), "f", "exe", <<>>),
     I("ret", {}, Row(1, "slot"), "f", "exe", <<>>),
     I("nop", {}, Row(1, "absent"), "g", "lib", <<>>),
     I("ret", {}, Row(1, "absent"), "g", "lib", <<>>),
     I("nop", {}, Row(1, "absent"), "abort", "lib", <<>>),
     I("halt", {}, Row(1, "absent"), "abort", "lib", <<>>),
     I("push", {}, Row(1, "absent"), "handler", "exe", <<>>),
     I("set", {}, Row(2, "slot"), "handler", "exe", <<4>>),
     I("pop", {}, Row(2, "slot"), "handler", "exe", <<>>),
     I("ret", {}, Row(1, "slot"), "handler", "exe", <<>>),
     I("call", {14}, Other("none"), "asm", "lib", <<>>),
     I("ret", {}, Other("none"), "asm", "lib", <<>>),
     I("call", {14}, Other("none"), "jit", "", <<>>),
     I("ret", {}, Other("none"), "jit", "", <<>>),
     I("nop", {}, Other("none"), "padding", "lib", <<>>),
     I("sigreturn", {}, Other("signal"), "restorer", "lib", <<>>) >>

\* The same without recursion, for signals within signals.
Program2 == [Program1 EXCEPT ![5].to = {9}, ![11].to = {14}]

\* One call of main, with and without a file, for several threads.
Program3 == [Program1 EXCEPT ![5].to = {9, 24}, ![11].to = {14}]

\* The stack between two alternate ones; deeper ones without the upper; a
\* short one for two threads.
MCPrograms ==
  {[tids |-> {"t1"}, code |-> Program1, stack |-> (1..8) \cup (10..22) \cup (24..31),
    top |-> 23, alts |-> {9, 32}, signals |-> 1, missing |-> 1, frames |-> 6],
   [tids |-> {"t1"}, code |-> Program2, stack |-> (1..15) \cup (17..37),
    top |-> 38, alts |-> {16}, signals |-> 2, missing |-> 0, frames |-> 10],
   [tids |-> {"t1", "t2"}, code |-> Program3, stack |-> 1..6,
    top |-> 7, alts |-> {}, signals |-> 0, missing |-> 1, frames |-> 4]}
=============================================================================
