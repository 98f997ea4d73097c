----------------------------- MODULE MCDebugger -----------------------------
(* Instances of Debugger for TLC.                                          *)
EXTENDS Debugger

\* Two ordinary opcodes and INT3; a program with and one without its own INT3.
MCByte == {"INT3", "op", "nop"}
MCImages == {[a \in Addr |-> "op"], [a \in Addr |-> IF a = 0 THEN "INT3" ELSE "op"]}
=============================================================================
