------------------------------ MODULE MCService -----------------------------
(* DebuggerService on a small instance.                                    *)
EXTENDS DebuggerService

MCByte == {"INT3", "op", "nop"}
MCImages == {[a \in Addr |-> "op"], [a \in Addr |-> IF a = 0 THEN "INT3" ELSE "op"]}
=============================================================================
