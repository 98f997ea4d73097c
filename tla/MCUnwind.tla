------------------------------- MODULE MCUnwind -------------------------------
(* Programs for Unwind, with the rows GCC emits for them.                   *)
EXTENDS Unwind

R(cfa, off, bp, bx) ==
  [known |-> TRUE, cfa |-> cfa, off |-> off, ra |-> TRUE, bp |-> bp, bx |-> bx]
NoFde == [R("none", 0, Absent, Absent) EXCEPT !.known = FALSE]
I(op, g, row) == [op |-> op, reg |-> g, to |-> {}, row |-> row, file |-> TRUE]
N(op, row) == I(op, "bp", row)
C(to, row) == [N("call", row) EXCEPT !.to = to]
Anon(i) == [i EXCEPT !.file = FALSE]

\* The instructions of a function that keeps RBP as its frame pointer.
EntryRow == R("sp", 1, Absent, Absent)
PushedRow == R("sp", 2, 2, Absent)
FrameRow == R("bp", 2, 2, Absent)
LeftRow == R("sp", 1, 2, Absent)
Framed(to) ==
  <<N("push", EntryRow), N("mov", PushedRow), C(to, FrameRow), N("nop", FrameRow),
    N("pop", FrameRow), N("ret", LeftRow)>>

\* One that leaves RBP and RBX alone, and says so, or not.
Plain(to, rule) ==
  <<N("grow", R("sp", 1, rule, rule)), C(to, R("sp", 2, rule, rule)),
    N("shrink", R("sp", 2, rule, rule)), N("ret", R("sp", 1, rule, rule))>>

\* One that saves RBP and uses it for something else.
Busy(to) ==
  <<N("push", EntryRow), N("set", PushedRow), C(to, PushedRow), N("pop", PushedRow),
    N("ret", LeftRow)>>

\* One that finds its frame by RBX.
BaseRow == R("bx", 2, Same, 2)
Based(to) ==
  <<I("push", "bx", R("sp", 1, Same, Same)), I("mov", "bx", R("sp", 2, Same, 2)), C(to, BaseRow),
    I("pop", "bx", BaseRow), N("ret", R("sp", 1, Same, 2))>>

\* One that realigns the stack: its CFA is in R10, then an expression.
NoCfa == R("none", 0, Absent, Absent)
Realigned(to) ==
  <<I("lea", "r10", EntryRow), N("nop", R("r10", 0, Absent, Absent)), C(to, NoCfa), N("ret", NoCfa)>>

\* One whose return address is declared undefined.
NoRa == [EntryRow EXCEPT !.ra = FALSE]
Outermost(to) == <<C(to, NoRa), N("ret", NoRa)>>

Leaf(rule) == <<N("nop", R("sp", 1, rule, rule)), N("ret", R("sp", 1, rule, rule))>>

\* Without CFI: the start of the program, a function in anonymous memory, and
\* a function of an executable without .eh_frame.
Start(to) == <<C(to, NoFde), N("halt", NoFde)>>
NoCfi == <<Anon(N("push", NoFde)), Anon(N("mov", NoFde)), Anon(N("pop", NoFde)),
           Anon(N("ret", NoFde))>>
Stripped(f) == [i \in DOMAIN f |-> [f[i] EXCEPT !.row.known = FALSE]]

\* 1 start, 3 and 9 framed, 15 plain without a rule, 19 plain with one,
\* 23 busy, 28 leaf, 30 leaf with a rule, 32 without CFI.
Mixed == Start({3}) \o Framed({9, 15, 19, 23}) \o Framed({3, 9, 15, 28, 30, 32})
         \o Plain({9, 28}, Absent) \o Plain({9, 30, 32}, Same)
         \o Busy({3, 19, 28, 32}) \o Leaf(Absent) \o Leaf(Same) \o NoCfi

\* 3 framed, 9 by RBX, 14 realigned, 18 outermost, 20 plain with a rule,
\* 24 leaf, 26 leaf with a rule.
Unusual == Start({3}) \o Framed({9, 14, 18}) \o Based({3, 14, 18, 20, 24, 26})
           \o Realigned({9, 26}) \o Outermost({9, 26}) \o Plain({9, 26}, Same)
           \o Leaf(Absent) \o Leaf(Same)

\* Only functions that keep the frame pointer.
AllFramed == Start({3}) \o Framed({9}) \o Framed({3, 9, 15}) \o NoCfi

\* The same, in an executable without .eh_frame and a library with one.
OwnCfiMissing == Start({3}) \o Stripped(Framed({9})) \o Framed({3, 9, 15}) \o NoCfi

\* The call at 10 is the last instruction of its function, since what it calls
\* does not return; the next function starts right behind it.
NoReturn == Start({3}) \o Framed({9}) \o <<N("push", EntryRow), C({11}, PushedRow)>>
            \o <<N("nop", EntryRow), N("halt", EntryRow)>>

\* RBP is misaligned, or a word of the stack, when it is no frame pointer.
P(code, top, frames, span) ==
  [code |-> code, top |-> top, frames |-> frames, span |-> span, junk |-> {Junk, 3},
   cfi |-> TRUE]

MCPrograms ==
  {P(Mixed, 14, 5, 6), P(Unusual, 12, 5, 6), P(AllFramed, 16, 7, 2), P(NoReturn, 6, 5, 6),
   [P(OwnCfiMissing, 16, 7, 2) EXCEPT !.cfi = FALSE]}
=============================================================================
