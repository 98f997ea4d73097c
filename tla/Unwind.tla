-------------------------------- MODULE Unwind --------------------------------
(***************************************************************************)
(* The unwinders: bt and frame over .eh_frame rows (unwind_eh_frame,       *)
(* build_inspection_frames in src/src/unwind/cfi.cpp, caller_frame in      *)
(* src/src/dwarf/eh_frame.cpp), the RBP chain they fall back to            *)
(* (src/src/unwind/frame_pointer.cpp), and the return address that finish  *)
(* runs to (src/src/source/source_finish.cpp).                             *)
(*                                                                         *)
(* A program runs one instruction per step, and the model records the      *)
(* calls it really made; the debuggee may be stopped in any of its states, *)
(* so the properties compare, in every state, what the unwinders compute   *)
(* with those calls.  Addresses and stack slots are counted in words.      *)
(***************************************************************************)
EXTENDS Integers, Sequences

CONSTANTS
  Programs,    \* the programs that may be debugged: records of
               \*   code: address -> [op, reg, to, row, file]
               \*   top: the stack is the words 1..top and grows down
               \*   frames, span: max_frames and max_frame_span
               \*   junk: what it keeps in RBP when that is no frame pointer
               \*   cfi: its executable has an .eh_frame section
  Entry,       \* the address a program starts at
  Junk         \* the address that is not aligned

(* row is the .eh_frame row in force at the address: known is FALSE where  *)
(* no FDE covers it; cfa and off give the CFA, where cfa "none" is a row   *)
(* without one or with instructions that execute does not support; ra is   *)
(* that the return address is in memory; bp and bx are the rules for RBP   *)
(* and RBX: Absent, Same, or how far below the CFA the value is.  file is  *)
(* that a named file is mapped at the address.                             *)

Absent == 0
Same == 1
Saved == {"bp", "bx"}

Op  == {"nop", "push", "mov", "lea", "pop", "set", "grow", "shrink", "call", "ret", "halt"}

IsRow(row) ==
  /\ row.known \in BOOLEAN /\ row.ra \in BOOLEAN /\ row.off \in Nat
  /\ row.cfa \in {"none", "ip", "sp", "bp", "bx", "r10"}
  /\ \A g \in Saved : row[g] \in Nat

ASSUME UnwindAssumption ==
  \A p \in Programs :
    /\ p.top \in Nat /\ p.frames \in Nat \ {0} /\ p.span \in Nat \ {0}
    /\ p.cfi \in BOOLEAN /\ p.junk \subseteq Nat
    /\ \A a \in DOMAIN p.code : p.code[a].op \in Op /\ IsRow(p.code[a].row)
    /\ Entry \in DOMAIN p.code /\ Junk \in Int \ (1..p.top)

VARIABLES
  prog,        \* the program of this session
  pc, sp,
  reg,         \* RBP, RBX and R10
  mem,         \* the stack
  calls        \* the true callers, innermost first: [ip, sp, bp, bx]

vars == <<pc, sp, reg, mem, calls>>

Code == prog.code
Top == prog.top
MaxFrames == prog.frames
MaxSpan == prog.span

Init == /\ prog \in Programs
        /\ pc = Entry /\ sp = Top + 1 /\ reg = [bp |-> 0, bx |-> 0, r10 |-> 0]
        /\ mem = [a \in 1..Top |-> 0] /\ calls = <<>>

-----------------------------------------------------------------------------
(* The program.                                                            *)

Op1(op) == Code[pc].op = op
Falls == pc' = pc + 1
Sets(v) == reg' = [reg EXCEPT ![Code[pc].reg] = v]

Nop == Op1("nop") /\ Falls /\ UNCHANGED <<sp, reg, mem, calls>>
Push == /\ Op1("push") /\ sp > 1 /\ Falls
        /\ sp' = sp - 1 /\ mem' = [mem EXCEPT ![sp - 1] = reg[Code[pc].reg]]
        /\ UNCHANGED <<reg, calls>>
Mov == Op1("mov") /\ Falls /\ Sets(sp) /\ UNCHANGED <<sp, mem, calls>>
\* The address of the caller's stack, from the entry of a function.
Lea == Op1("lea") /\ Falls /\ Sets(sp + 1) /\ UNCHANGED <<sp, mem, calls>>
Pop == /\ Op1("pop") /\ Falls /\ Sets(mem[sp]) /\ sp' = sp + 1
       /\ UNCHANGED <<mem, calls>>
Set == /\ Op1("set") /\ Falls /\ \E v \in prog.junk : Sets(v)
       /\ UNCHANGED <<sp, mem, calls>>
Grow == /\ Op1("grow") /\ sp > 1 /\ Falls /\ sp' = sp - 1
        /\ UNCHANGED <<reg, mem, calls>>
Shrink == Op1("shrink") /\ Falls /\ sp' = sp + 1 /\ UNCHANGED <<reg, mem, calls>>
Call == /\ Op1("call") /\ sp > 1
        /\ \E t \in Code[pc].to : pc' = t
        /\ sp' = sp - 1 /\ mem' = [mem EXCEPT ![sp - 1] = pc + 1]
        /\ calls' = <<[ip |-> pc + 1, sp |-> sp, bp |-> reg.bp, bx |-> reg.bx]>> \o calls
        /\ UNCHANGED reg
Ret == /\ Op1("ret") /\ pc' = mem[sp] /\ sp' = sp + 1
       /\ calls' = Tail(calls) /\ UNCHANGED <<reg, mem>>

Next == Nop \/ Push \/ Mov \/ Lea \/ Pop \/ Set \/ Grow \/ Shrink \/ Call \/ Ret

Spec == Init /\ [][Next /\ UNCHANGED prog]_<<vars, prog>>

-----------------------------------------------------------------------------
(* One step of the CFI unwinder.  A cursor is [ip, sp, bp, bx]; None stands *)
(* for a register that was not recovered.                                   *)

None == -1
Readable(a) == a \in 1..Top
RowAt(a) == IF a \in DOMAIN Code /\ Code[a].file THEN Code[a].row
            ELSE [known |-> FALSE, cfa |-> "none", off |-> 0, ra |-> FALSE,
                  bp |-> Absent, bx |-> Absent]
Live == [ip |-> pc, sp |-> sp, bp |-> reg.bp, bx |-> reg.bx]

\* dwarf_register: the registers of the thread, which finish starts from.
Registers == [ip |-> pc, sp |-> sp, bp |-> reg.bp, bx |-> reg.bx, r10 |-> reg.r10]

\* The CFA from the registers c, or None for an exception: no CFA is defined, or
\* cursor_register does not have its register or no value for it.
CfaOf(c) == LET row == RowAt(c.ip) IN
            IF row.cfa \notin DOMAIN c THEN None
            ELSE IF c[row.cfa] = None THEN None ELSE c[row.cfa] + row.off

\* Mutant: DW_CFA_same_value is treated like a missing rule.
RecoverMutant(c, cfa, g) ==
  LET rule == RowAt(c.ip)[g] IN IF rule \in {Absent, Same} THEN None ELSE mem[cfa - rule]

\* recover_frame_pointer and recover_rbx: only an explicit rule gives a value.
Recover(c, cfa, g) ==
  LET rule == RowAt(c.ip)[g]
  IN  IF rule = Absent THEN None
      ELSE IF rule = Same THEN c[g] ELSE mem[cfa - rule]

\* evaluate_frame: "none" without an FDE, "error" for an exception.
Evaluate(c) ==
  LET cfa == CfaOf(c)
  IN  IF ~RowAt(c.ip).known THEN [kind |-> "none"]
      ELSE IF cfa = None \/ ~RowAt(c.ip).ra \/ ~Readable(cfa - 1) THEN [kind |-> "error"]
      ELSE IF mem[cfa - 1] = 0 THEN [kind |-> "error"]
      ELSE [kind |-> "caller", cfa |-> cfa, ra |-> mem[cfa - 1]]

\* The slots of the saved registers.
Slots(row, cfa) == {cfa - row[g] : g \in {h \in Saved : row[h] \notin {Absent, Same}}}

\* Mutant: the return address is popped twice.
CallerFrameMutant(c) ==
  LET f == Evaluate(c)
  IN  IF f.kind # "caller" THEN f
      ELSE IF \E a \in Slots(RowAt(c.ip), f.cfa) : ~Readable(a) THEN [kind |-> "error"]
      ELSE [kind |-> "caller",
            at |-> [ip |-> f.ra, sp |-> f.cfa + 1,
                    bp |-> Recover(c, f.cfa, "bp"), bx |-> Recover(c, f.cfa, "bx")]]

\* EhFrame::caller_frame.
CallerFrame(c) ==
  LET f == Evaluate(c)
  IN  IF f.kind # "caller" THEN f
      ELSE IF \E a \in Slots(RowAt(c.ip), f.cfa) : ~Readable(a) THEN [kind |-> "error"]
      ELSE [kind |-> "caller",
            at |-> [ip |-> f.ra, sp |-> f.cfa,
                    bp |-> Recover(c, f.cfa, "bp"), bx |-> Recover(c, f.cfa, "bx")]]

Progress(c, next) == next.ip # c.ip /\ next.sp > c.sp

-----------------------------------------------------------------------------
(* unwind_eh_frame and build_inspection_frames.                            *)

RECURSIVE UnwindFrom(_)
UnwindFrom(frames) ==
  LET c == frames[Len(frames)]
      caller == CallerFrame(c)
  IN  IF Len(frames) >= MaxFrames THEN [frames |-> frames, reason |-> "limit"]
      ELSE IF caller.kind = "error" THEN [frames |-> frames, reason |-> "invalid"]
      ELSE IF caller.kind = "none"
      THEN [frames |-> frames,
            reason |-> IF Len(frames) = 1 THEN "no_info" ELSE "end"]
      ELSE IF ~Progress(c, caller.at) THEN [frames |-> frames, reason |-> "invalid"]
      ELSE UnwindFrom(Append(frames, caller.at))

UnwindEhFrame == UnwindFrom(<<Live>>)

\* Every way to stop is silent here, and a caller has to be in a mapped file.
RECURSIVE InspectFrom(_)
InspectFrom(frames) ==
  LET c == frames[Len(frames)]
      caller == CallerFrame(c)
  IN  IF Len(frames) >= MaxFrames \/ caller.kind # "caller" THEN frames
      ELSE IF ~Progress(c, caller.at) THEN frames
      ELSE IF caller.at.ip \notin DOMAIN Code THEN frames
      ELSE IF ~Code[caller.at.ip].file THEN frames
      ELSE InspectFrom(Append(frames, caller.at))

BuildInspectionFrames == InspectFrom(<<Live>>)

-----------------------------------------------------------------------------
(* unwind_frame_pointers: [ips, reason].                                   *)

\* Stack words are aligned.
Aligned(a) == a # Junk

FpNextOk(fp, next) == next > fp /\ next - fp <= MaxSpan

RECURSIVE FpFrom(_, _)
FpFrom(ips, fp) ==
  IF fp = 0 THEN [ips |-> ips, reason |-> "end"]
  ELSE IF ~Aligned(fp) THEN [ips |-> ips, reason |-> "invalid"]
  ELSE IF ~(Readable(fp) /\ Readable(fp + 1)) THEN [ips |-> ips, reason |-> "unreadable"]
  ELSE IF mem[fp + 1] = 0 THEN [ips |-> ips, reason |-> "end"]
  ELSE IF mem[fp] = 0 THEN [ips |-> Append(ips, mem[fp + 1]), reason |-> "end"]
  ELSE IF ~FpNextOk(fp, mem[fp]) THEN [ips |-> ips, reason |-> "invalid"]
  ELSE IF Len(ips) + 1 >= MaxFrames
  THEN [ips |-> Append(ips, mem[fp + 1]), reason |-> "limit"]
  ELSE FpFrom(Append(ips, mem[fp + 1]), mem[fp])

UnwindFramePointers ==
  IF MaxFrames = 1 THEN [ips |-> <<pc>>, reason |-> "limit"] ELSE FpFrom(<<pc>>, reg.bp)

-----------------------------------------------------------------------------
(* print_backtrace: the addresses that bt shows.                           *)

CfiIps == [i \in 1..Len(UnwindEhFrame.frames) |-> UnwindEhFrame.frames[i].ip]

\* Mutant: bt also falls back when the CFI it selected cannot be evaluated.
BacktraceMutant ==
  IF UnwindEhFrame.reason \in {"no_info", "invalid"} THEN UnwindFramePointers.ips
  ELSE CfiIps

\* An executable without .eh_frame is enough to leave the CFI of every module
\* aside.
Backtrace ==
  IF ~prog.cfi \/ UnwindEhFrame.reason = "no_info" THEN UnwindFramePointers.ips ELSE CfiIps

-----------------------------------------------------------------------------
(* finish: automatic_return_address; 0 stands for an exception.            *)

FramePointerReturn ==
  LET bp == reg.bp IN
  IF bp = 0 \/ ~Aligned(bp) \/ ~(Readable(bp) /\ Readable(bp + 1)) THEN 0
  ELSE IF mem[bp] # 0 /\ ~(Aligned(mem[bp]) /\ FpNextOk(bp, mem[bp])) THEN 0
  ELSE mem[bp + 1]

\* Mutant: the frame record is tried before the CFI.
AutomaticReturnMutant ==
  IF FramePointerReturn # 0 THEN FramePointerReturn
  ELSE IF Evaluate(Registers).kind = "caller" THEN Evaluate(Registers).ra ELSE 0

AutomaticReturn ==
  CASE Evaluate(Registers).kind = "caller" -> Evaluate(Registers).ra
    [] Evaluate(Registers).kind = "error" -> 0
    [] Evaluate(Registers).kind = "none" -> FramePointerReturn

-----------------------------------------------------------------------------
Callers == [i \in 1..Len(calls) |-> calls[i].ip]
CallersFrom(k, n) == SubSeq(Callers, k, k + n - 1)

\* The first n calls return to code that has the row of the call, as they do
\* unless the call ends its function because it never returns.
RowsKept(n) == \A i \in 1..n : RowAt(calls[i].ip) = RowAt(calls[i].ip - 1)

(* Every frame that bt and frame show is a true caller: its return         *)
(* address, its stack pointer and, when they are shown, its RBP and RBX    *)
(* are those of the call that was made.  This is said of the frames up to  *)
(* the first that called a function that never returns with its last       *)
(* instruction.                                                            *)
BacktraceTrue ==
  \A trace \in {UnwindEhFrame.frames, BuildInspectionFrames} :
    \A i \in 2..Len(trace) :
      i - 2 <= Len(calls) /\ RowsKept(i - 2) =>
        /\ i - 1 <= Len(calls)
        /\ trace[i].ip = calls[i - 1].ip /\ trace[i].sp = calls[i - 1].sp
        /\ \A g \in Saved : trace[i][g] \in {None, calls[i - 1][g]}

(* bt gives up before the outermost caller only for a reason the user can  *)
(* be told: the frame limit; code without CFI; a row that this unwinder    *)
(* does not support (no CFA, a return address that is not in memory, a CFA *)
(* relative to a register it does not keep); a CFA relative to an RBP or   *)
(* RBX that the row of a function further in does not describe; or a       *)
(* recursion, where the caller returns to the very same address.           *)
CutExplained ==
  LET trace == UnwindEhFrame
      n == Len(trace.frames)
      last == trace.frames[n]
      row == RowAt(last.ip)
  IN  n <= Len(calls) /\ RowsKept(n - 1) =>
        CASE trace.reason = "limit" -> n = MaxFrames
          [] trace.reason = "invalid" ->
               \/ calls[n].ip = last.ip
               \/ ~row.ra \/ row.cfa \in {"none", "r10"}
               \/ /\ row.cfa \in Saved /\ last[row.cfa] = None
                  /\ \E i \in 1..(n - 1) : RowAt(trace.frames[i].ip)[row.cfa] = Absent
          [] OTHER -> ~row.known

\* RBP is kept as the frame pointer wherever a function calls another.
KeepsFramePointer ==
  \A a \in DOMAIN Code :
    /\ Code[a].op # "set"
    /\ Code[a].op = "call" => a = Entry \/ Code[a].row.cfa = "bp"

(* bt shows the callers of such a program without a gap.  It misses the    *)
(* immediate one only when it had to fall back to RBP because no CFI       *)
(* covers the stopped instruction or the executable has none, never        *)
(* because it left the CFI half way.                                       *)
BtSound ==
  LET n == Len(Backtrace) - 1
  IN  KeepsFramePointer => \E k \in (IF prog.cfi /\ RowAt(pc).known THEN {1} ELSE {1, 2}) :
        k + n - 1 <= Len(calls) /\ Tail(Backtrace) = CallersFrom(k, n)

(* Where finish finds a return address from CFI it is the one the current  *)
(* function returns to.  Where it has to use RBP, it is that one or the    *)
(* next one out, in a program that keeps RBP as its frame pointer; in      *)
(* others RBP may be any readable address, and nothing is promised.        *)
FinishTrue ==
  AutomaticReturn # 0 =>
    IF RowAt(pc).known THEN calls # <<>> /\ AutomaticReturn = calls[1].ip
    ELSE KeepsFramePointer =>
           \E k \in {1, 2} : k <= Len(calls) /\ AutomaticReturn = calls[k].ip
=============================================================================
