--------------------------- MODULE InferiorMemory ---------------------------
(***************************************************************************)
(* Access to the tracee's memory: the word-wise PEEKDATA/POKEDATA wrapper  *)
(* (ptrace/ptrace.cpp) under the debugger's reads, its breakpoint bytes    *)
(* and "set memory" (debugger/memory_mutation.cpp), on an address space    *)
(* with holes.  The kernel refuses a word that is not wholly mapped, so    *)
(* every write of a byte near a hole, and every multi-byte write, can fail *)
(* half way.                                                               *)
(***************************************************************************)
EXTENDS Naturals, Sequences, FiniteSets, FiniteSetsExt, SequencesExt

CONSTANTS
  WordSize,    \* bytes moved by one ptrace request (8)
  Top,         \* the last address of the space
  Mapped,      \* mapped addresses
  Values,      \* byte values of the program
  Int3,        \* the breakpoint byte, not one of Values
  BpAddr,      \* addresses of breakpoints
  MaxWrite     \* kMaxMemoryWriteBytes (4096)

ASSUME MemoryAssumption ==
  /\ WordSize \in Nat \ {0} /\ Top \in Nat /\ MaxWrite \in Nat \ {0}
  /\ Mapped \subseteq 0..Top /\ BpAddr \subseteq Mapped /\ Int3 \notin Values

Address == 0..Top
NoBp == [orig |-> Int3, installed |-> FALSE, on |-> FALSE]
NoWrite == [a |-> 0, bytes |-> <<>>, off |-> 0]

VARIABLES
  mem,     \* the bytes in memory
  bp,      \* breakpoints_by_address_
  pend,    \* pending_breakpoint_step_: an address, or Top + 1 for none
  wr,      \* the write_memory call in progress
  want     \* history: the program's bytes, as program and user wrote them

vars == <<mem, bp, pend, wr, want>>

NoPend == Top + 1

Init ==
  /\ mem \in [Mapped -> Values] /\ want = mem
  /\ bp = [a \in BpAddr |-> NoBp] /\ pend = NoPend /\ wr = NoWrite

(***************************************************************************)
(* The kernel and the wrapper.                                             *)
(***************************************************************************)

\* PTRACE_PEEKDATA and PTRACE_POKEDATA reach the word at a.
WordAt(a) == a..(a + WordSize - 1)
Reaches(a) == WordAt(a) \subseteq Mapped

\* Mutant: the whole word takes the value.
WriteByteMutant(m, a, v) == [x \in Mapped |-> IF x \in WordAt(a) THEN v ELSE m[x]]

\* write_byte: the word with its first byte replaced.
WriteByte(m, a, v) == [m EXCEPT ![a] = v]

\* Mutant: the last chunk is a whole word.
ChunkMutant(length, off) == WordSize

Chunk(length, off) == Min({WordSize, length - off})

\* read_memory: word after word, cut to the length asked for.
Offsets(length) == {k * WordSize : k \in 0..(length - 1)} \cap 0..(length - 1)
ReadMemory(a, length) ==
  IF \A off \in Offsets(length) : Reaches(a + off)
  THEN FlattenSeq([k \in 1..Cardinality(Offsets(length)) |->
         LET off == (k - 1) * WordSize
         IN [i \in 1..Chunk(length, off) |-> mem[a + off + i - 1]]])
  ELSE <<>>

(***************************************************************************)
(* The debugger.                                                           *)
(***************************************************************************)

Idle == wr = NoWrite

AddBreakpoint(a) ==
  /\ Idle /\ ~bp[a].on /\ Reaches(a)
  /\ bp' = [bp EXCEPT ![a] = [orig |-> mem[a], installed |-> TRUE, on |-> TRUE]]
  /\ mem' = WriteByte(mem, a, Int3)
  /\ UNCHANGED <<pend, wr, want>>

RemoveBreakpoint(a) ==
  /\ Idle /\ bp[a].on
  /\ mem' = IF bp[a].installed THEN WriteByte(mem, a, bp[a].orig) ELSE mem
  /\ bp' = [bp EXCEPT ![a] = NoBp]
  /\ pend' = IF pend = a THEN NoPend ELSE pend
  /\ UNCHANGED <<wr, want>>

\* prepare_breakpoint_hit, with no other displaced step pending.
Hit(a) ==
  /\ Idle /\ bp[a].on /\ bp[a].installed /\ pend = NoPend
  /\ mem' = WriteByte(mem, a, bp[a].orig)
  /\ bp' = [bp EXCEPT ![a].installed = FALSE]
  /\ pend' = a
  /\ UNCHANGED <<wr, want>>

\* step_over_pending_breakpoint, with the store the instruction may make; a
\* store over an INT3 would be the program writing its own code.
StepOver(x, v) ==
  /\ Idle /\ pend # NoPend
  /\ x \in Mapped => mem[x] # Int3 /\ x # pend
  /\ LET m == IF x \in Mapped THEN [mem EXCEPT ![x] = v] ELSE mem
     IN mem' = WriteByte(m, pend, Int3)
  /\ want' = IF x \in Mapped THEN [want EXCEPT ![x] = v] ELSE want
  /\ bp' = [bp EXCEPT ![pend].installed = TRUE]
  /\ pend' = NoPend
  /\ UNCHANGED <<wr>>

RangeContains(a, length, target) ==
  length # 0 /\ target >= a /\ target - a < length

\* The checks of write_memory that come before the first write.
WriteAllowed(a, bytes) ==
  /\ bytes # <<>> /\ Len(bytes) <= MaxWrite
  /\ a <= Top - (Len(bytes) - 1)
  /\ pend # NoPend => ~RangeContains(a, Len(bytes), pend)

BeginWrite(a, bytes) ==
  /\ Idle /\ WriteAllowed(a, bytes)
  /\ wr' = [a |-> a, bytes |-> bytes, off |-> 0]
  /\ UNCHANGED <<mem, bp, pend, want>>

Installed(a) == a \in BpAddr /\ bp[a].on /\ bp[a].installed

\* The loop of write_memory leaves an installed INT3 alone.
Skips(a) == Installed(a)

\* One turn of the loop that writes.
WriteNext ==
  /\ wr.off < Len(wr.bytes)
  /\ LET a == wr.a + wr.off
         v == wr.bytes[wr.off + 1]
     IN /\ Skips(a) \/ Reaches(a)
        /\ mem' = IF Skips(a) THEN mem ELSE WriteByte(mem, a, v)
        /\ want' = IF Skips(a) THEN want ELSE [want EXCEPT ![a] = v]
  /\ wr' = [wr EXCEPT !.off = @ + 1]
  /\ UNCHANGED <<bp, pend>>

\* write_byte throws: the bytes before stay written, no saved byte changes.
WriteFails ==
  /\ wr.off < Len(wr.bytes)
  /\ ~Skips(wr.a + wr.off) /\ ~Reaches(wr.a + wr.off)
  /\ wr' = NoWrite
  /\ UNCHANGED <<mem, bp, pend, want>>

\* The saved bytes follow once every byte is written.
WriteEnds ==
  /\ ~Idle /\ wr.off = Len(wr.bytes)
  /\ LET covered == {a \in BpAddr : Installed(a) /\ RangeContains(wr.a, Len(wr.bytes), a)}
         v(a) == wr.bytes[a - wr.a + 1]
     IN /\ bp' = [a \in BpAddr |-> IF a \in covered THEN [bp[a] EXCEPT !.orig = v(a)]
                                   ELSE bp[a]]
        /\ want' = [a \in Mapped |-> IF a \in covered THEN v(a) ELSE want[a]]
  /\ wr' = NoWrite
  /\ UNCHANGED <<mem, pend>>

Lengths == 1..MaxWrite
Bytes == UNION {[1..n -> Values] : n \in Lengths}

Next ==
  \/ \E a \in BpAddr : AddBreakpoint(a)
  \/ \E a \in BpAddr : RemoveBreakpoint(a)
  \/ \E a \in BpAddr : Hit(a)
  \/ \E x \in Address, v \in Values : StepOver(x, v)
  \/ \E a \in Address, b \in Bytes : BeginWrite(a, b)
  \/ WriteNext
  \/ WriteFails
  \/ WriteEnds

Spec == Init /\ [][Next]_vars

(***************************************************************************)
(* Properties.                                                             *)
(***************************************************************************)

\* The program's bytes: what is in memory, with the saved byte of every
\* installed breakpoint in the place of its INT3.
View(a) == IF Installed(a) THEN bp[a].orig ELSE mem[a]

(***************************************************************************)
(* Under every sequence of breakpoint changes, displaced steps and writes  *)
(* that succeed, fail half way or overlap breakpoints, the program's bytes *)
(* are the ones the program and the user stored, and no other byte of a    *)
(* word that was read and written back changes.                            *)
(***************************************************************************)
ViewTrue == \A a \in Mapped : View(a) = want[a]

(***************************************************************************)
(* Every installed breakpoint has its INT3 in memory and nothing else has, *)
(* also while and after a write that covers breakpoints.                   *)
(***************************************************************************)
TrapsInPlace == \A a \in Mapped : mem[a] = Int3 <=> Installed(a)

(***************************************************************************)
(* While a displaced step is pending nothing writes the byte it lifted     *)
(* its INT3 from: the write is refused before its first byte.              *)
(***************************************************************************)
PendingRespected ==
  pend # NoPend => ~RangeContains(wr.a, Len(wr.bytes), pend) /\ mem[pend] = bp[pend].orig

(***************************************************************************)
(* A read that succeeds returns exactly the bytes at the addresses asked   *)
(* for, and one fails only if a word it needs reaches an unmapped address. *)
(***************************************************************************)
ReadTrue ==
  \A a \in Address, n \in 1..(2 * WordSize) :
    LET bytes == ReadMemory(a, n)
    IN IF bytes # <<>> THEN bytes = [i \in 1..n |-> mem[a + i - 1]]
       ELSE ~(a..(a + n + WordSize - 2) \subseteq Mapped)
=============================================================================
