------------------------ MODULE InferiorMemoryProofs ------------------------
(***************************************************************************)
(* ViewTrue, TrapsInPlace, PendingRespected and ReadTrue for every word    *)
(* size, address space, set of mapped addresses and set of breakpoints.    *)
(* ReadTrue is about the loop of read_memory in any state: the bytes the   *)
(* first k words give are the first ones asked for, shown at the least k   *)
(* where they would not be.                                                *)
(***************************************************************************)
EXTENDS InferiorMemory, TLAPS, FiniteSetTheorems, FunctionTheorems, WellFoundedInduction

\* Most leaves are first-order; the others name their prover.
USE Zenon

Bp == [orig : Values \cup {Int3}, installed : BOOLEAN, on : BOOLEAN]
Writes == [a : Nat, bytes : Seq(Values), off : Nat]

Types ==
  /\ mem \in [Mapped -> Values \cup {Int3}] /\ want \in [Mapped -> Values]
  /\ bp \in [BpAddr -> Bp] /\ pend \in BpAddr \cup {NoPend}
  /\ wr \in Writes

(***************************************************************************)
(* What ties the pending displaced step to the table: it is the one entry  *)
(* without an INT3, its saved byte is the program's, and the write in      *)
(* progress does not cover it.  Without the last conjunct a write could    *)
(* change the lifted byte behind the saved one.                            *)
(***************************************************************************)
PendingTied ==
  /\ \A a \in BpAddr : bp[a].installed => bp[a].on
  /\ \A a \in BpAddr : bp[a].on /\ ~bp[a].installed => pend = a
  /\ pend # NoPend => /\ bp[pend].on /\ ~bp[pend].installed
                      /\ bp[pend].orig = want[pend]
                      /\ ~RangeContains(wr.a, Len(wr.bytes), pend)

IInv == Types /\ ViewTrue /\ TrapsInPlace /\ PendingTied

\* A word the kernel reaches starts at a mapped address.
LEMMA ReachesMapped ==
  ASSUME NEW a \in Nat, Reaches(a)
  PROVE  a \in Mapped
<1>1. a \in WordAt(a)
  BY MemoryAssumption, SMT DEF WordAt
<1> QED BY <1>1 DEF Reaches

\* Addresses are natural numbers, breakpoints are mapped and NoPend is none.
LEMMA Addresses ==
  /\ Mapped \subseteq Nat /\ BpAddr \subseteq Mapped
  /\ NoPend \notin BpAddr /\ Int3 \notin Values
BY MemoryAssumption, SMT DEF NoPend

\* Every initial state satisfies the inductive invariant.
LEMMA InitInv == Init => IInv
<1> SUFFICES ASSUME Init PROVE IInv
  OBVIOUS
<1>1. Types
  BY SMT DEF Init, Types, NoBp, NoWrite, Bp, Writes
<1>2. \A a \in Mapped : ~Installed(a)
  BY DEF Init, Installed, NoBp
<1>3. ViewTrue
  BY <1>2 DEF ViewTrue, View, Init
<1>4. TrapsInPlace
  BY <1>2, Addresses DEF TrapsInPlace, Init
<1>5. PendingTied
  BY DEF PendingTied, Init, NoBp
<1> QED BY <1>1, <1>3, <1>4, <1>5 DEF IInv

\* A new breakpoint saves the program's byte and puts the INT3 there.
LEMMA AddInv ==
  ASSUME NEW a \in BpAddr, IInv, AddBreakpoint(a)
  PROVE  IInv'
<1> USE DEF IInv
<1>1. ~Installed(a) /\ mem[a] = want[a] /\ mem[a] \in Values
  BY Addresses DEF AddBreakpoint, Installed, PendingTied, ViewTrue, View, Types
<1>2. Types'
  BY <1>1, Addresses DEF Types, AddBreakpoint, WriteByte, Bp
<1>3. \A x \in Mapped : /\ mem'[x] = IF x = a THEN Int3 ELSE mem[x]
                        /\ Installed(x)' <=> (x = a \/ Installed(x))
  BY Addresses DEF AddBreakpoint, WriteByte, Installed, Types
<1>4. \A x \in BpAddr : bp'[x].orig = IF x = a THEN mem[a] ELSE bp[x].orig
  BY DEF AddBreakpoint, Types
<1>5. ViewTrue'
  BY <1>1, <1>3, <1>4, SMT DEF ViewTrue, View, AddBreakpoint, Installed
<1>6. TrapsInPlace'
  BY <1>3 DEF TrapsInPlace
<1>7. PendingTied'
  BY DEF PendingTied, AddBreakpoint, Types, RangeContains
<1> QED BY <1>2, <1>5, <1>6, <1>7

\* Removing a breakpoint puts the program's byte back.
LEMMA RemoveInv ==
  ASSUME NEW a \in BpAddr, IInv, RemoveBreakpoint(a)
  PROVE  IInv'
<1> USE DEF IInv
<1>1. bp[a].installed => bp[a].orig = want[a] /\ bp[a].orig \in Values
  BY Addresses DEF RemoveBreakpoint, Installed, ViewTrue, View, Types
<1>2. Types'
  BY <1>1, Addresses DEF Types, RemoveBreakpoint, WriteByte, Bp, NoBp
<1>3. \A x \in Mapped :
        /\ mem'[x] = IF x = a /\ bp[a].installed THEN bp[a].orig ELSE mem[x]
        /\ Installed(x)' <=> (x # a /\ Installed(x))
  BY Addresses DEF RemoveBreakpoint, WriteByte, Installed, Types, NoBp
<1>4. \A x \in BpAddr : x # a => bp'[x] = bp[x]
  BY DEF RemoveBreakpoint, Types
<1>5. ViewTrue'
  <2> SUFFICES ASSUME NEW x \in Mapped PROVE View(x)' = want'[x]
    BY DEF ViewTrue
  <2>1. CASE x = a
    BY <2>1, <1>1, <1>3 DEF ViewTrue, View, RemoveBreakpoint, Installed
  <2>2. CASE x # a
    BY <2>2, <1>3, <1>4 DEF ViewTrue, View, RemoveBreakpoint, Installed
  <2> QED BY <2>1, <2>2
<1>6. TrapsInPlace'
  BY <1>1, <1>3, Addresses, SMT DEF TrapsInPlace, Installed, RemoveBreakpoint
<1>7. PendingTied'
  BY <1>4, Addresses DEF PendingTied, RemoveBreakpoint, Types, RangeContains, NoBp
<1> QED BY <1>2, <1>5, <1>6, <1>7

\* A hit lifts the INT3 and makes the breakpoint the pending one.
LEMMA HitInv ==
  ASSUME NEW a \in BpAddr, IInv, Hit(a)
  PROVE  IInv'
<1> USE DEF IInv
<1>1. bp[a].orig = want[a] /\ bp[a].orig \in Values
  BY Addresses DEF Hit, Installed, ViewTrue, View, Types
<1>2. Types'
  BY <1>1, Addresses DEF Types, Hit, WriteByte, Bp
<1>3. \A x \in Mapped :
        /\ mem'[x] = IF x = a THEN bp[a].orig ELSE mem[x]
        /\ Installed(x)' <=> (x # a /\ Installed(x))
  BY Addresses DEF Hit, WriteByte, Installed, Types, Bp
<1>4. \A x \in BpAddr : bp'[x].orig = bp[x].orig /\ bp'[x].on = bp[x].on
                        /\ (x # a => bp'[x].installed = bp[x].installed)
                        /\ ~bp'[a].installed
  BY DEF Hit, Types, Bp
<1>5. ViewTrue'
  BY <1>1, <1>3, <1>4, SMT DEF ViewTrue, View, Hit, Installed
<1>6. TrapsInPlace'
  BY <1>1, <1>3, Addresses DEF TrapsInPlace
<1>7. ~RangeContains(wr.a, Len(wr.bytes), a)
  BY DEF Hit, Idle, NoWrite, RangeContains
<1>8. PendingTied'
  <2>1. /\ pend' = a /\ wr' = wr /\ want' = want /\ pend = NoPend
        /\ bp[a].on /\ bp[a].installed
    BY DEF Hit
  <2>2. \A x \in BpAddr : bp[x].on /\ ~bp[x].installed => x = a
    BY <2>1, Addresses DEF PendingTied
  <2> QED BY <2>1, <2>2, <1>1, <1>4, <1>7 DEF PendingTied
<1> QED BY <1>2, <1>5, <1>6, <1>8

\* The displaced step puts the INT3 back over the program's byte.
LEMMA StepOverInv ==
  ASSUME NEW x \in Address, NEW v \in Values, IInv, StepOver(x, v)
  PROVE  IInv'
<1> USE DEF IInv
<1> DEFINE m == IF x \in Mapped THEN [mem EXCEPT ![x] = v] ELSE mem
<1>0. pend \in BpAddr /\ pend \in Mapped /\ (x \in Mapped => x # pend /\ mem[x] # Int3)
  BY Addresses DEF StepOver, Types
<1>1. /\ mem' = [m EXCEPT ![pend] = Int3]
      /\ m \in [Mapped -> Values \cup {Int3}]
  BY DEF StepOver, WriteByte, Types
<1>2. Types'
  <2>1. mem' \in [Mapped -> Values \cup {Int3}]
    BY <1>0, <1>1
  <2>2. want' \in [Mapped -> Values]
    BY DEF StepOver, Types
  <2>3. bp' \in [BpAddr -> Bp]
    <3>1. [bp[pend] EXCEPT !.installed = TRUE] \in Bp
      BY <1>0 DEF Types, Bp
    <3> QED BY <1>0, <3>1 DEF StepOver, Types
  <2>4. pend' = NoPend /\ wr' = wr
    BY DEF StepOver
  <2> QED BY <2>1, <2>2, <2>3, <2>4 DEF Types
<1>3. \A y \in BpAddr : bp'[y].orig = bp[y].orig /\ bp'[y].on = bp[y].on
                        /\ (y # pend => bp'[y].installed = bp[y].installed)
                        /\ bp'[pend].installed
  BY <1>0 DEF StepOver, Types, Bp
<1>4. \A y \in Mapped :
        /\ mem'[y] = IF y = pend THEN Int3 ELSE IF y = x THEN v ELSE mem[y]
        /\ want'[y] = IF y = x THEN v ELSE want[y]
        /\ Installed(y)' <=> (y = pend \/ Installed(y))
  <2>1. \A y \in Mapped : mem'[y] = IF y = pend THEN Int3 ELSE IF y = x THEN v ELSE mem[y]
    BY <1>0, <1>1 DEF Types
  <2>2. \A y \in Mapped : want'[y] = IF y = x THEN v ELSE want[y]
    BY DEF StepOver, Types
  <2>3. \A y \in Mapped : Installed(y)' <=> (y = pend \/ Installed(y))
    BY <1>0, <1>3, Addresses DEF Installed, PendingTied
  <2> QED BY <2>1, <2>2, <2>3
<1>5. bp[pend].orig = want[pend] /\ (x \in Mapped => ~Installed(x))
  BY <1>0 DEF PendingTied, TrapsInPlace, StepOver
<1>6. ViewTrue'
  <2> SUFFICES ASSUME NEW y \in Mapped PROVE View(y)' = want'[y]
    BY DEF ViewTrue
  <2>1. CASE y = pend
    BY <2>1, <1>0, <1>4, <1>3, <1>5 DEF View
  <2>2. CASE y = x
    BY <2>2, <1>0, <1>4, <1>5 DEF View
  <2>3. CASE y # x /\ y # pend
    BY <2>3, <1>4, <1>3, SMT DEF View, ViewTrue, Installed
  <2> QED BY <2>1, <2>2, <2>3
<1>7. TrapsInPlace'
  BY <1>0, <1>4, <1>5, Addresses DEF TrapsInPlace
<1>8. PendingTied'
  BY <1>0, <1>3, Addresses DEF PendingTied, StepOver
<1> QED BY <1>2, <1>6, <1>7, <1>8

\* A write is admitted only if it does not cover the pending step.
LEMMA BeginInv ==
  ASSUME NEW a \in Address, NEW b \in Bytes, IInv, BeginWrite(a, b)
  PROVE  IInv'
<1> USE DEF IInv
<1>1. b \in Seq(Values)
  BY SMT DEF Bytes, Lengths
<1>2. Types'
  BY <1>1, MemoryAssumption, SMT DEF Types, BeginWrite, Writes, Address
<1>3. ViewTrue' /\ TrapsInPlace'
  BY DEF ViewTrue, View, TrapsInPlace, Installed, BeginWrite
<1>4. PendingTied'
  BY DEF PendingTied, BeginWrite, WriteAllowed
<1> QED BY <1>2, <1>3, <1>4

\* A byte is written where no INT3 is installed and no step is pending.
LEMMA WriteNextInv == IInv /\ WriteNext => IInv'
<1> SUFFICES ASSUME IInv, WriteNext PROVE IInv'
  OBVIOUS
<1> USE DEF IInv
<1> DEFINE a == wr.a + wr.off
           v == wr.bytes[wr.off + 1]
<1>1. /\ wr.a \in Nat /\ wr.off \in Nat /\ wr.bytes \in Seq(Values)
      /\ wr.off < Len(wr.bytes) /\ v \in Values
      /\ wr' = [wr EXCEPT !.off = @ + 1]
  BY SMT DEF Types, Writes, WriteNext
<1>2. wr'.a = wr.a /\ wr'.bytes = wr.bytes /\ wr' \in Writes
  BY <1>1, SMT DEF Writes, Types
<1>3. CASE Skips(a)
  <2>1. UNCHANGED <<mem, bp, pend, want>>
    BY <1>3 DEF WriteNext
  <2> QED BY <2>1, <1>2 DEF Types, ViewTrue, View, TrapsInPlace, Installed, PendingTied,
                            RangeContains
<1>4. CASE ~Skips(a)
  <2>1. /\ a \in Mapped /\ mem' = [mem EXCEPT ![a] = v] /\ want' = [want EXCEPT ![a] = v]
        /\ UNCHANGED <<bp, pend>>
    BY <1>1, <1>4, ReachesMapped, SMT DEF WriteNext, WriteByte
  <2>2. Types'
    BY <2>1, <1>1, <1>2 DEF Types
  <2>3. \A y \in Mapped : /\ mem'[y] = IF y = a THEN v ELSE mem[y]
                          /\ want'[y] = IF y = a THEN v ELSE want[y]
                          /\ Installed(y)' <=> Installed(y)
    BY <2>1 DEF Types, Installed
  <2>4. ~Installed(a) /\ v # Int3
    BY <1>1, <1>4, Addresses DEF Skips
  <2>5. ViewTrue'
    BY <2>1, <2>3, <2>4, SMT DEF ViewTrue, View, Installed
  <2>6. TrapsInPlace'
    BY <2>3, <2>4 DEF TrapsInPlace
  <2>7. pend # NoPend => pend # a
    BY <1>1, SMT DEF PendingTied, RangeContains
  <2>8. PendingTied'
    BY <2>1, <2>7, <1>2, Addresses DEF PendingTied, RangeContains, Types
  <2> QED BY <2>2, <2>5, <2>6, <2>8
<1> QED BY <1>3, <1>4

\* The saved bytes and the program's bytes follow together.
LEMMA WriteEndsInv == IInv /\ WriteEnds => IInv'
<1> SUFFICES ASSUME IInv, WriteEnds PROVE IInv'
  OBVIOUS
<1> USE DEF IInv
<1> DEFINE covered == {a \in BpAddr : Installed(a) /\ RangeContains(wr.a, Len(wr.bytes), a)}
           v(a) == wr.bytes[a - wr.a + 1]
<1>1. wr.a \in Nat /\ wr.bytes \in Seq(Values)
  BY DEF Types, Writes
<1>2. \A a \in covered : v(a) \in Values
  BY <1>1, Addresses, SMT DEF RangeContains
<1>3. /\ bp' = [a \in BpAddr |-> IF a \in covered THEN [bp[a] EXCEPT !.orig = v(a)] ELSE bp[a]]
      /\ want' = [a \in Mapped |-> IF a \in covered THEN v(a) ELSE want[a]]
      /\ wr' = NoWrite /\ UNCHANGED <<mem, pend>>
  BY DEF WriteEnds
<1> HIDE DEF v
<1>4. \A a \in BpAddr : /\ bp'[a].orig = IF a \in covered THEN v(a) ELSE bp[a].orig
                        /\ bp'[a].on = bp[a].on /\ bp'[a].installed = bp[a].installed
                        /\ bp'[a] \in Bp
  BY <1>2, <1>3 DEF Types, Bp
<1>5. Types'
  <2>1. wr' \in Writes
    BY <1>3, SMT DEF NoWrite, Writes
  <2>2. want' \in [Mapped -> Values]
    BY <1>2, <1>3 DEF Types
  <2>3. bp' \in [BpAddr -> Bp]
    BY <1>3, <1>4
  <2> QED BY <2>1, <2>2, <2>3, <1>3 DEF Types
<1>6. \A a \in Mapped : Installed(a)' <=> Installed(a)
  BY <1>4 DEF Installed
<1>7. ViewTrue'
  <2> SUFFICES ASSUME NEW a \in Mapped PROVE View(a)' = want'[a]
    BY DEF ViewTrue
  <2>1. CASE a \in covered
    BY <2>1, <1>3, <1>4, <1>6 DEF View
  <2>2. CASE a \notin covered
    BY <2>2, <1>3, <1>4, <1>6 DEF View, ViewTrue, Installed
  <2> QED BY <2>1, <2>2
<1>8. TrapsInPlace'
  BY <1>3, <1>6 DEF TrapsInPlace
<1>9. PendingTied'
  <2>1. pend # NoPend => pend \notin covered /\ pend \in Mapped
    BY Addresses DEF PendingTied, Installed, Types
  <2>2. ~RangeContains(wr'.a, Len(wr'.bytes), pend)
    BY <1>3 DEF NoWrite, RangeContains
  <2> QED BY <2>1, <2>2, <1>3, <1>4 DEF PendingTied, Types
<1> QED BY <1>5, <1>7, <1>8, <1>9

\* Every step preserves the inductive invariant.
LEMMA NextInv == IInv /\ [Next]_vars => IInv'
<1> SUFFICES ASSUME IInv, [Next]_vars PROVE IInv'
  OBVIOUS
<1>1. CASE UNCHANGED vars
  BY <1>1 DEF vars, IInv, Types, ViewTrue, View, TrapsInPlace, Installed, PendingTied
<1>2. ASSUME NEW a \in BpAddr, AddBreakpoint(a) PROVE IInv'
  BY <1>2, AddInv
<1>3. ASSUME NEW a \in BpAddr, RemoveBreakpoint(a) PROVE IInv'
  BY <1>3, RemoveInv
<1>4. ASSUME NEW a \in BpAddr, Hit(a) PROVE IInv'
  BY <1>4, HitInv
<1>5. ASSUME NEW x \in Address, NEW v \in Values, StepOver(x, v) PROVE IInv'
  BY <1>5, StepOverInv
<1>6. ASSUME NEW a \in Address, NEW b \in Bytes, BeginWrite(a, b) PROVE IInv'
  BY <1>6, BeginInv
<1>7. CASE WriteNext
  BY <1>7, WriteNextInv
<1>8. CASE WriteFails
  <2>1. wr' = NoWrite /\ UNCHANGED <<mem, bp, pend, want>>
    BY <1>8 DEF WriteFails
  <2>2. NoWrite \in Writes /\ ~RangeContains(NoWrite.a, Len(NoWrite.bytes), pend)
    BY SMT DEF NoWrite, Writes, RangeContains
  <2> QED BY <2>1, <2>2 DEF IInv, Types, ViewTrue, View, TrapsInPlace, Installed,
                            PendingTied
<1>9. CASE WriteEnds
  BY <1>9, WriteEndsInv
<1> QED BY <1>1, <1>2, <1>3, <1>4, <1>5, <1>6, <1>7, <1>8, <1>9, SMT DEF Next

(***************************************************************************)
(* Whatever the word size and the holes of the address space, breakpoint   *)
(* changes, displaced steps and writes that succeed or fail half way keep  *)
(* the program's bytes as the program and the user stored them.            *)
(***************************************************************************)
THEOREM ViewSafe == Spec => []ViewTrue
<1>1. IInv => ViewTrue
  BY DEF IInv
<1> QED BY <1>1, InitInv, NextInv, PTL DEF Spec

(***************************************************************************)
(* ... keep an INT3 in memory exactly where a breakpoint is installed.     *)
(***************************************************************************)
THEOREM TrapsSafe == Spec => []TrapsInPlace
<1>1. IInv => TrapsInPlace
  BY DEF IInv
<1> QED BY <1>1, InitInv, NextInv, PTL DEF Spec

(***************************************************************************)
(* ... and never write the byte of the pending displaced step.             *)
(***************************************************************************)
THEOREM PendingSafe == Spec => []PendingRespected
<1>1. IInv => PendingRespected
  BY Addresses DEF IInv, Types, PendingRespected, PendingTied, ViewTrue, View, Installed
<1> QED BY <1>1, InitInv, NextInv, PTL DEF Spec

-----------------------------------------------------------------------------
(* Reads.                                                                  *)

\* What is used of the products with the word size.
LEMMA Products ==
  /\ \A k \in Nat : k * WordSize \in Nat /\ (k + 1) * WordSize = k * WordSize + WordSize
  /\ \A j, k \in Nat : j < k => j * WordSize + WordSize <= k * WordSize
  /\ \A k \in Nat : k <= k * WordSize
  /\ 0 * WordSize = 0
<1>1. \A k \in Nat : k * WordSize \in Nat /\ (k + 1) * WordSize = k * WordSize + WordSize
  BY MemoryAssumption, SMT
<1>2. \A j, k \in Nat : j < k => j * WordSize + WordSize <= k * WordSize
  BY MemoryAssumption, SMT
<1>3. \A k \in Nat : k <= k * WordSize
  BY MemoryAssumption, SMT
<1>4. 0 * WordSize = 0
  BY MemoryAssumption, SMT
<1>. QED BY <1>1, <1>2, <1>3, <1>4

\* A read of n bytes moves N words: N is the least number that covers them.
LEMMA WordCount ==
  ASSUME NEW n \in Nat \ {0}
  PROVE  \E N \in Nat \ {0} : /\ Cardinality(Offsets(n)) = N
                              /\ (N - 1) * WordSize < n /\ n <= N * WordSize
<1>. DEFINE C == {k \in Nat : n <= k * WordSize}
<1>1. n \in C
  BY Products
<1>2. \E x \in C : \A y \in C : x <= y
  <2>1. C \in SUBSET Nat
    OBVIOUS
  <2>. HIDE DEF C
  <2>2. \E x \in C : \A y \in C : <<y, x>> \notin OpToRel(<, Nat)
    BY <1>1, <2>1, NatLessThanWellFounded, WFMin
  <2>3. \A x, y \in Nat : <<y, x>> \notin OpToRel(<, Nat) => x <= y
    BY SMT DEF OpToRel
  <2>. QED BY <2>1, <2>2, <2>3
<1>3. PICK N \in C : \A y \in C : N <= y
  BY <1>2
<1>4. N \in Nat \ {0} /\ n <= N * WordSize
  BY <1>3, Products, SMT
<1>5. (N - 1) * WordSize < n
  <2>1. N - 1 \in Nat /\ N - 1 \notin C
    BY <1>3, <1>4, SMT
  <2>. QED BY <2>1, Products, SMT
<1>. HIDE DEF C
<1>6. \A k \in Nat : k < N => k * WordSize < n
  <2>. SUFFICES ASSUME NEW k \in Nat, k < N PROVE k * WordSize < n
    OBVIOUS
  <2>1. k = N - 1 \/ k < N - 1
    BY <1>4, SMT
  <2>2. k < N - 1 => k * WordSize + WordSize <= (N - 1) * WordSize
    BY <1>4, Products, SMT
  <2>3. k * WordSize \in Nat /\ (N - 1) * WordSize \in Nat /\ WordSize \in Nat
    BY <1>4, Products, MemoryAssumption, SMT
  <2>. QED BY <1>5, <2>1, <2>2, <2>3, SMT
<1>7. \A k \in Nat : k * WordSize < n => k < N
  <2>. SUFFICES ASSUME NEW k \in Nat, ~(k < N) PROVE n <= k * WordSize
    BY Products, SMT
  <2>1. k = N \/ N < k
    BY <1>4, SMT
  <2>2. N < k => N * WordSize + WordSize <= k * WordSize
    BY <1>4, Products
  <2>3. k * WordSize \in Nat /\ N * WordSize \in Nat /\ WordSize \in Nat
    BY <1>4, Products, MemoryAssumption
  <2>. QED BY <1>4, <2>1, <2>2, <2>3, SMT
<1>8. Cardinality(Offsets(n)) = N
  <2>. DEFINE f == [k \in 0..(N - 1) |-> k * WordSize]
  <2>1. f \in [0..(N - 1) -> Offsets(n)]
    <3>. SUFFICES ASSUME NEW k \in 0..(N - 1) PROVE k * WordSize \in Offsets(n)
      OBVIOUS
    <3>1. k \in Nat /\ k * WordSize \in Nat /\ k * WordSize < n /\ k <= k * WordSize
      BY <1>4, <1>6, Products, SMT
    <3>2. k \in 0..(n - 1) /\ k * WordSize \in 0..(n - 1)
      BY <3>1, SMT
    <3>. QED BY <3>2 DEF Offsets
  <2>2. \A j, k \in 0..(N - 1) : f[j] = f[k] => j = k
    <3>. SUFFICES ASSUME NEW j \in Nat, NEW k \in Nat, j * WordSize = k * WordSize
                  PROVE  j = k
      BY <1>4, SMT
    <3>1. j * WordSize \in Nat /\ k * WordSize \in Nat /\ WordSize \in Nat \ {0}
      BY Products, MemoryAssumption
    <3>2. /\ j < k => j * WordSize + WordSize <= k * WordSize
          /\ k < j => k * WordSize + WordSize <= j * WordSize
      BY Products
    <3>. QED BY <3>1, <3>2, SMT
  <2>3. \A o \in Offsets(n) : \E k \in 0..(N - 1) : f[k] = o
    <3>. SUFFICES ASSUME NEW k \in Nat, k * WordSize < n
                  PROVE  k \in 0..(N - 1)
      BY SMT DEF Offsets
    <3>. QED BY <1>4, <1>7, SMT
  <2>. HIDE DEF f
  <2>4. ExistsBijection(0..(N - 1), Offsets(n))
    BY <2>1, <2>2, <2>3, Fun_IsBij, Fun_ExistsBij
  <2>5. IsFiniteSet(0..(N - 1)) /\ Cardinality(0..(N - 1)) = N
    BY <1>4, FS_Interval, SMT
  <2>. QED BY <2>4, <2>5, FS_Bijection
<1>. QED BY <1>4, <1>5, <1>8

\* The loop of read_memory: the words put together, the last one cut, are the
\* bytes asked for, for every length.
THEOREM ReadExact ==
  ASSUME NEW a \in Address, NEW n \in Nat \ {0}, \A off \in Offsets(n) : Reaches(a + off)
  PROVE  ReadMemory(a, n) = [i \in 1..n |-> mem[a + i - 1]]
<1>1. PICK N \in Nat \ {0} : /\ Cardinality(Offsets(n)) = N
                             /\ (N - 1) * WordSize < n /\ n <= N * WordSize
  BY WordCount
<1>. DEFINE s == [k \in 1..N |-> [i \in 1..Chunk(n, (k - 1) * WordSize) |->
                                    mem[a + (k - 1) * WordSize + i - 1]]]
            Upto(k) == IF k = N THEN n ELSE k * WordSize
            BytesTo(m) == [i \in 1..m |-> mem[a + i - 1]]
            F == [k \in 1..N |-> BytesTo(Upto(k))]
            Rec(g) == [k \in 1..N |-> IF k = 1 THEN s[k] ELSE g[k - 1] \o s[k]]
<1>2. \A k \in 1..N : /\ Upto(k) \in Nat /\ (k - 1) * WordSize \in Nat
                      /\ Chunk(n, (k - 1) * WordSize) = Upto(k) - (k - 1) * WordSize
                      /\ (k - 1) * WordSize <= Upto(k)
  <2>. SUFFICES ASSUME NEW k \in 1..N
                PROVE  /\ Upto(k) \in Nat /\ (k - 1) * WordSize \in Nat
                       /\ Chunk(n, (k - 1) * WordSize) = Upto(k) - (k - 1) * WordSize
                       /\ (k - 1) * WordSize <= Upto(k)
    OBVIOUS
  <2>. DEFINE o == (k - 1) * WordSize
              e == k * WordSize
              l == (N - 1) * WordSize
              h == N * WordSize
  <2>1. o \in Nat /\ e \in Nat /\ l \in Nat /\ h \in Nat /\ e = o + WordSize
        /\ h = l + WordSize
    <3>1. k - 1 \in Nat /\ k \in Nat /\ N - 1 \in Nat /\ (k - 1) + 1 = k /\ (N - 1) + 1 = N
      BY SMT
    <3>. QED BY <3>1, Products
  <2>2. k < N => e <= l
    <3>. SUFFICES ASSUME k < N PROVE e <= l
      OBVIOUS
    <3>1. k - 1 < N - 1 /\ k - 1 \in Nat /\ N - 1 \in Nat
      BY SMT
    <3>. QED BY <3>1, <2>1, Products
  <2>3. k = N => o = l
    OBVIOUS
  <2>4. l < n /\ n <= h /\ WordSize \in Nat \ {0} /\ (k < N \/ k = N)
    BY <1>1, MemoryAssumption, SMT
  <2>5. Chunk(n, o) = IF k = N THEN n - o ELSE WordSize
    <3>. HIDE DEF o, e, l, h
    <3>1. CASE k = N
      <4>1. n - o <= WordSize /\ n - o \in Nat
        BY <2>1, <2>3, <2>4, <3>1, SMT
      <4>. QED BY <2>4, <3>1, <4>1, SMT DEF Chunk, Min
    <3>2. CASE k < N
      <4>1. WordSize <= n - o /\ n - o \in Nat
        BY <2>1, <2>2, <2>4, <3>2, SMT
      <4>. QED BY <2>4, <3>2, <4>1, SMT DEF Chunk, Min
    <3>. QED BY <2>4, <3>1, <3>2
  <2>6. Upto(k) = IF k = N THEN n ELSE e
    OBVIOUS
  <2>. HIDE DEF o, e, l, h, Upto
  <2>7. Upto(k) \in Nat /\ o \in Nat /\ Chunk(n, o) = Upto(k) - o /\ o <= Upto(k)
    BY <2>1, <2>2, <2>3, <2>4, <2>5, <2>6, SMT
  <2>. QED BY <2>7 DEF o
<1>3. \A k \in 1..N : k # 1 => Upto(k - 1) = (k - 1) * WordSize
  BY SMT
<1>. HIDE DEF Upto
<1>4. F = Rec(F)
  <2>. SUFFICES ASSUME NEW k \in 1..N
                PROVE  BytesTo(Upto(k)) = IF k = 1 THEN s[k] ELSE F[k - 1] \o s[k]
    OBVIOUS
  <2>. DEFINE o == (k - 1) * WordSize
              u == Upto(k)
  <2>1. o \in Nat /\ u \in Nat /\ o <= u
        /\ s[k] = [i \in 1..(u - o) |-> mem[a + o + i - 1]]
    BY <1>2
  <2>2. CASE k = 1
    <3>1. o = 0
      BY <2>2, Products, SMT
    <3>. HIDE DEF o, u, s
    <3>2. s[k] = [i \in 1..u |-> mem[a + i - 1]]
      BY <2>1, <3>1, SMT DEF Address
    <3>. QED BY <2>2, <3>2 DEF u
  <2>3. CASE k # 1
    <3>1. F[k - 1] = [i \in 1..o |-> mem[a + i - 1]]
      <4>1. k - 1 \in 1..N
        BY <2>3, SMT
      <4>2. Upto(k - 1) = o
        BY <1>3, <2>3
      <4>. HIDE DEF o
      <4>. QED BY <4>1, <4>2
    <3>. HIDE DEF o, u, s, F
    <3>2. a \in Nat
      BY MemoryAssumption, SMT DEF Address
    <3>3. F[k - 1] \o s[k] = [i \in 1..u |-> mem[a + i - 1]]
      BY <2>1, <3>1, <3>2, SMT
    <3>. QED BY <2>3, <3>3 DEF u
  <2>. QED BY <2>2, <2>3
<1>5. \A g : g = Rec(g) => g[N] = F[N]
  <2>. SUFFICES ASSUME NEW g, g = Rec(g), g[N] # F[N] PROVE FALSE
    OBVIOUS
  <2>. DEFINE D == {k \in 1..N : g[k] # F[k]}
  <2>1. D # {} /\ D \in SUBSET Nat
    <3>1. N \in 1..N
      BY SMT
    <3>2. N \in D
      BY <3>1
    <3>3. D \subseteq 1..N /\ 1..N \subseteq Nat
      BY SMT
    <3>. QED BY <3>2, <3>3
  <2>. HIDE DEF D
  <2>2. \E x \in D : \A y \in D : <<y, x>> \notin OpToRel(<, Nat)
    BY <2>1, NatLessThanWellFounded, WFMin
  <2>3. \A x, y \in Nat : <<y, x>> \notin OpToRel(<, Nat) => x <= y
    BY SMT DEF OpToRel
  <2>4. PICK d \in D : \A y \in D : d <= y
    BY <2>1, <2>2, <2>3
  <2>5. d \in 1..N /\ g[d] # F[d]
    BY <2>4 DEF D
  <2>6. d # 1 => d - 1 \in 1..N /\ d - 1 \notin D
    BY <2>4, <2>5, SMT
  <2>7. d # 1 => g[d - 1] = F[d - 1]
    BY <2>6 DEF D
  <2>. HIDE DEF s, F
  <2>8. g[d] = (IF d = 1 THEN s[d] ELSE g[d - 1] \o s[d])
        /\ F[d] = (IF d = 1 THEN s[d] ELSE F[d - 1] \o s[d])
    BY <1>4, <2>5
  <2>. QED BY <2>5, <2>7, <2>8
<1>6. ReadMemory(a, n) = FlattenSeq(s)
  BY <1>1 DEF ReadMemory
<1>7. Len(s) = N
  BY SMT
<1>8. FlattenSeq(s) = F[N]
  <2>. HIDE DEF F, s
  <2>1. FlattenSeq(s) = (CHOOSE g : g = Rec(g))[N]
    BY <1>1, <1>7 DEF FlattenSeq
  <2>. HIDE DEF Rec
  <2>2. (CHOOSE g : g = Rec(g)) = Rec(CHOOSE g : g = Rec(g))
    BY <1>4
  <2>. QED BY <1>5, <2>1, <2>2
<1>9. Upto(N) = n
  BY DEF Upto
<1>. QED BY <1>6, <1>8, <1>9, SMT

\* A read that succeeds returns the bytes at the addresses asked for and one
\* fails only at a hole, for every word size, length and set of mapped
\* addresses: read_memory puts the words of PTRACE_PEEKDATA together.
THEOREM ReadSafe == Spec => []ReadTrue
<1>1. ReadTrue
  <2>. SUFFICES ASSUME NEW a \in Address, NEW n \in 1..(2 * WordSize)
                PROVE  IF ReadMemory(a, n) # <<>>
                       THEN ReadMemory(a, n) = [i \in 1..n |-> mem[a + i - 1]]
                       ELSE ~(a..(a + n + WordSize - 2) \subseteq Mapped)
    BY DEF ReadTrue
  <2>1. n \in Nat \ {0} /\ a \in Nat /\ WordSize \in Nat \ {0}
    BY MemoryAssumption, SMT DEF Address
  <2>2. CASE \A off \in Offsets(n) : Reaches(a + off)
    <3>1. ReadMemory(a, n) = [i \in 1..n |-> mem[a + i - 1]]
      BY <2>1, <2>2, ReadExact
    <3>2. Len([i \in 1..n |-> mem[a + i - 1]]) = n
      BY <2>1, SMT
    <3>. QED BY <2>1, <3>1, <3>2, SMT
  <2>3. CASE \E off \in Offsets(n) : ~Reaches(a + off)
    <3>1. ReadMemory(a, n) = <<>>
      BY <2>3 DEF ReadMemory
    <3>2. PICK off \in Offsets(n) : ~Reaches(a + off)
      BY <2>3
    <3>3. off \in 0..(n - 1)
      BY DEF Offsets
    <3>4. WordAt(a + off) \subseteq a..(a + n + WordSize - 2)
      BY <2>1, <3>3, SMT DEF WordAt
    <3>. QED BY <3>1, <3>2, <3>4 DEF Reaches
  <2>. QED BY <2>2, <2>3
<1>. QED BY <1>1, PTL
=============================================================================
