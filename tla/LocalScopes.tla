----------------------------- MODULE LocalScopes -----------------------------
(* Which declaration a name means: the search of the debugging entries of   *)
(* one compilation unit by print and locals, for the live debugger and for   *)
(* cores, and by inline, for cores (dwarf/source_lookup.cpp and its two .inc *)
(* files).                                                                   *)
(* A compiler emits the entries of the unit one after the other; the         *)
(* queries are operators over what it has emitted, for every address.        *)
EXTENDS Integers, Sequences, FiniteSets, FiniteSetsExt

CONSTANTS
  Pcs,                 \* the addresses of the unit's code, 1..n
  Names,               \* the names of locals
  Versions,            \* the DWARF versions the unit may have
  kMaxInlineContexts,
  MaxDies              \* bound on the entries emitted

VARIABLES
  dies,                \* sequence of [tag, parent, name, pcs]; parent 0 is the unit
  version

vars == <<dies, version>>

Scopes == {"subprogram", "block", "inline"}
Index == 1..Len(dies)
IsDecl(i) == dies[i].tag = "decl"

RECURSIVE Ancestors(_)
Ancestors(i) ==
  IF dies[i].parent = 0 THEN {} ELSE {dies[i].parent} \cup Ancestors(dies[i].parent)

-----------------------------------------------------------------------------
(* The compiler.  Entries come in preorder; the code of a scope lies in     *)
(* that of its parent and beside that of its siblings; an inlined function  *)
(* also has an abstract instance, whose entries have no code at all.        *)

Open == {0} \cup (IF dies = <<>> THEN {} ELSE Ancestors(Len(dies)))
        \cup {i \in Index : i = Len(dies) /\ dies[i].tag \in Scopes}
Siblings(parent) == {i \in Index : dies[i].parent = parent}
Taken(parent) == UNION {dies[i].pcs : i \in Siblings(parent)}
Room(parent) == (IF parent = 0 THEN Pcs ELSE dies[parent].pcs) \ Taken(parent)

Emit(tag, parent, name, pcs) ==
  /\ Len(dies) < MaxDies
  /\ parent \in Open
  /\ dies' = Append(dies, [tag |-> tag, parent |-> parent, name |-> name, pcs |-> pcs])
  /\ UNCHANGED version

EmitSubprogram == \E pcs \in SUBSET Room(0) : Emit("subprogram", 0, "", pcs)

EmitScope ==
  \E parent \in Open \ {0}, tag \in {"block", "inline"} :
    IF dies[parent].pcs = {} THEN tag = "block" /\ Emit(tag, parent, "", {})
    ELSE \E pcs \in SUBSET Room(parent) : pcs # {} /\ Emit(tag, parent, "", pcs)

EmitDecl ==
  \E parent \in Open \ {0}, name \in Names :
    /\ \A i \in Siblings(parent) : dies[i].name # name
    /\ Emit("decl", parent, name, {})

Init == dies = <<>> /\ version \in Versions

Next == EmitSubprogram \/ EmitScope \/ EmitDecl

Spec == Init /\ [][Next]_vars

-----------------------------------------------------------------------------
(* Ranges.  A scope in one piece has a low and a high address, one in       *)
(* several pieces a range list, an abstract one neither.                    *)

None == 0
Error == -1

Contiguous(s) == \A p, q \in s : p..q \subseteq s
LowHigh(i) == dies[i].pcs # {} /\ Contiguous(dies[i].pcs)
Ranged(i) == dies[i].pcs # {} /\ ~Contiguous(dies[i].pcs)

\* die_contains_pc
DieContains(i, p) == LowHigh(i) /\ p \in dies[i].pcs

\* inline_scope_contains_pc; range lists of DWARF 5 are refused, see ScopeFails.
ScopeContains(i, p) == p \in dies[i].pcs

ScopeFails(i) == Ranged(i) /\ version # 4

\* find_physical_subprogram
PhysicalSubprogram(p) ==
  LET subs == {i \in Index : dies[i].tag = "subprogram"}
      found == {i \in subs : ScopeContains(i, p)}
  IN  IF \E i \in subs : ScopeFails(i) THEN Error
      ELSE IF found = {} THEN None ELSE Min(found)

\* The loop over subprograms of inspect_unit, inspect_caller_stack_unit and
\* inspect_snapshot_unit.
LowHighSubprogram(p) ==
  LET found == {i \in Index : dies[i].tag = "subprogram" /\ DieContains(i, p)}
  IN  IF found = {} THEN None ELSE Min(found)

-----------------------------------------------------------------------------
(* active_scope_depth: the depth plus one, None outside, Error for a scope  *)
(* without a low and a high address.                                        *)

RECURSIVE DepthFrom(_, _, _, _)
DepthFrom(scope, sub, p, n) ==
  IF scope = sub THEN n
  ELSE IF scope = 0 THEN None
  ELSE IF dies[scope].tag \notin {"block", "inline"} THEN None
  ELSE IF ~LowHigh(scope) THEN Error
  ELSE IF ~DieContains(scope, p) THEN None
  ELSE DepthFrom(dies[scope].parent, sub, p, n + 1)

ActiveScopeDepth(i, sub, p) == DepthFrom(dies[i].parent, sub, p, 1)

\* The loops over declarations: a deeper one replaces the best so far, one
\* of the same depth is an error.
Deepest(cands, depth) ==
  LET active == {i \in cands : depth[i] > 0}
      ties == {j \in active : /\ \E i \in active : i < j /\ depth[i] = depth[j]
                              /\ \A i \in active : i < j => depth[i] <= depth[j]}
  IN  IF (\E i \in cands : depth[i] = Error) \/ ties # {} THEN Error
      ELSE IF active = {} THEN None
      ELSE CHOOSE i \in active : \A j \in active : depth[j] <= depth[i]

Named(name) == {i \in Index : IsDecl(i) /\ dies[i].name = name}

\* inspect_local_value without an inline context: the declaration print shows.
PrintDecl(name, p) ==
  LET sub == LowHighSubprogram(p)
      cands == Named(name)
  IN  IF sub = None THEN None
      ELSE Deepest(cands, [i \in cands |-> ActiveScopeDepth(i, sub, p)])

\* crosses_inline_scope
CrossesInlineScope(i, sub) ==
  \E a \in Ancestors(i) \ ({sub} \cup Ancestors(sub)) : dies[a].tag = "inline"

\* The names listed: of is None for a name that is not.
Catalogue(p, owned(_, _), depth(_, _, _), sub) ==
  LET decls == {i \in Index : IsDecl(i) /\ owned(i, sub)}
      of(name) == Deepest(decls \cap Named(name), [i \in decls |-> depth(i, sub, p)])
  IN  IF \E name \in Names : of(name) = Error THEN [ok |-> FALSE, of |-> <<>>]
      ELSE [ok |-> TRUE, of |-> [name \in Names |-> of(name)]]

\* Mutant: the locals of inlined calls are listed with those of the function.
LocalsMutant(p) ==
  LET owned(i, sub) == TRUE
  IN  IF PhysicalSubprogram(p) \in {None, Error} THEN [ok |-> FALSE, of |-> <<>>]
      ELSE Catalogue(p, owned, ActiveScopeDepth, PhysicalSubprogram(p))

\* discover_scoped_local_catalogue_unit: locals without an inline context.
Locals(p) ==
  LET owned(i, sub) == ~CrossesInlineScope(i, sub)
  IN  IF PhysicalSubprogram(p) \in {None, Error} THEN [ok |-> FALSE, of |-> <<>>]
      ELSE Catalogue(p, owned, ActiveScopeDepth, PhysicalSubprogram(p))

-----------------------------------------------------------------------------
(* Inlined calls.                                                           *)

\* inline_depth_from_physical
InlineDepth(i, sub) ==
  1 + Cardinality({a \in Ancestors(i) : sub \in Ancestors(a) /\ dies[a].tag = "inline"})

\* discover_inline_unit: the chain from the outer to the inner call.
InlineChain(p) ==
  LET sub == PhysicalSubprogram(p)
      below == {i \in Index : dies[i].tag = "inline" /\ sub \in Ancestors(i)}
      cands == {i \in below : ScopeContains(i, p)}
      chain == [n \in 1..Cardinality(cands) |->
                  {i \in cands : InlineDepth(i, sub) = n}]
  IN  IF sub \in {None, Error} THEN [ok |-> sub = None, calls |-> <<>>]
      ELSE IF \/ \E i \in below : ScopeFails(i)
              \/ Cardinality(cands) > kMaxInlineContexts
              \/ \E n \in DOMAIN chain : Cardinality(chain[n]) # 1
              \/ \E n \in DOMAIN chain : n > 1 /\
                   \E i \in chain[n], j \in chain[n - 1] : j \notin Ancestors(i)
      THEN [ok |-> FALSE, calls |-> <<>>]
      ELSE [ok |-> TRUE, calls |-> [n \in DOMAIN chain |-> Min(chain[n])]]

RECURSIVE InlineDepthFrom(_, _, _, _)
InlineDepthFrom(scope, call, p, n) ==
  IF scope = call THEN n
  ELSE IF scope = 0 THEN None
  ELSE IF dies[scope].tag # "block" THEN None
  ELSE IF ScopeFails(scope) THEN Error
  ELSE IF ~ScopeContains(scope, p) THEN None
  ELSE InlineDepthFrom(dies[scope].parent, call, p, n + 1)

\* Mutant: the scopes of calls inlined further in are searched too.
InlineLocalDepthMutant(i, call, p) == ActiveScopeDepth(i, call, p)

\* inline_local_scope_depth
InlineLocalDepth(i, call, p) == InlineDepthFrom(dies[i].parent, call, p, 1)

\* inspect_inline_scalar_unit: print with an inlined call selected.
InlinePrint(name, call, p) ==
  LET cands == Named(name)
  IN  IF ScopeFails(call) \/ PhysicalSubprogram(p) \notin Ancestors(call) THEN Error
      ELSE IF ~ScopeContains(call, p) THEN Error
      ELSE Deepest(cands, [i \in cands |-> InlineLocalDepth(i, call, p)])

\* discover_inline_locals_unit: locals with an inlined call selected.
InlineLocals(call, p) ==
  LET owned(i, sub) == TRUE
  IN  IF ScopeFails(call) \/ PhysicalSubprogram(p) \notin Ancestors(call)
      THEN [ok |-> FALSE, of |-> <<>>]
      ELSE IF ~ScopeContains(call, p) THEN [ok |-> FALSE, of |-> <<>>]
      ELSE Catalogue(p, owned, InlineLocalDepth, call)

-----------------------------------------------------------------------------
(* The addresses the frames are looked up at: the return address of a call  *)
(* is the one after it.                                                     *)

ReturnAddress(call) == call + 1

\* Mutant: a caller is looked up at its return address.
CoreLookupMutant(call) == ReturnAddress(call)

\* snapshot_frame_lookup_pc for a caller.
CoreLookup(call) == ReturnAddress(call) - 1

\* The live debugger takes the caller's runtime_pc as it is.
LiveLookup(call) == ReturnAddress(call)

-----------------------------------------------------------------------------
(* What the language says.                                                  *)

Enclosing(i, p) ==
  /\ \A a \in Ancestors(i) : p \in dies[a].pcs
  /\ \E a \in Ancestors(i) : dies[a].tag = "subprogram"
Visible(name, p) == {i \in Named(name) : Enclosing(i, p)}
InnermostOf(s) == {i \in s : \A j \in s : Ancestors(j) \subseteq Ancestors(i)}
Calls(i) == {a \in Ancestors(i) : dies[a].tag = "inline"}

\* The code goes on in the same scopes behind the call.
EndsNoScope(call) ==
  /\ ReturnAddress(call) \in Pcs
  /\ \A i \in Index : call \in dies[i].pcs <=> ReturnAddress(call) \in dies[i].pcs

\* Where a frame that is at the call may be looked up and be found right: a
\* frame that was not left by a call, or of a core, at the call itself; a
\* caller of the live debugger behind it, unless the call ends a scope.
Lookups(call) ==
  {CoreLookup(call)} \cup (IF EndsNoScope(call) THEN {LiveLookup(call)} ELSE {})

(* The declaration print finds for a frame, stopped or at a call, is the    *)
(* innermost one in scope there.  For the callers of a core this is so at   *)
(* every call; for those of the live debugger, which are looked up at the   *)
(* return address, where the call does not end a scope.                     *)
PrintTrue ==
  \A call \in Pcs, name \in Names : \A p \in Lookups(call) :
    LET v == PrintDecl(name, p)
    IN  v > 0 => v \in InnermostOf(Visible(name, call))

(* locals lists exactly the names declared by the function itself that are  *)
(* in scope, each with its innermost declaration outside of inlined calls;  *)
(* with the same exception for the callers of the live debugger.            *)
LocalsTrue ==
  \A call \in Pcs : \A p \in Lookups(call) :
    Locals(p).ok =>
      \A name \in Names :
        {Locals(p).of[name]} \ {None} =
          InnermostOf({i \in Visible(name, call) : Calls(i) = {}})

(* With an inlined call selected, print and locals see the declarations of  *)
(* that call in scope and no others: neither those of the function around   *)
(* it nor those of a call inlined into it.                                  *)
InlineOwned ==
  \A p \in Pcs : \A n \in DOMAIN InlineChain(p).calls :
    LET call == InlineChain(p).calls[n]
        own(name) == {i \in Visible(name, p) :
                        call \in Ancestors(i) /\ Calls(i) \subseteq Calls(call) \cup {call}}
    IN  /\ \A name \in Names :
             LET v == InlinePrint(name, call, p)
             IN  v # Error => {v} \ {None} = InnermostOf(own(name))
        /\ InlineLocals(call, p).ok =>
             \A name \in Names :
               {InlineLocals(call, p).of[name]} \ {None} = InnermostOf(own(name))
=============================================================================
