--------------------------- MODULE UserBreakpoints ---------------------------
(***************************************************************************)
(* The user's breakpoints of one process: UserBreakpointRegistry's entries *)
(* over the debugger's breakpoint table, and DeferredBreakpoints, which    *)
(* keeps requests for a module that is not loaded and resolves them at the *)
(* breakpoint on the dynamic loader's rendezvous (r_brk).                  *)
(*                                                                         *)
(* The program loads and unloads one library.  Its position pc says which  *)
(* of the addresses that matter it is about to execute; between two of     *)
(* them it makes no step of its own.  The debugger's state is a record s   *)
(* that the operators named after its methods transform: s.ok turns FALSE  *)
(* where the code throws.                                                  *)
(***************************************************************************)
EXTENDS Naturals, FiniteSets, FiniteSetsExt

CONSTANTS
  Entry, RBrk,   \* the executable's entry point and the loader's r_brk
  Func,          \* addresses of functions of modules that stay loaded
  Base,          \* the library's function, at each place it may be loaded to
  Environments   \* the surroundings of a session: records of
                 \*   targets: names of that function: its symbol, its source line
                 \*   unknown: the names among them that no module defines after all
                 \*   users: the addresses the user sets breakpoints at
                 \*   faults: managed, a library breakpoint is set while it is
                 \*     loaded; blind, the library comes or goes during next or
                 \*     finish; window, a signal stops the program between the
                 \*     change and the loader's second call of r_brk;
                 \*     exec_in_motion, an exec comes before the temporary
                 \*     breakpoint of next or finish is reached

Addr == {Entry, RBrk} \cup Func \cup Base
None == 0

ASSUME AddrAssumption ==
  /\ Addr \subseteq Nat \ {0} /\ IsFiniteSet(Addr)
  /\ Cardinality(Addr) = 2 + Cardinality(Func) + Cardinality(Base)
  /\ \A e \in Environments :
       /\ e.targets # {} /\ IsFiniteSet(e.targets) /\ e.unknown \subseteq e.targets
       /\ e.users \subseteq Addr \ Base
       /\ e.faults \subseteq {"managed", "blind", "window", "exec_in_motion"}

VARIABLES
  env,       \* the environment of this session
  pc,        \* ld, entry, run, func (about to execute at), lib, add, added,
             \*   del, deleted, gone
  at,        \* the function pc = "func" is about to execute
  loaded,    \* where the library is mapped, or None
  origin,
  s,         \* the debugger and the deferred controller
  entries,   \* UserBreakpointRegistry: the backends of the user's entries, ids of
             \*   the table or names of requests
  call       \* idle, continue, deferred, motion, threw, released, gone

vars == <<pc, at, loaded, origin, s, entries, call>>

Target == env.targets
Faults == env.faults

NoRequest == [bid |-> None, addr |-> None, on |-> FALSE]

\* tab: breakpoint ids by address; mem: addresses holding INT3; pend: the
\* lifted breakpoint; ctl: the controller exists; req: its requests by target;
\* lid, laddr, bid, baddr: the loader and the bootstrap breakpoint; other: the
\* command line's ElfFile is of another file than the program.
Start == [tab |-> [a \in Addr |-> None], mem |-> {}, pend |-> None, ok |-> TRUE,
          ctl |-> FALSE, req |-> [t \in Target |-> NoRequest],
          lid |-> None, laddr |-> None, bid |-> None, baddr |-> None, other |-> FALSE]

NoEntries == [managed |-> {}, deferred |-> {}]

Init ==
  /\ env \in Environments /\ origin \in {"Launched", "Attached"}
  /\ IF origin = "Launched" THEN pc = "ld" /\ loaded = None
     ELSE pc = "run" /\ loaded \in {None} \cup Base
  /\ at = None /\ s = Start /\ entries = NoEntries /\ call = "idle"

-----------------------------------------------------------------------------
(* The breakpoint table.                                                   *)

Mapped(a) == a \in Base => a = loaded

\* Ids grow without bound in the code; an id nobody holds is as good as new.
Held(x) == {x.tab[a] : a \in Addr} \cup {x.req[t].bid : t \in Target}
             \cup {x.lid, x.bid} \cup entries.managed
NewId(x) == Min((1 .. Cardinality(Held(x)) + 1) \ Held(x))
At(x, id) == {a \in Addr : x.tab[a] = id}

Throws(x) == [x EXCEPT !.ok = FALSE]

add_breakpoint(x, a) ==
  IF x.tab[a] # None \/ ~Mapped(a) THEN Throws(x)
  ELSE [x EXCEPT !.tab[a] = NewId(x), !.mem = @ \cup {a}]

Erased(x, a) == [x EXCEPT !.tab[a] = None, !.pend = IF @ = a THEN None ELSE @]

\* Removing writes the original byte back, which fails where nothing is mapped.
remove_breakpoint(x, id) ==
  LET a == CHOOSE b \in At(x, id) : TRUE IN
  IF At(x, id) = {} \/ (x.pend # a /\ ~Mapped(a)) THEN Throws(x)
  ELSE [Erased(x, a) EXCEPT !.mem = @ \ {a}]

discard_breakpoint(x, id) ==
  IF At(x, id) = {} THEN Throws(x) ELSE Erased(x, CHOOSE b \in At(x, id) : TRUE)

\* The displaced instruction has been executed, or its step was interrupted.
Reinserted(x) ==
  IF x.pend = None THEN x
  ELSE [x EXCEPT !.pend = None, !.mem = IF x.tab[x.pend] # None THEN @ \cup {x.pend} ELSE @]

-----------------------------------------------------------------------------
(* DeferredBreakpoints.                                                    *)

resolve_target(t) == IF t \in env.unknown THEN None ELSE loaded
loader_state_is_consistent == pc \notin {"add", "del"}
current_r_debug_address == pc # "ld"

\* remove_internal_breakpoint: an error is ignored.
WithoutId(x, id) == IF id = None \/ ~remove_breakpoint(x, id).ok THEN x
                    ELSE remove_breakpoint(x, id)

WithoutLoader(x) == [WithoutId(x, x.lid) EXCEPT !.lid = None, !.laddr = None]
WithoutBootstrap(x) == [WithoutId(x, x.bid) EXCEPT !.bid = None, !.baddr = None]

suspend_monitoring(x) == WithoutBootstrap(WithoutLoader(x))

\* The address is recorded before the insertion that may throw.
try_install_loader_breakpoint(x) ==
  LET y == [x EXCEPT !.laddr = RBrk]
      z == add_breakpoint(y, RBrk)
  IN IF z.ok THEN [z EXCEPT !.lid = z.tab[RBrk]] ELSE z

install_bootstrap_breakpoint(x) ==
  LET y == [x EXCEPT !.baddr = Entry]
      z == add_breakpoint(y, Entry)
  IN IF z.ok THEN [z EXCEPT !.bid = z.tab[Entry]] ELSE z

Requests(x) == {t \in Target : x.req[t].on}

\* The rendezvous is read through the load bias of the ElfFile, which throws
\* where its file is not mapped.
ensure_monitoring(x) ==
  IF Requests(x) = {} \/ x.lid # None \/ x.bid # None THEN x
  ELSE IF x.other THEN Throws(x)
  ELSE IF current_r_debug_address THEN try_install_loader_breakpoint(x)
  ELSE install_bootstrap_breakpoint(x)

\* Mutant: a request that no longer resolves keeps its breakpoint.
reconcile_request_kept(t, x) ==
  LET r == x.req[t] IN
  IF ~x.ok \/ ~r.on \/ r.bid # None \/ resolve_target(t) = None THEN x
  ELSE LET z == add_breakpoint(x, resolve_target(t)) IN
       IF ~z.ok THEN z
       ELSE [z EXCEPT !.req[t].bid = z.tab[resolve_target(t)],
                      !.req[t].addr = resolve_target(t)]

\* One turn of reconcile_requests: a request that resolves to where it is stays;
\* otherwise its old breakpoint is dropped and a new one inserted.
reconcile_request(t, x) ==
  LET r == x.req[t]
      resolved == resolve_target(t)
      y == IF r.bid = None THEN x
           ELSE [discard_breakpoint(x, r.bid) EXCEPT !.req[t] = [@ EXCEPT !.bid = None,
                                                                          !.addr = None]]
      z == add_breakpoint(y, resolved)
  IN IF ~x.ok \/ ~r.on \/ (r.bid # None /\ resolved = r.addr) THEN x
     ELSE IF ~y.ok \/ resolved = None THEN y
     ELSE IF ~z.ok THEN [z EXCEPT !.req[t].addr = resolved]
     ELSE [z EXCEPT !.req[t].bid = z.tab[resolved], !.req[t].addr = resolved]

reconcile_requests(x) ==
  IF loader_state_is_consistent THEN FoldSet(reconcile_request, x, Target) ELSE x

is_internal_stop(x, a) == a \in {x.baddr, x.laddr}

handle_internal_stop(x, a) ==
  IF a = x.baddr
  THEN LET y == try_install_loader_breakpoint(WithoutBootstrap(x)) IN
       IF ~y.ok THEN y ELSE reconcile_requests(y)
  ELSE reconcile_requests(x)

\* add_target for a target that does not resolve now.  When the monitoring
\* breakpoint cannot be inserted the request is taken back.
add_target(x, t) ==
  LET y == [x EXCEPT !.ctl = TRUE, !.req[t] = [NoRequest EXCEPT !.on = TRUE]]
      z == ensure_monitoring(y)
  IN IF z.ok THEN z ELSE [z EXCEPT !.req[t] = NoRequest]

\* DeferredBreakpoints::remove with stop_monitoring_if_idle.
remove_target(x, t) ==
  LET y == IF x.req[t].bid = None THEN x ELSE remove_breakpoint(x, x.req[t].bid)
      z == [y EXCEPT !.req[t] = NoRequest]
  IN IF ~y.ok THEN y ELSE IF Requests(z) = {} THEN suspend_monitoring(z) ELSE z

-----------------------------------------------------------------------------
(* UserBreakpointRegistry: the commands break and delete.                  *)

Idle == call = "idle"
Reset(x) == [x EXCEPT !.ok = TRUE]

add_address(a) ==
  LET y == add_breakpoint(s, a) IN
  /\ Idle /\ Mapped(a) /\ (a \in Base => "managed" \in Faults)
  /\ IF y.ok THEN s' = y /\ entries' = [entries EXCEPT !.managed = @ \cup {y.tab[a]}]
     ELSE UNCHANGED <<s, entries>>
  /\ UNCHANGED <<pc, at, loaded, origin, call>>

\* add_symbol and add_source: a target that resolves becomes a managed entry.
add_name(t) ==
  LET y == add_target(s, t) IN
  /\ Idle /\ pc # "gone"
  /\ IF resolve_target(t) # None THEN add_address(resolve_target(t))
     ELSE /\ ~s.req[t].on
          /\ s' = Reset(y)
          /\ entries' = IF y.ok THEN [entries EXCEPT !.deferred = @ \cup {t}] ELSE entries
          /\ UNCHANGED <<pc, at, loaded, origin, call>>

\* An exception of `delete' ends the session.
remove(kind, ref) ==
  LET y == IF kind = "managed" THEN remove_breakpoint(s, ref) ELSE remove_target(s, ref) IN
  /\ Idle /\ ref \in entries[kind]
  /\ s' = Reset(y)
  /\ IF y.ok THEN entries' = [entries EXCEPT ![kind] = @ \ {ref}] /\ UNCHANGED call
     ELSE call' = "threw" /\ UNCHANGED entries
  /\ UNCHANGED <<pc, at, loaded, origin>>

has_pending == \E t \in Requests(s) : s.req[t].bid = None

\* UserBreakpointRegistry::continue_execution.
continue_execution ==
  LET y == IF s.ctl THEN ensure_monitoring(s) ELSE s IN
  /\ Idle /\ s' = Reset(y)
  /\ call' = IF ~y.ok THEN "threw" ELSE IF s.ctl THEN "deferred" ELSE "continue"
  /\ UNCHANGED <<pc, at, loaded, origin, entries>>

\* snapshot finds no breakpoint, or no request, for one of the entries.
Disappeared ==
  \/ \E id \in entries.managed : At(s, id) = {}
  \/ \E t \in entries.deferred : ~s.req[t].on \/ (s.req[t].bid # None /\ At(s, s.req[t].bid) = {})

\* next and finish run the debugger directly, and are refused while a request
\* is pending.  Nobody catches what has_pending and `info breakpoints' throw.
motion ==
  /\ Idle
  /\ \/ ~has_pending /\ ~Disappeared /\ call' = "motion"
     \/ Disappeared /\ call' = "threw"
  /\ UNCHANGED <<pc, at, loaded, origin, s, entries>>

-----------------------------------------------------------------------------
(* The program, and the debugger's answer to what it does.                 *)

Running == call \in {"continue", "deferred", "motion"}
Here == IF pc = "entry" THEN Entry ELSE IF pc = "func" THEN at ELSE IF pc = "lib" THEN loaded
        ELSE IF pc \in {"add", "added", "del", "deleted"} THEN RBrk ELSE None

\* DeferredBreakpoints::continue_execution and its callers at a stop that they
\* return.
Returned(x) == IF call = "deferred" THEN suspend_monitoring(x) ELSE x

\* The INT3 at the program's position is executed.
Hit ==
  LET a == Here
      x == [s EXCEPT !.mem = @ \ {a}, !.pend = a]
      inner == call = "deferred" /\ is_internal_stop(x, a)
      y == IF inner THEN handle_internal_stop(x, a) ELSE Returned(x)
  IN /\ Running /\ a \in s.mem /\ s.tab[a] # None
     /\ s' = Reset(y)
     /\ call' = IF ~inner THEN "idle" ELSE IF y.ok THEN call ELSE "threw"
     /\ UNCHANGED <<pc, at, loaded, origin, entries>>

\* The program goes on to position p, function f and library mapping m.
MoveTo(p, f, m) ==
  /\ Running /\ Here \notin s.mem
  /\ call = "motion" /\ m # loaded => "blind" \in Faults
  /\ pc' = p /\ at' = f /\ loaded' = m
  /\ s' = LET x == Reinserted(s) IN IF m = loaded THEN x ELSE [x EXCEPT !.mem = @ \ Base]
  /\ UNCHANGED <<origin, entries, call>>

LoaderReady == pc = "ld" /\ MoveTo("entry", None, None)
Runs == pc \in {"entry", "func", "lib", "added", "deleted"} /\ MoveTo("run", None, loaded)
CallFunc(f) == pc = "run" /\ MoveTo("func", f, loaded)
CallLib == pc = "run" /\ loaded # None /\ MoveTo("lib", None, loaded)
\* dlopen and dlclose announce the change at r_brk before and after they make it.
DlOpen == pc = "run" /\ loaded = None /\ MoveTo("add", None, loaded)
DlClose == pc = "run" /\ loaded # None /\ MoveTo("del", None, loaded)
Map(b) == pc = "add" /\ MoveTo("added", None, b)
Unmap == pc = "del" /\ MoveTo("deleted", None, None)

\* A signal, a watchpoint, or the end of next or finish stops the program.
Interrupt ==
  /\ Running /\ (pc \in {"added", "deleted"} => "window" \in Faults)
  /\ s' = Returned(Reinserted(s)) /\ call' = "idle"
  /\ UNCHANGED <<pc, at, loaded, origin, entries>>

\* Mutant: the user's entries survive.
on_image_replaced_entries == entries

\* The entries after the image has been replaced.
on_image_replaced == NoEntries

\* What is left when the exec made a motion throw: its temporary breakpoint
\* was in the discarded table, remove_temporary_breakpoint does not find it,
\* and refresh_image is not reached.
NotRefreshed(other) == [s EXCEPT !.tab = Start.tab, !.mem = {}, !.pend = None, !.other = other]

\* A new image, of the same file or another: the debugger discards its table,
\* and refresh_image clears the registry's domain.
Exec ==
  /\ Running /\ pc = "run" /\ pc' = "ld" /\ loaded' = None /\ call' = "idle"
  /\ \/ s' = Start /\ entries' = on_image_replaced
     \/ /\ call = "motion" /\ "exec_in_motion" \in Faults
        /\ \E other \in BOOLEAN : s' = NotRefreshed(other)
        /\ UNCHANGED entries
  /\ UNCHANGED <<at, origin>>

Exit ==
  /\ Running /\ pc = "run" /\ pc' = "gone" /\ call' = "gone"
  /\ UNCHANGED <<at, loaded, origin, s, entries>>

-----------------------------------------------------------------------------
(* The end of the session.                                                 *)

\* restore_all_breakpoints stops at the first address it cannot write.
Restorable(x) ==
  {a \in x.mem : \A b \in Addr : b <= a /\ x.tab[b] # None /\ x.pend # b => Mapped(b)}

\* Mutant: the breakpoints of user entries only.
RestoredBytes_user(x) == {a \in Restorable(x) : x.tab[a] \in entries.managed}

\* The addresses where detach, or ~Debugger after ~UserBreakpointRegistry,
\* writes the original byte of an attached process.
RestoredBytes(x) == Restorable(x)

detach ==
  LET x == IF call = "threw" THEN suspend_monitoring(s) ELSE s IN
  /\ call \in {"idle", "threw"} /\ origin = "Attached"
  /\ s' = [Start EXCEPT !.mem = x.mem \ RestoredBytes(x)]
  /\ entries' = NoEntries /\ call' = "released"
  /\ UNCHANGED <<pc, at, loaded, origin>>

quit ==
  /\ call \in {"idle", "threw"} /\ origin = "Launched" /\ pc' = "gone" /\ call' = "gone"
  /\ UNCHANGED <<at, loaded, origin, s, entries>>

Next ==
  \/ \E a \in env.users : add_address(a)
  \/ \E t \in Target : add_name(t)
  \/ \E kind \in {"managed", "deferred"} : \E ref \in entries[kind] : remove(kind, ref)
  \/ continue_execution \/ motion \/ Hit \/ Interrupt
  \/ LoaderReady \/ Runs \/ CallLib \/ DlOpen \/ DlClose \/ Unmap
  \/ \E f \in Func : CallFunc(f)
  \/ \E b \in Base : Map(b)
  \/ Exec \/ Exit \/ detach \/ quit

Spec == Init /\ [][Next /\ UNCHANGED env]_<<vars, env>>

-----------------------------------------------------------------------------
(* Properties.                                                             *)

Live == call \notin {"threw", "released", "gone"}

\* The breakpoints in the table are the ones the user's entries, the resolved
\* requests and the loader monitoring hold, each exactly one: no backend is
\* lost (info breakpoints would throw) and none leaks.  After an exec under
\* next or finish that throws, the entries outlive the table.
EntriesBacked ==
  Live /\ "exec_in_motion" \notin Faults =>
    LET held == entries.managed \cup {s.req[t].bid : t \in Requests(s)} \cup {s.lid, s.bid}
    IN /\ held \cup {None} = {s.tab[a] : a \in Addr} \cup {None}
       /\ entries.deferred = Requests(s)
       /\ \A t \in Requests(s) : s.req[t].bid # None => s.tab[s.req[t].addr] = s.req[t].bid

\* While `continue' runs with requests, the loader's changes are followed: once
\* the loader is consistent and has passed r_brk, a request is in memory where
\* its target is now, and is pending when the library is gone.
RequestsFollow ==
  Faults = {} /\ call = "deferred" /\ pc \in {"run", "func", "lib"} =>
    \A t \in Requests(s) :
      IF resolve_target(t) = None THEN s.req[t].bid = None
      ELSE /\ s.req[t].addr = loaded /\ s.tab[loaded] = s.req[t].bid
           /\ loaded \in s.mem \/ s.pend = loaded

\* A program that is released runs without INT3s, also after an exception ended
\* the session, as when two requests turn out to be one function.
SafeDetach == Faults = {} /\ call = "released" => s.mem = {}

=============================================================================
