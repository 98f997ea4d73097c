-------------------------- MODULE CliSessionProofs --------------------------
(***************************************************************************)
(* What the command loop shows, for any number of processes, threads and   *)
(* images and whatever may happen in a session.                            *)
(*                                                                         *)
(* A printed value is true because a selected frame is: every command that *)
(* changes the debuggee or the selection also drops the frame.  The        *)
(* ElfFile follows the selected process because the one selected at the    *)
(* prompt is a live one, whose image a fork does not overwrite.            *)
(***************************************************************************)
EXTENDS CliSession, TLAPS, WellFoundedInduction

\* A selected frame was computed from the machine as it is.
FrameTrue == "partial_write" \notin events => \A f \in frame : f.view = View

ValueInv == FrameTrue /\ ValueTrue

\* The selection at the prompt is a live process.
Selection ==
  /\ live \subseteq Pid /\ pid \in Pid /\ image \in [Pid -> Image]
  /\ session = "prompt" => pid \in live

-----------------------------------------------------------------------------
(* Values.                                                                 *)

\* A word that a command prints is computed from nothing.
LEMMA SaidFrom == \A word : Said(word).from = {}
BY DEF Said

\* No command shows a stale value or leaves a stale frame selected.
LEMMA ValueStep ==
  ASSUME ValueInv, [Next /\ UNCHANGED events]_<<vars, events>>
  PROVE  ValueInv'
<1>1. events' = events
  OBVIOUS
<1>2. ASSUME UNCHANGED dbg PROVE View' = View
  BY <1>2 DEF dbg, View
<1>3. ASSUME frame' = {}, answer'.from = {} PROVE ValueInv'
  BY <1>3 DEF ValueInv, FrameTrue, ValueTrue
<1>4. ASSUME UNCHANGED <<dbg, frame>>, answer' = answer \/ answer'.from = {} PROVE ValueInv'
  BY <1>1, <1>2, <1>4, Zenon DEF ValueInv, FrameTrue, ValueTrue
<1>5. CASE UNCHANGED <<vars, events>>
  BY <1>4, <1>5 DEF vars
<1>6. ASSUME Throws \/ Fails PROVE ValueInv'
  BY <1>4, <1>6, SaidFrom, Zenon DEF Throws, Fails
<1>7. ASSUME ReportStop PROVE ValueInv'
  <2>1. frame' = {} /\ \E word : answer' = Said(word)
    BY <1>7 DEF ReportStop
  <2>. QED
    BY <1>3, <2>1, SaidFrom
<1>8. CASE Continue \/ StepI
  BY <1>3, <1>6, <1>7, <1>8, SaidFrom, Zenon DEF Continue, StepI
<1>9. CASE Rejected
  BY <1>4, <1>9, SaidFrom, Zenon DEF Rejected
<1>10. CASE SourceMotion
  <2>1. frame' = {} /\ \E word : answer' = Said(word)
    BY <1>10 DEF SourceMotion
  <2>. QED
    BY <1>3, <2>1, SaidFrom
<1>11. CASE SelectFrame
  <2>1. CASE Fails
    BY <1>6, <2>1
  <2>2. ASSUME NEW i \in {0, 1}, frame' = {[index |-> i, seq |-> seq, view |-> View]},
               answer' = Said("ok"), UNCHANGED dbg
        PROVE  ValueInv'
    <3>1. \A f \in frame' : f.view = View'
      BY <1>2, <2>2
    <3>. QED
      BY <2>2, <3>1, SaidFrom DEF ValueInv, FrameTrue, ValueTrue
  <2>. QED
    BY <1>11, <2>1, <2>2 DEF SelectFrame
<1>12. CASE SourceValue \/ MemberValue
  <2>1. CASE Fails
    BY <1>6, <2>1
  <2>2. CASE Shown
    <3>1. View' = View /\ frame' = frame
      BY <1>2, <2>2 DEF Shown
    <3>2. answer'.from = IF frame = {} THEN {View} ELSE {ReadThrough(f) : f \in frame}
      BY <2>2 DEF Shown
    <3>3. FrameTrue'
      BY <1>1, <3>1, Zenon DEF ValueInv, FrameTrue
    <3>4. ASSUME "partial_write" \notin events, NEW v \in answer'.from PROVE v = View
      <4>1. \A f \in frame : ReadThrough(f) = View
        BY <3>4 DEF ValueInv, FrameTrue, ReadThrough
      <4>. QED
        BY <3>2, <3>4, <4>1
    <3>5. ValueTrue'
      BY <1>1, <3>1, <3>4, Zenon DEF ValueTrue
    <3>. QED
      BY <3>3, <3>5 DEF ValueInv
  <2>. QED
    BY <1>12, <2>1, <2>2 DEF SourceValue, MemberValue
<1>13. CASE Query
  BY <1>4, <1>6, <1>13, SaidFrom, Zenon DEF Query
<1>14. CASE SetRegister \/ SelectThread
  BY <1>3, <1>14, SaidFrom, Zenon DEF SetRegister, SelectThread
<1>15. CASE SetMemory
  <2>1. \/ frame' = {} /\ answer' = Said("ok")
        \/ "partial_write" \in events
    BY <1>15 DEF SetMemory
  <2>. QED
    BY <1>1, <1>3, <2>1, SaidFrom DEF ValueInv, FrameTrue, ValueTrue
<1>16. CASE SelectProcess
  <2>1. frame' = {} /\ \E word : answer' = Said(word)
    BY <1>16 DEF SelectProcess
  <2>. QED
    BY <1>3, <2>1, SaidFrom
<1>17. CASE Break \/ Delete \/ SetPolicy \/ Quit
  <2>1. CASE Throws
    BY <1>6, <2>1
  <2>2. CASE UNCHANGED <<dbg, frame>> /\ answer' \in {Said("ok"), Said("failed")}
    BY <1>4, <2>2, SaidFrom
  <2>. QED
    BY <1>17, <2>1, <2>2 DEF Break, Delete, SetPolicy, Quit
<1>. QED
  BY <1>5, <1>8, <1>9, <1>10, <1>11, <1>12, <1>13, <1>14, <1>15, <1>16, <1>17 DEF Next

\* Whatever the user selects, steps, sets or switches to, a value that print,
\* locals or deref shows was computed from the registers and the memory of
\* the selected thread as they are, unless a set memory failed half way.
THEOREM ValuesAreCurrent == Spec => []ValueTrue
<1>1. Init => ValueInv
  BY SaidFrom DEF Init, ValueInv, FrameTrue, ValueTrue
<1>2. ValueInv /\ [Next /\ UNCHANGED events]_<<vars, events>> => ValueInv'
  BY ValueStep
<1>3. ValueInv => ValueTrue
  BY DEF ValueInv
<1>. QED
  BY <1>1, <1>2, <1>3, PTL DEF Spec

-----------------------------------------------------------------------------
(* Images.                                                                 *)

ElfInv == Selection /\ ImageTrue

\* The process selected when another ends is one that is left.
LEMMA LowestIsLive ==
  ASSUME NEW S \in SUBSET Pid, S # {}
  PROVE  Min(S) \in S
<1>1. \E x \in S : \A y \in S : <<y, x>> \notin OpToRel(<, Nat)
  BY CliAssumption, NatLessThanWellFounded, WFMin, Zenon
<1>2. \A x, y \in Nat : <<y, x>> \notin OpToRel(<, Nat) => x <= y
  BY SMT DEF OpToRel
<1>. QED BY <1>1, <1>2, CliAssumption, Zenon DEF Min

\* What each kind of stop does to the selection and the images.
LEMMA StopSelection ==
  ASSUME Selection, Prompt
  PROVE  /\ StopPlain => UNCHANGED <<live, pid, image>>
         /\ StopFork => pid' = pid /\ pid \in live' /\ live' \subseteq Pid
                        /\ image' \in [Pid -> Image] /\ image'[pid] = image[pid]
         /\ StopExec => UNCHANGED <<live, pid>> /\ image' \in [Pid -> Image]
         /\ StopExit => live' \subseteq Pid /\ pid' \in Pid /\ image' = image
                        /\ (live' # {} => pid' \in live')
<1>0. pid \in live /\ live \subseteq Pid /\ pid \in Pid /\ image \in [Pid -> Image]
  BY DEF Selection, Prompt
<1>1. ASSUME StopFork
      PROVE  /\ pid' = pid /\ pid \in live' /\ live' \subseteq Pid
             /\ image' \in [Pid -> Image] /\ image'[pid] = image[pid]
  <2>1. PICK child \in Pid \ live : /\ live' = live \cup {child}
                                     /\ image' = [image EXCEPT ![child] = image[pid]]
    BY <1>1 DEF StopFork
  <2>. QED
    BY <1>0, <1>1, <2>1 DEF StopFork
<1>2. ASSUME StopExit
      PROVE  live' \subseteq Pid /\ pid' \in Pid /\ image' = image /\ (live' # {} => pid' \in live')
  <2>1. live' \subseteq Pid /\ image' = image
    BY <1>0, <1>2 DEF StopExit
  <2>2. CASE live' = {}
    BY <1>0, <1>2, <2>1, <2>2 DEF StopExit
  <2>3. CASE live' # {}
    BY <1>2, <2>1, <2>3, LowestIsLive DEF StopExit
  <2>. QED
    BY <2>1, <2>2, <2>3
<1>3. StopExec => UNCHANGED <<live, pid>> /\ image' \in [Pid -> Image]
  BY <1>0 DEF StopExec
<1>. QED
  BY <1>1, <1>2, <1>3 DEF StopPlain

\* Every way to come back to the prompt leaves the ElfFile with the selected
\* process.
LEMMA ElfStep ==
  ASSUME ElfInv, [Next /\ UNCHANGED events]_<<vars, events>>
  PROVE  ElfInv'
<1>. DEFINE Plain == events \cap {"motion_exec", "bad_exec_elf", "bad_process_elf", "exit"} = {}
<1>1. events' = events
  OBVIOUS
<1>2. Selection /\ (Plain /\ Prompt => elf = image[pid])
  BY DEF ElfInv, ImageTrue, Prompt
<1>3. Plain => /\ "motion_exec" \notin events /\ "bad_exec_elf" \notin events
               /\ "bad_process_elf" \notin events /\ "exit" \notin events
  BY DEF Plain
<1>4. ASSUME live' \subseteq Pid, pid' \in Pid, image' \in [Pid -> Image],
             Prompt' => pid' \in live', Plain /\ Prompt' => elf' = image'[pid']
      PROVE  ElfInv'
  BY <1>1, <1>4 DEF ElfInv, Selection, ImageTrue, Prompt
<1>. HIDE DEF Plain
<1>5. ASSUME UNCHANGED <<live, pid, image, elf>>, Prompt' => Prompt PROVE ElfInv'
  BY <1>2, <1>4, <1>5 DEF Selection, Prompt
<1>6. CASE UNCHANGED <<vars, events>>
  BY <1>5, <1>6 DEF vars, dbg, Prompt
<1>7. ASSUME Prompt, StopPlain \/ StopFork \/ StopExit, Loop("prompt"), UNCHANGED elf PROVE ElfInv'
  <2>1. live' = {} => ~Prompt'
    BY <1>7 DEF Loop, Prompt
  <2>2. CASE StopPlain
    BY <1>5, <1>7, <2>2, StopSelection DEF Selection, Prompt, ElfInv
  <2>3. CASE StopFork
    BY <1>2, <1>4, <1>7, <2>3, StopSelection
  <2>4. CASE StopExit
    <3>1. "exit" \in events
      BY <2>4 DEF StopExit
    <3>. QED
      BY <1>2, <1>3, <1>4, <1>7, <2>1, <2>4, <3>1, StopSelection DEF Selection
  <2>. QED
    BY <1>7, <2>2, <2>3, <2>4
<1>8. ASSUME Prompt, StopExec, NEW ok \in BOOLEAN, RefreshImage(ok) PROVE ElfInv'
  <2>1. UNCHANGED <<live, pid>> /\ image' \in [Pid -> Image]
    BY <1>2, <1>8, StopSelection
  <2>2. Plain => elf' = image'[pid']
    BY <1>3, <1>8, <2>1 DEF RefreshImage
  <2>. QED
    BY <1>2, <1>4, <1>8, <2>1, <2>2 DEF Selection, Prompt
<1>9. ASSUME Prompt, ReportStop \/ Throws PROVE ElfInv'
  <2>1. CASE Throws
    BY <1>5, <1>9, <2>1 DEF Throws, dbg
  <2>2. CASE ReportStop
    BY <1>7, <1>8, <1>9, <2>2 DEF ReportStop
  <2>. QED
    BY <1>9, <2>1, <2>2
<1>10. CASE Continue \/ StepI
  <2>1. CASE Prompt /\ StopPlain /\ UNCHANGED elf
    BY <1>2, <1>5, <2>1, StopSelection
  <2>. QED
    BY <1>9, <1>10, <2>1 DEF Continue, StepI
<1>11. CASE SourceMotion
  <2>1. CASE "motion_exec" \in events /\ StopExec /\ UNCHANGED elf
    <3>1. Prompt /\ ~Plain
      BY <1>3, <1>11, <2>1 DEF SourceMotion
    <3>. QED
      BY <1>2, <1>4, <2>1, <3>1, StopSelection DEF Selection, Prompt
  <2>2. CASE UNCHANGED <<dbg, elf>>
    BY <1>5, <1>11, <2>2 DEF SourceMotion, dbg
  <2>. QED
    BY <1>7, <1>8, <1>11, <2>1, <2>2 DEF SourceMotion
<1>12. CASE SelectProcess
  <2>1. PICK p \in live \ {pid} : pid' = p
    BY <1>12 DEF SelectProcess
  <2>2. UNCHANGED <<live, image>> /\ (Plain => elf' = image[pid'])
    BY <1>3, <1>12 DEF SelectProcess
  <2>. QED
    BY <1>2, <1>4, <2>1, <2>2 DEF Selection
<1>13. CASE \/ Rejected \/ SelectFrame \/ SourceValue \/ MemberValue \/ Query \/ SetRegister
            \/ SetMemory \/ SelectThread \/ Break \/ Delete \/ SetPolicy \/ Quit
  <2>1. UNCHANGED <<live, pid, image, elf>> /\ Prompt
    BY <1>13 DEF Rejected, SelectFrame, SourceValue, MemberValue, Shown, Fails, Query, Throws, SetRegister,
      SetMemory, SelectThread, Break, Delete, SetPolicy, Quit, dbg
  <2>. QED
    BY <1>5, <2>1
<1>. QED
  BY <1>6, <1>10, <1>11, <1>12, <1>13 DEF Next

\* Whatever forks, execs and selections a session makes, at the prompt the
\* ElfFile that names are resolved with is the executable of the selected
\* process; the exceptions are the ones ImageTrue names.
THEOREM ElfFollowsProcess == Spec => []ImageTrue
<1>1. Init => ElfInv
  <2>. SUFFICES ASSUME Init PROVE ElfInv
    OBVIOUS
  <2>1. Root \in Pid
    BY CliAssumption, LowestIsLive DEF Root
  <2>. QED
    BY <2>1 DEF Init, ElfInv, Selection, ImageTrue
<1>2. ElfInv /\ [Next /\ UNCHANGED events]_<<vars, events>> => ElfInv'
  BY ElfStep
<1>3. ElfInv => ImageTrue
  BY DEF ElfInv
<1>. QED
  BY <1>1, <1>2, <1>3, PTL DEF Spec
=============================================================================
