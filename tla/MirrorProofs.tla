---------------------------- MODULE MirrorProofs ----------------------------
(***************************************************************************)
(* No update of the mirror is forgotten, unless the script was cut short   *)
(* when it was closed, and none kills gor twice, for any commands and any  *)
(* number of faults of every kind.                                         *)
(***************************************************************************)
EXTENDS Mirror, TLAPS

\* While gor may be killed the script is the one wanted, unless the error of closing
\* it was swallowed; outside of an update either another one is signaled, or what a
\* gor is launched with is wanted.
InSync ==
  /\ pc = "setup" => needsUpdate /\ gor = "down"
  /\ pc = "kill" => script = wanted \/ closeFailed
  /\ pc \in {"write", "kill"} => ~needsUpdate
  /\ NothingForgotten

\* After a kill nothing is left to do until the next signal.
KillInv ==
  /\ kills \in {0, 1}
  /\ kills = 1 => pc = "idle" /\ ~needsUpdate

MirrorInv == TypeOK /\ InSync /\ KillInv

LEMMA MirrorInit == Init => MirrorInv
<1> SUFFICES ASSUME Init PROVE MirrorInv
  OBVIOUS
<1>1. faults \in 0 .. MaxFaults /\ kills \in Nat /\ kills \in {0, 1}
  BY MirrorAssumption DEF Init
<1>2. TypeOK
  BY <1>1, MirrorAssumption DEF Init, TypeOK
<1>3. InSync /\ KillInv
  BY <1>1 DEF Init, InSync, KillInv, NothingForgotten
<1> QED
  BY <1>2, <1>3 DEF MirrorInv

\* A fault counts, within the bound.
LEMMA HappensTyped ==
  ASSUME TypeOK, NEW kind, Happens(kind)
  PROVE  faults' \in 0 .. MaxFaults
  BY MirrorAssumption DEF TypeOK, Happens

LEMMA MirrorStep == MirrorInv /\ [Next]_vars => MirrorInv'
<1> SUFFICES ASSUME MirrorInv, [Next]_vars PROVE MirrorInv'
  OBVIOUS
<1> USE MirrorAssumption
<1> USE DEF MirrorInv, TypeOK, InSync, KillInv, NothingForgotten, updater, file, process
<1>1. ASSUME NEW c \in Commands, Signal(c) PROVE MirrorInv'
  BY <1>1 DEF Signal
<1>2. CASE GorLaunched
  BY <1>2 DEF GorLaunched
<1>3. CASE GorRuns
  BY <1>3 DEF GorRuns
<1>4. CASE GorDies
  BY <1>4, HappensTyped DEF GorDies
<1>5. CASE SetUp
  <2>1. faults' \in 0 .. MaxFaults
    BY <1>5, HappensTyped DEF SetUp
  <2>2. script' \in Commands \cup {NoFile, Truncated}
    BY <1>5 DEF SetUp
  <2> QED
    BY <1>5, <2>1, <2>2 DEF SetUp
<1>6. CASE BeginUpdate
  <2>1. faults' \in 0 .. MaxFaults
    BY <1>6, HappensTyped DEF BeginUpdate
  <2>2. kills = 0
    BY <1>6 DEF BeginUpdate, Due
  <2> QED
    BY <1>6, <2>1, <2>2 DEF BeginUpdate, Due, Fail
<1>7. CASE WriteCommand
  <2>1. faults' \in 0 .. MaxFaults
    BY <1>7, HappensTyped DEF WriteCommand
  <2>2. kills = 0
    BY <1>7 DEF WriteCommand
  <2>3. CASE /\ pc' = "kill" /\ UNCHANGED <<needsUpdate, scheduled>>
             /\ \/ script' = wanted /\ UNCHANGED closeFailed
                \/ closeFailed' = TRUE /\ UNCHANGED script
    BY <1>7, <2>1, <2>2, <2>3 DEF WriteCommand
  <2>4. CASE Fail /\ UNCHANGED file
    BY <1>7, <2>1, <2>2, <2>4 DEF WriteCommand, Fail
  <2> QED
    BY <1>7, <2>3, <2>4 DEF WriteCommand
<1>8. CASE KillRunning
  <2>1. faults' \in 0 .. MaxFaults
    BY <1>8, HappensTyped DEF KillRunning
  <2>2. kills = 0
    BY <1>8 DEF KillRunning
  <2>3. CASE /\ gor' = "down" /\ kills' = kills + 1 /\ pc' = "idle" /\ scheduled' = TRUE
             /\ UNCHANGED <<needsUpdate, faults>>
    BY <1>8, <2>2, <2>3 DEF KillRunning
  <2>4. CASE Fail /\ UNCHANGED <<gor, kills>>
    BY <1>8, <2>1, <2>2, <2>4 DEF KillRunning, Fail
  <2> QED
    BY <1>8, <2>3, <2>4 DEF KillRunning
<1>9. CASE Crash
  BY <1>9, HappensTyped DEF Crash
<1>10. CASE UNCHANGED vars
  BY <1>10 DEF vars
<1> QED
  BY <1>1, <1>2, <1>3, <1>4, <1>5, <1>6, <1>7, <1>8, <1>9, <1>10 DEF Next

\* The inductive invariant holds in every reachable state.
THEOREM MirrorInvariant == Spec => []MirrorInv
  BY MirrorInit, MirrorStep, PTL DEF Spec

\* Between updates with none signaled, the script and every gor that runs or is
\* about to are what the source wants, unless the last write of the script was cut
\* short by an error of close, which mirror.py _update_command swallows.
THEOREM NoUpdateForgotten == Spec => []NothingForgotten
<1>1. MirrorInv => NothingForgotten
  BY DEF MirrorInv, InSync
<1> QED
  BY <1>1, MirrorInvariant, PTL

\* A change of the source costs gor at most one kill, for any number of attempts.
THEOREM OneKill == Spec => []OneKillPerChange
<1>1. MirrorInv => OneKillPerChange
  BY DEF MirrorInv, KillInv, OneKillPerChange
<1> QED
  BY <1>1, MirrorInvariant, PTL
=============================================================================
