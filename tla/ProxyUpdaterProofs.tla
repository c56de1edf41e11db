------------------------- MODULE ProxyUpdaterProofs -------------------------
(***************************************************************************)
(* No update is forgotten, for any configurations and any number of failed *)
(* writes, refused restarts and deaths and starts of nginx at any step of  *)
(* an update, as long as no fault that is not tolerable has happened; and  *)
(* one fault of any kind leaves a complete file.                           *)
(***************************************************************************)
EXTENDS ProxyUpdater, TLAPS

\* Between updates the file is complete, and says what is wanted unless another
\* update is signaled; within one the backup is the file it found.  nginx works
\* with the file between updates, and with the one found within one, unless it has
\* a SIGHUP to act on or looked at the file in the middle of a failed update.
InSync ==
  /\ isSetUp /\ pc = "idle" => disk \in Configs
  /\ isSetUp /\ pc # "idle" => before \in Configs /\ backup = before
  /\ ~isSetUp => before = NoFile /\ (pc = "idle" => disk = NoFile)
  /\ ~isSetUp => needsUpdate /\ ~up /\ pc # "revert"
  /\ pc = "restart" => disk = wanted
  /\ pc = "idle" /\ ~needsUpdate => disk = wanted
  /\ hup => up
  /\ up /\ ~hup /\ ~midway => loaded = IF pc = "idle" THEN disk ELSE before

UpdateInv == Tolerable => InSync

\* A fault counts, within the bound, and is of a known kind.
LEMMA FaultCount ==
  ASSUME NEW kind, Happens(kind), TypeOK
  PROVE  faults' \in 0 .. MaxFaults /\ seen' \in SUBSET FaultKinds
BY ProxyUpdaterAssumption DEF Happens, TypeOK

\* The faults that happened before were tolerable if all of them are.
LEMMA TolerableBefore ==
  ASSUME NEW kind, Happens(kind), Tolerable'
  PROVE  Tolerable /\ kind \notin {"render", "backup", "revert", "setup", "crash"}
BY DEF Happens, Tolerable

-----------------------------------------------------------------------------
LEMMA TypeInit == ASSUME Init PROVE TypeOK
<1>1. faults \in 0 .. MaxFaults
  BY ProxyUpdaterAssumption DEF Init
<1> QED
  BY <1>1 DEF Init, TypeOK, File

LEMMA TypeStep == ASSUME TypeOK, [Next]_vars PROVE TypeOK'
<1> USE DEF runVars, files, nginxVars, faultVars
<1>1. ASSUME NEW c \in Configs, Signal(c) PROVE TypeOK'
  BY <1>1 DEF Signal, TypeOK
<1>2. CASE Elapse
  BY <1>2 DEF Elapse, TypeOK
<1>3. CASE NginxStarts
  BY <1>3 DEF NginxStarts, TypeOK
<1>4. CASE NginxDies
  BY <1>4, FaultCount DEF NginxDies, TypeOK
<1>5. CASE NginxReloads
  BY <1>5 DEF NginxReloads, TypeOK
<1>6. CASE BeginUpdate
  <2>1. faults' \in 0 .. MaxFaults /\ seen' \in SUBSET FaultKinds
    BY <1>6, FaultCount DEF BeginUpdate, TypeOK
  <2>2. disk' \in File /\ backup' \in File
    BY <1>6 DEF BeginUpdate, BackUp, TypeOK, File
  <2> QED
    BY <1>6, <2>1, <2>2 DEF BeginUpdate, Finish, TypeOK, File
<1>7. CASE OpenFile
  <2>1. faults' \in 0 .. MaxFaults /\ seen' \in SUBSET FaultKinds
    BY <1>7, FaultCount DEF OpenFile, FileFault, TypeOK
  <2> QED
    BY <1>7, <2>1 DEF OpenFile, Goto, TypeOK, File
<1>8. CASE WriteFile
  <2>1. faults' \in 0 .. MaxFaults /\ seen' \in SUBSET FaultKinds
    BY <1>8, FaultCount DEF WriteFile, FileFault, TypeOK
  <2> QED
    BY <1>8, <2>1 DEF WriteFile, Goto, TypeOK, File
<1>9. CASE Restart
  <2>1. faults' \in 0 .. MaxFaults /\ seen' \in SUBSET FaultKinds
    BY <1>9, FaultCount DEF Restart, TypeOK
  <2> QED
    BY <1>9, <2>1 DEF Restart, Finish, Goto, TypeOK, File
<1>10. CASE Revert
  <2>1. faults' \in 0 .. MaxFaults /\ seen' \in SUBSET FaultKinds
    BY <1>10, FaultCount DEF Revert, TypeOK
  <2>2. disk' \in File /\ backup' \in File
    BY <1>10 DEF Revert, PutBack, TypeOK, File
  <2> QED
    BY <1>10, <2>1, <2>2 DEF Revert, Finish, TypeOK, File
<1>11. CASE UpdateRaises
  BY <1>11, FaultCount DEF UpdateRaises, TypeOK
<1>12. CASE Crash
  BY <1>12, FaultCount DEF Crash, TypeOK, File
<1>13. CASE UNCHANGED vars
  BY <1>13 DEF vars, TypeOK
<1> QED
  BY <1>1, <1>2, <1>3, <1>4, <1>5, <1>6, <1>7, <1>8, <1>9, <1>10, <1>11, <1>12, <1>13
  DEF Next, UpdateStep

\* Every variable of the updater, its files and nginx keeps its type.
THEOREM UpdaterTypeCorrect == Spec => []TypeOK
<1>1. Init => TypeOK
  BY TypeInit
<1>2. TypeOK /\ [Next]_vars => TypeOK'
  BY TypeStep
<1> QED
  BY <1>1, <1>2, PTL DEF Spec

-----------------------------------------------------------------------------
(* Tolerable faults.                                                       *)

LEMMA UpdateInvStep ==
  ASSUME TypeOK, UpdateInv, [Next]_vars PROVE UpdateInv'
<1> SUFFICES ASSUME Tolerable' PROVE InSync'
  BY DEF UpdateInv
<1> USE ProxyUpdaterAssumption DEF runVars, files, nginxVars, faultVars
<1>1. ASSUME NEW c \in Configs, Signal(c) PROVE InSync'
  BY <1>1 DEF Signal, UpdateInv, InSync, Tolerable
<1>2. CASE Elapse
  BY <1>2 DEF Elapse, UpdateInv, InSync, Tolerable
<1>3. CASE NginxStarts
  BY <1>3 DEF NginxStarts, UpdateInv, InSync, Tolerable
<1>4. CASE NginxDies
  BY <1>4, TolerableBefore DEF NginxDies, UpdateInv, InSync
<1>5. CASE NginxReloads
  BY <1>5 DEF NginxReloads, UpdateInv, InSync, Tolerable, TypeOK
<1>6. CASE BeginUpdate
  <2>1. Tolerable /\ UNCHANGED faultVars
    BY <1>6, TolerableBefore DEF BeginUpdate, Tolerable
  <2>2. InSync /\ wanted \in Configs
    BY <2>1 DEF UpdateInv, TypeOK
  <2>3. CASE ~MustWrite
    BY <1>6, <2>2, <2>3 DEF BeginUpdate, MustWrite, Finish, InSync
  <2>4. CASE MustWrite
    <3>1. BackUp /\ pc = "idle" /\ pc' = "open" /\ before' = disk /\ needsUpdate' = ~isSetUp
      BY <1>6, <2>4, TolerableBefore DEF BeginUpdate
    <3>2. UNCHANGED <<wanted, isSetUp, up, loaded, hup, midway>>
      BY <1>6, <2>4 DEF BeginUpdate, MustWrite
    <3>3. isSetUp => disk \in Configs /\ backup' = disk
      BY <2>2, <3>1 DEF BackUp, InSync
    <3> QED
      BY <2>2, <3>1, <3>2, <3>3 DEF InSync
  <2> QED
    BY <2>3, <2>4
<1>7. CASE OpenFile
  <2>1. Tolerable /\ (pc' = "revert" => isSetUp)
    BY <1>7, TolerableBefore DEF OpenFile, FileFault, Goto, Tolerable
  <2> QED
    BY <1>7, <2>1 DEF OpenFile, Goto, UpdateInv, InSync
<1>8. CASE WriteFile
  <2>1. Tolerable /\ (pc' = "revert" => isSetUp)
    BY <1>8, TolerableBefore DEF WriteFile, FileFault, Goto, Tolerable
  <2> QED
    BY <1>8, <2>1 DEF WriteFile, Goto, UpdateInv, InSync
<1>9. CASE Restart
  <2>1. Tolerable
    BY <1>9, TolerableBefore DEF Restart, Tolerable
  <2>2. InSync /\ wanted \in Configs
    BY <2>1 DEF UpdateInv, TypeOK
  <2>3. CASE (isSetUp => up) /\ hup' = isSetUp /\ midway' = FALSE /\ Finish
    BY <1>9, <2>2, <2>3 DEF Restart, Finish, InSync
  <2>4. CASE isSetUp /\ Goto("revert") /\ UNCHANGED <<hup, midway>>
    BY <1>9, <2>2, <2>4 DEF Restart, Goto, InSync
  <2> QED
    BY <1>9, <2>3, <2>4 DEF Restart
<1>10. CASE Revert
  <2>1. Tolerable /\ PutBack
    BY <1>10, TolerableBefore DEF Revert, Tolerable
  <2>2. InSync /\ isSetUp
    BY <1>10, <2>1 DEF Revert, UpdateInv, InSync
  <2> QED
    BY <1>10, <2>1, <2>2 DEF Revert, PutBack, Finish, InSync
<1>11. CASE UpdateRaises
  BY <1>11, TolerableBefore DEF UpdateRaises
<1>12. CASE Crash
  BY <1>12, TolerableBefore DEF Crash
<1>13. CASE UNCHANGED vars
  BY <1>13 DEF vars, UpdateInv, InSync, Tolerable
<1> QED
  BY <1>1, <1>2, <1>3, <1>4, <1>5, <1>6, <1>7, <1>8, <1>9, <1>10, <1>11, <1>12, <1>13
  DEF Next, UpdateStep

\* While no fault that is not tolerable has happened, the files and nginx are in step.
THEOREM UpdaterInvariant == Spec => []UpdateInv
<1>1. Init => UpdateInv
  BY DEF Init, UpdateInv, InSync
<1>2. TypeOK /\ UpdateInv /\ [Next]_vars => UpdateInv'
  BY UpdateInvStep
<1> QED
  BY <1>1, <1>2, UpdaterTypeCorrect, PTL DEF Spec

\* As long as rendering, moving files, the setup run and aurproxy itself have
\* not failed, no update is forgotten (proxy.py _try_update, backend.py
\* _update), whatever happened to writes, restarts and nginx at any step of one.
THEOREM NeverForgotten == Spec => []NothingForgotten
<1>1. UpdateInv => NothingForgotten
  BY DEF UpdateInv, InSync, NothingForgotten
<1> QED
  BY <1>1, UpdaterInvariant, PTL

\* An update that ends with all faults tolerable leaves the configuration file it
\* found or the one wanted (backend.py _update, _revert).
THEOREM FileAllOrNothing == Spec => AllOrNothing
<1> DEFINE Over == Tolerable' /\ pc # "idle" /\ pc' = "idle" /\ before \in Configs
                     => disk' \in {before, wanted}
<1>1. UpdateInv /\ [Next]_vars => [Over]_vars
  <2> SUFFICES ASSUME UpdateInv, Next, Tolerable', pc # "idle", pc' = "idle", before \in Configs
               PROVE  disk' \in {before, wanted}
    OBVIOUS
  <2> USE ProxyUpdaterAssumption DEF runVars, files, nginxVars, faultVars
  <2>1. CASE Restart
    <3>1. Tolerable
      BY <2>1, TolerableBefore DEF Restart, Tolerable
    <3> QED
      BY <2>1, <3>1 DEF Restart, UpdateInv, InSync
  <2>2. CASE Revert
    <3>1. Tolerable /\ PutBack
      BY <2>2, TolerableBefore DEF Revert, Tolerable
    <3> QED
      BY <2>2, <3>1 DEF Revert, PutBack, UpdateInv, InSync
  <2>3. CASE Crash
    BY <2>3, TolerableBefore DEF Crash
  <2>4. CASE ~(Restart \/ Revert \/ Crash)
    BY <2>4 DEF Next, UpdateStep, Signal, Elapse, NginxStarts, NginxDies, NginxReloads,
                BeginUpdate, UpdateRaises, OpenFile, WriteFile, Goto
  <2> QED
    BY <2>1, <2>2, <2>3, <2>4
<1> QED
  BY <1>1, UpdaterInvariant, PTL DEF Spec, AllOrNothing

-----------------------------------------------------------------------------
(* One fault.                                                              *)

\* The one fault hit the setup run, or aurproxy at any step.
Hurt == seen \cap {"setup", "crash"} # {}

\* Between updates the file is complete, and whenever one is taken back the file
\* or its backup.
OneFault ==
  /\ isSetUp /\ backup \in Configs \cup {NoFile}
  /\ pc \in {"idle", "restart"} => disk \in Configs
  /\ pc = "revert" => disk \in Configs \/ backup \in Configs

\* With nginx up an update only fails if nginx was started after the SIGHUP had
\* been refused for want of it.
OneCrash ==
  /\ pc = "idle" /\ up /\ ~midway => disk \in Configs \/ backup \in Configs
  /\ pc = "restart" => disk = wanted
  /\ pc = "revert" => ~up \/ midway

CopyInv ==
  /\ hup => up /\ ~midway
  /\ ~isSetUp => ~up
  /\ faults = 0 => /\ seen = {} /\ backup \in Configs \cup {NoFile}
                   /\ pc = "revert" => disk \in Configs
  /\ faults = 1 => IF Hurt THEN OneCrash ELSE OneFault

\* A fault that is the only one happens when there has been none.
LEMMA FirstFault ==
  ASSUME NEW kind, Happens(kind), TypeOK, CopyInv
  PROVE  /\ faults' # 0
         /\ faults' = 1 => /\ faults = 0 /\ seen = {}
                           /\ backup \in Configs \cup {NoFile}
                           /\ Hurt' <=> kind \in {"setup", "crash"}
<1>1. faults \in Nat /\ faults' = faults + 1 /\ seen' = seen \cup {kind}
  BY DEF Happens, TypeOK
<1> QED
  BY <1>1 DEF CopyInv, Hurt

\* Without a fault the files and nginx are in step.
LEMMA NoFault == ASSUME UpdateInv, seen = {} PROVE InSync
BY DEF UpdateInv, Tolerable

LEMMA CopyInvStep ==
  ASSUME TypeOK, UpdateInv, CopyInv, [Next]_vars PROVE CopyInv'
<1> USE ProxyUpdaterAssumption DEF runVars, files, nginxVars, faultVars
<1>0. wanted \in Configs
  BY DEF TypeOK
<1>1. ASSUME NEW c \in Configs, Signal(c) PROVE CopyInv'
  BY <1>1 DEF Signal, CopyInv, Hurt, OneFault, OneCrash
<1>2. CASE Elapse
  BY <1>2 DEF Elapse, CopyInv, Hurt, OneFault, OneCrash
<1>3. CASE NginxStarts
  <2>1. /\ isSetUp /\ disk \in Configs /\ ~hup' /\ (pc = "idle" \/ midway')
        /\ UNCHANGED <<isSetUp, pc, disk, backup, wanted, faults, seen>>
    BY <1>3 DEF NginxStarts
  <2> QED
    BY <2>1 DEF CopyInv, Hurt, OneFault, OneCrash
<1>4. CASE NginxReloads
  <2>1. up /\ ~midway /\ ~hup' /\ UNCHANGED <<isSetUp, pc, disk, backup, up, wanted, faults, seen>>
    BY <1>4 DEF NginxReloads, CopyInv
  <2> QED
    BY <2>1 DEF CopyInv, Hurt, OneFault, OneCrash
<1>5. CASE NginxDies
  BY <1>0, <1>5, FirstFault, NoFault DEF NginxDies, CopyInv, InSync, OneFault, OneCrash
<1>6. CASE BeginUpdate
  <2>1. CASE UNCHANGED faultVars
    BY <1>0, <1>6, <2>1, NoFault
    DEF BeginUpdate, MustWrite, Finish, BackUp, CopyInv, InSync, Hurt, OneFault, OneCrash
  <2>2. CASE Happens("backup") /\ disk # NoFile /\ pc' = "open" /\ UNCHANGED <<isSetUp, files>>
    BY <1>6, <2>2, FirstFault, NoFault DEF BeginUpdate, MustWrite, CopyInv, InSync, OneFault
  <2> QED
    BY <1>6, <2>1, <2>2 DEF BeginUpdate
<1>7. CASE OpenFile
  <2>1. CASE UNCHANGED faultVars /\ Goto("write")
    BY <1>7, <2>1 DEF OpenFile, Goto, CopyInv, Hurt, OneFault, OneCrash
  <2>2. CASE FileFault("open") /\ Goto("revert")
    BY <1>7, <2>2, FirstFault, NoFault
    DEF OpenFile, FileFault, Goto, CopyInv, InSync, OneFault, OneCrash
  <2> QED
    BY <1>7, <2>1, <2>2 DEF OpenFile
<1>8. CASE WriteFile
  <2>1. CASE UNCHANGED faultVars /\ Goto("restart") /\ disk' = wanted
    BY <1>0, <1>8, <2>1 DEF WriteFile, Goto, CopyInv, Hurt, OneFault, OneCrash
  <2>2. CASE FileFault("write") /\ Goto("revert")
    BY <1>8, <2>2, FirstFault, NoFault
    DEF WriteFile, FileFault, Goto, CopyInv, InSync, OneFault, OneCrash
  <2> QED
    BY <1>8, <2>1, <2>2 DEF WriteFile
<1>9. CASE Restart
  <2>1. CASE (isSetUp => up) /\ hup' = isSetUp /\ midway' = FALSE /\ Finish /\ UNCHANGED faultVars
    BY <1>0, <1>9, <2>1 DEF Restart, Finish, CopyInv, Hurt, OneFault, OneCrash
  <2>2. CASE ~up /\ UNCHANGED faultVars /\ Goto("revert") /\ UNCHANGED <<hup, midway>>
    BY <1>0, <1>9, <2>2, NoFault DEF Restart, Goto, CopyInv, InSync, Hurt, OneFault, OneCrash
  <2>3. CASE isSetUp /\ Happens("restart") /\ Goto("revert") /\ UNCHANGED <<hup, midway>>
    BY <1>0, <1>9, <2>3, FirstFault, NoFault DEF Restart, Goto, CopyInv, InSync, OneFault
  <2> QED
    BY <1>9, <2>1, <2>2, <2>3 DEF Restart
<1>10. CASE Revert
  <2>1. CASE PutBack /\ UNCHANGED faultVars
    BY <1>10, <2>1 DEF Revert, PutBack, Finish, CopyInv, Hurt, OneFault, OneCrash
  <2>2. CASE Happens("revert") /\ backup # NoFile /\ UNCHANGED files
    BY <1>10, <2>2, FirstFault, NoFault DEF Revert, Finish, CopyInv, InSync, OneFault
  <2> QED
    BY <1>10, <2>1, <2>2 DEF Revert
<1>11. CASE UpdateRaises
  BY <1>11, FirstFault, NoFault DEF UpdateRaises, Due, CopyInv, InSync, OneFault
<1>12. CASE Crash
  BY <1>12, FirstFault, NoFault DEF Crash, CopyInv, InSync, OneCrash
<1>13. CASE UNCHANGED vars
  BY <1>13 DEF vars, CopyInv, Hurt, OneFault, OneCrash
<1> QED
  BY <1>1, <1>2, <1>3, <1>4, <1>5, <1>6, <1>7, <1>8, <1>9, <1>10, <1>11, <1>12, <1>13
  DEF Next, UpdateStep

\* For any configurations the configuration file or its backup is complete at every
\* moment without a fault, and after one fault of whatever step once the update is
\* over (backend.py _backup, _update, _revert); if it hit the setup run or aurproxy
\* itself, while nginx runs and did not last look at the file in a failed update.
THEOREM CopyKept == Spec => []CompleteCopyKept
<1>1. Init => CopyInv
  BY DEF Init, CopyInv
<1>2. TypeOK /\ UpdateInv /\ CopyInv /\ [Next]_vars => CopyInv'
  BY CopyInvStep
<1>3. UpdateInv /\ CopyInv => CompleteCopyKept
  BY NoFault DEF CopyInv, InSync, Hurt, OneFault, OneCrash, CompleteCopyKept
<1> QED
  BY <1>1, <1>2, <1>3, UpdaterTypeCorrect, UpdaterInvariant, PTL DEF Spec
=============================================================================
