------------------------------- MODULE Mirror -------------------------------
(***************************************************************************)
(* From a change of the mirror source to a restarted gor: MirrorUpdater    *)
(* (mirror.py), the launch script it writes, and the gor process, which    *)
(* Aurora starts again whenever it is down.                                *)
(*                                                                         *)
(* An update never yields to another greenlet, so no signal comes between  *)
(* its steps; but gor and Aurora are other processes, and theirs do: gor   *)
(* reads the script when it is launched, and only some time later its pid  *)
(* is in the pid file and its command line is that of gor.                 *)
(***************************************************************************)
EXTENDS Naturals

CONSTANTS
  Commands,   \* rendered gor commands
  Fallback,   \* the command used while the source has no endpoints
  NoFile,     \* there is no launch script
  Truncated,  \* the launch script was opened for writing, and not written to its end
  Faults,     \* the kinds of fault that happen
  MaxFaults   \* bound: how many of them happen

(* template: the template cannot be read; open: the script cannot be       *)
(* opened for writing; write: write raises; close: write has returned, and *)
(* what it buffered cannot be written when the file is closed; kill: the   *)
(* pid file is unreadable or the signal refused though gor runs; gor: gor  *)
(* dies; crash: aurproxy dies, at any step of an update.                   *)
FaultKinds == {"template", "open", "write", "close", "kill", "gor", "crash"}

ASSUME MirrorAssumption ==
  /\ Fallback \in Commands
  /\ NoFile \notin Commands /\ Truncated \notin Commands /\ NoFile # Truncated
  /\ Faults \subseteq FaultKinds /\ MaxFaults \in Nat

VARIABLES
  wanted,      \* what rendering would yield now
  needsUpdate, \* MirrorUpdater._needs_update
  scheduled,   \* the next call of update is scheduled
  pc,          \* how far the update has come
  script,      \* the file at command_path
  closeFailed, \* history: the last write of the script was cut short when it
               \* was closed, in an update that went on
  gor,         \* the gor process: down, starting or running
  command,     \* the command it was launched with
  faults,      \* how many faults happened
  kills        \* how often gor was killed since the last signal or crash

updater == <<needsUpdate, scheduled, pc>>
file == <<script, closeFailed>>
process == <<gor, command>>
vars == <<wanted, updater, file, process, faults, kills>>

TypeOK ==
  /\ wanted \in Commands
  /\ needsUpdate \in BOOLEAN /\ scheduled \in BOOLEAN
  /\ pc \in {"setup", "idle", "write", "kill"}
  /\ script \in Commands \cup {NoFile, Truncated} /\ closeFailed \in BOOLEAN
  /\ gor \in {"down", "starting", "running"}
  /\ command \in Commands \cup {Truncated}
  /\ faults \in 0 .. MaxFaults
  /\ kills \in Nat

Init ==
  /\ wanted \in Commands
  /\ needsUpdate = TRUE /\ scheduled = FALSE
  /\ pc = "setup"
  /\ script = NoFile /\ closeFailed = FALSE
  /\ gor = "down" /\ command = Fallback
  /\ faults = 0 /\ kills = 0

Happens(kind) == kind \in Faults /\ faults < MaxFaults /\ faults' = faults + 1

-----------------------------------------------------------------------------
(* Around the updater.                                                     *)

\* The source adds an endpoint it did not have, or removes one it had.
Signal(c) ==
  /\ pc \in {"setup", "idle"} /\ c # wanted
  /\ wanted' = c /\ needsUpdate' = TRUE /\ kills' = 0
  /\ UNCHANGED <<scheduled, pc, file, process, faults>>

\* Aurora launches gor once setup is over, also from a script that is not whole.
GorLaunched ==
  /\ pc # "setup" /\ gor = "down" /\ script # NoFile
  /\ gor' = "starting" /\ command' = script
  /\ UNCHANGED <<wanted, updater, file, faults, kills>>

\* The script has written its pid and has become gor.
GorRuns ==
  /\ gor = "starting" /\ gor' = "running"
  /\ UNCHANGED <<wanted, updater, file, command, faults, kills>>

\* A script cut short may end at once, or run gor with what is left of its command.
GorDies ==
  /\ gor # "down" /\ gor' = "down"
  /\ IF command = Truncated THEN UNCHANGED faults ELSE Happens("gor")
  /\ UNCHANGED <<wanted, updater, file, command, kills>>

-----------------------------------------------------------------------------
(* MirrorUpdater.                                                          *)

\* set_up, or update in run_replay, which has not started its source and so
\* writes the fallback: the script is written, or the setup fails.  Then the
\* service is started, which schedules its first update.
SetUp ==
  /\ pc = "setup" /\ pc' = "idle"
  /\ \/ \E c \in {wanted, Fallback} : script' = c /\ UNCHANGED faults
     \/ UNCHANGED script /\ Happens("open")
     \/ script' = Truncated /\ (Happens("write") \/ Happens("close"))
  /\ needsUpdate' = TRUE /\ scheduled' = TRUE
  /\ UNCHANGED <<wanted, closeFailed, process, kills>>

\* _should_update; _updating is always reset when update is called.
Due == pc = "idle" /\ scheduled /\ needsUpdate

\* Mutants: a failed update is not signaled again; it is not scheduled again.
FailSilently == pc' = "idle" /\ scheduled' = TRUE /\ needsUpdate' = FALSE
FailForGood == pc' = "idle" /\ scheduled' = FALSE /\ needsUpdate' = TRUE

\* The update failed or raised: it is signaled and scheduled again.
Fail == pc' = "idle" /\ scheduled' = TRUE /\ needsUpdate' = TRUE

\* update resets _needs_update and renders; _update_command compares with the
\* script and opens it for writing.
BeginUpdate ==
  /\ Due
  /\ \/ wanted # Fallback /\ Happens("template") /\ Fail /\ UNCHANGED file
     \/ /\ script = wanted /\ pc' = "kill"
        /\ needsUpdate' = FALSE /\ scheduled' = FALSE
        /\ UNCHANGED <<file, faults>>
     \/ script # wanted /\ Happens("open") /\ Fail /\ UNCHANGED file
     \/ /\ script # wanted /\ pc' = "write"
        /\ script' = Truncated /\ closeFailed' = FALSE
        /\ needsUpdate' = FALSE /\ scheduled' = FALSE
        /\ UNCHANGED faults
  /\ UNCHANGED <<wanted, process, kills>>

\* The command is written and the file closed.  updated is set in between: an error of
\* write fails the update, one of close is only logged, and the update goes on with a
\* script that is cut short.
WriteCommand ==
  /\ pc = "write"
  /\ \/ /\ pc' = "kill" /\ UNCHANGED <<needsUpdate, scheduled>>
        /\ \/ script' = wanted /\ UNCHANGED <<closeFailed, faults>>
           \/ closeFailed' = TRUE /\ Happens("close") /\ UNCHANGED script
     \/ Happens("write") /\ Fail /\ UNCHANGED file
  /\ UNCHANGED <<wanted, process, kills>>

\* Mutant: the update is signaled again after a kill.
KillAgain ==
  /\ pc = "kill" /\ gor = "running" /\ Fail
  /\ gor' = "down" /\ kills' = kills + 1
  /\ UNCHANGED <<wanted, file, command, faults>>

\* _kill_running: the process the pid file names is killed if its command line
\* is gor's or the fallback's.  While gor is down the pid is of a dead process,
\* and while it starts the pid is a dead one's or the command line the shell's.
KillRunning ==
  /\ pc = "kill"
  /\ \/ /\ gor = "running" /\ gor' = "down" /\ kills' = kills + 1
        /\ pc' = "idle" /\ scheduled' = TRUE
        /\ UNCHANGED <<needsUpdate, faults>>
     \/ gor # "running" /\ Fail /\ UNCHANGED <<gor, faults, kills>>
     \/ gor = "running" /\ Happens("kill") /\ Fail /\ UNCHANGED <<gor, kills>>
  /\ UNCHANGED <<wanted, file, command>>

\* aurproxy dies, also within an update, and is started again: the files and
\* gor are as they are.
Crash ==
  /\ pc # "setup" /\ Happens("crash")
  /\ pc' = "idle" /\ needsUpdate' = TRUE /\ scheduled' = TRUE /\ kills' = 0
  /\ UNCHANGED <<wanted, file, process>>

-----------------------------------------------------------------------------
Next ==
  \/ \E c \in Commands : Signal(c)
  \/ GorLaunched \/ GorRuns \/ GorDies
  \/ SetUp
  \/ BeginUpdate \/ WriteCommand \/ KillRunning
  \/ Crash

Spec == Init /\ [][Next]_vars

\* spawn_later runs what it was given, and Aurora runs setup and keeps gor up; nobody
\* relies on a script cut short to run.
FairSpec ==
  /\ Spec
  /\ WF_vars(SetUp) /\ WF_vars(BeginUpdate) /\ WF_vars(WriteCommand)
  /\ WF_vars(KillRunning) /\ WF_vars(GorRuns)
  /\ WF_vars(script \in Commands /\ GorLaunched)

-----------------------------------------------------------------------------
\* Between updates with none signaled, the script is what the source wants, and
\* so is the command of the gor that runs or is about to: whatever failed, died or
\* was launched in the middle of an update, no update is forgotten and no gor
\* launched from an old or unfinished script is overlooked.  The exception is a
\* script cut short when it was closed, which the code takes for written.
NothingForgotten ==
  pc = "idle" /\ ~needsUpdate /\ ~closeFailed =>
    script = wanted /\ (gor # "down" => command = wanted)

\* A change of the source, or a start of aurproxy, costs gor at most one kill,
\* however many attempts the update takes.
OneKillPerChange == kills <= 1

\* Whatever the source settles on is what gor runs with in the end, and it is not
\* killed again, unless the script was cut short when it was last closed.
SettlesOnWanted ==
  \A c \in Commands :
    <>[](wanted = c /\ ~closeFailed) => <>[](gor = "running" /\ command = c)

\* So it is without that exception.
SettlesAnyway ==
  \A c \in Commands : <>[](wanted = c) => <>[](gor = "running" /\ command = c)
=============================================================================
