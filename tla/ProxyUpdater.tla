---------------------------- MODULE ProxyUpdater ----------------------------
(***************************************************************************)
(* From a signal to a reloaded nginx: ProxyUpdater (proxy.py), the update  *)
(* of NginxProxyBackend (backends/nginx/backend.py), the files it keeps,   *)
(* and nginx itself.                                                       *)
(*                                                                         *)
(* An update runs in the periodic task's greenlet and never yields, so no  *)
(* signal comes between its steps.  But nginx and Aurora, which starts it  *)
(* again, are other processes: nginx may die, start, or act on a SIGHUP it *)
(* was sent before, while the file is moved aside, half written, or        *)
(* written and about to be taken back.  So each step of an update that     *)
(* touches the file or nginx is an action.                                 *)
(*                                                                         *)
(* A configuration stands for the text the template renders from the       *)
(* endpoints and weights the sources have at that moment.                  *)
(***************************************************************************)
EXTENDS Naturals

CONSTANTS
  Configs,     \* rendered configurations
  NoFile,      \* there is no such file
  Truncated,   \* a file opened for writing, and not written to its end
  Faults,      \* the kinds of fault that happen
  MaxFaults    \* bound: how many of them happen

(* render: generating the configuration raises; backup, revert: move_file  *)
(* fails, which it only logs; open, write: the file cannot be opened for   *)
(* writing, or not written to its end; restart: the pid file is unreadable *)
(* or the signal is refused though nginx runs; setup: the file cannot be   *)
(* opened or written in the setup run; nginx: nginx dies; crash: aurproxy  *)
(* dies, at any step of an update or between two.                          *)
FaultKinds == {"render", "backup", "revert", "open", "write", "restart",
               "setup", "nginx", "crash"}

ASSUME ProxyUpdaterAssumption ==
  /\ NoFile \notin Configs /\ Truncated \notin Configs /\ NoFile # Truncated
  /\ Faults \subseteq FaultKinds
  /\ MaxFaults \in Nat

VARIABLES
  wanted,      \* what rendering would yield now
  needsUpdate, \* ProxyUpdater._needs_update
  tooSoon,     \* less than max_update_frequency has passed since _last_updated
  isSetUp,     \* the run with --setup is over
  pc,          \* the next step of the update under way, or idle
  disk,        \* the file at configuration_file
  backup,      \* the file at configuration_file.1
  before,      \* history: the file as the update under way found it
  up,          \* nginx runs: its pid file names a live process
  loaded,      \* the configuration nginx works with
  hup,         \* nginx was sent a SIGHUP it has yet to act on
  midway,      \* history: nginx last looked at the file in the middle of an
               \* update that has not succeeded
  faults,      \* how many faults happened
  seen         \* the kinds of the faults that happened

runVars == <<tooSoon, isSetUp, pc, before>>
files == <<disk, backup>>
nginxVars == <<up, loaded, hup, midway>>
faultVars == <<faults, seen>>
vars == <<wanted, needsUpdate, runVars, files, nginxVars, faultVars>>

File == Configs \cup {NoFile, Truncated}

TypeOK ==
  /\ wanted \in Configs
  /\ needsUpdate \in BOOLEAN /\ tooSoon \in BOOLEAN /\ isSetUp \in BOOLEAN
  /\ pc \in {"idle", "open", "write", "restart", "revert"}
  /\ disk \in File /\ backup \in File /\ before \in File
  /\ up \in BOOLEAN /\ hup \in BOOLEAN /\ midway \in BOOLEAN
  /\ loaded \in Configs \cup {NoFile}
  /\ faults \in 0 .. MaxFaults /\ seen \in SUBSET FaultKinds

\* The first start of aurproxy in a fresh container, with --setup.
Init ==
  /\ wanted \in Configs
  /\ needsUpdate = TRUE /\ tooSoon = FALSE /\ isSetUp = FALSE
  /\ pc = "idle" /\ before = NoFile
  /\ disk = NoFile /\ backup = NoFile
  /\ up = FALSE /\ loaded = NoFile /\ hup = FALSE /\ midway = FALSE
  /\ faults = 0 /\ seen = {}

Happens(kind) ==
  /\ kind \in Faults /\ faults < MaxFaults
  /\ faults' = faults + 1 /\ seen' = seen \cup {kind}

-----------------------------------------------------------------------------
(* Around the updater.                                                     *)

\* A source adds or removes an endpoint, or a share adjuster changes a share:
\* the change and the call of _on_update are one step, without a switch.
Signal(c) ==
  /\ pc = "idle"
  /\ wanted' = c /\ needsUpdate' = TRUE
  /\ UNCHANGED <<runVars, files, nginxVars, faultVars>>

\* max_update_frequency has passed.
Elapse ==
  /\ tooSoon /\ tooSoon' = FALSE
  /\ UNCHANGED <<wanted, needsUpdate, isSetUp, pc, before, files, nginxVars, faultVars>>

\* nginx and aurproxy are started together once setup is over; nginx needs a
\* whole configuration to start with, and takes what it finds.
NginxStarts ==
  /\ isSetUp /\ ~up /\ disk \in Configs
  /\ up' = TRUE /\ loaded' = disk /\ hup' = FALSE /\ midway' = (pc # "idle")
  /\ UNCHANGED <<wanted, needsUpdate, runVars, files, faultVars>>

NginxDies ==
  /\ up /\ Happens("nginx")
  /\ up' = FALSE /\ loaded' = NoFile /\ hup' = FALSE /\ midway' = FALSE
  /\ UNCHANGED <<wanted, needsUpdate, runVars, files>>

\* nginx acts on SIGHUP; it keeps its configuration if the file is no good.
NginxReloads ==
  /\ hup /\ hup' = FALSE /\ midway' = (pc # "idle")
  /\ loaded' = IF disk \in Configs THEN disk ELSE loaded
  /\ UNCHANGED <<wanted, needsUpdate, runVars, files, up, faultVars>>

-----------------------------------------------------------------------------
(* An update: _try_update and _update, or set_up, then NginxProxyBackend.  *)

\* Mutant: the comparison with max_update_frequency is turned round.
DueTooSoon == isSetUp /\ needsUpdate /\ tooSoon

\* _should_update
Due == isSetUp /\ needsUpdate /\ ~tooSoon

\* _should_update_config
MustWrite == disk # wanted

\* Mutant: there is no backup.
NoBackup == UNCHANGED files

\* _backup moves the file aside, if there is one.
BackUp == IF disk = NoFile THEN UNCHANGED files ELSE disk' = NoFile /\ backup' = disk

\* Mutant: a failed update is not reverted.
NotPutBack == UNCHANGED files

\* _revert moves the backup back, if there is one.
PutBack == IF backup = NoFile THEN UNCHANGED files ELSE disk' = backup /\ backup' = NoFile

\* The update is over.  _try_update sets _last_updated; after set_up the service
\* is started, with a ProxyUpdater of its own.
Finish == pc' = "idle" /\ before' = NoFile /\ isSetUp' = TRUE /\ tooSoon' = isSetUp

\* The update goes on.
Goto(step) == pc' = step /\ UNCHANGED <<tooSoon, isSetUp, before>>

\* _try_update resets _needs_update, and the configuration is rendered: either the
\* file has it, or the file is moved aside, which may fail.  set_up does the same
\* and leaves _needs_update as it is.
BeginUpdate ==
  /\ pc = "idle" /\ (isSetUp => Due)
  /\ needsUpdate' = ~isSetUp
  /\ \/ ~MustWrite /\ Finish /\ UNCHANGED <<files, faultVars>>
     \/ /\ MustWrite
        /\ pc' = "open" /\ before' = disk /\ UNCHANGED <<tooSoon, isSetUp>>
        /\ \/ BackUp /\ UNCHANGED faultVars
           \/ disk # NoFile /\ Happens("backup") /\ UNCHANGED files
  /\ UNCHANGED <<wanted, nginxVars>>

\* Rendering raises, and _needs_update has been reset.
UpdateRaises ==
  /\ pc = "idle" /\ Due /\ Happens("render")
  /\ needsUpdate' = FALSE
  /\ UNCHANGED <<wanted, runVars, files, nginxVars>>

\* A fault of the setup run counts as one of its own.
FileFault(kind) == Happens(IF isSetUp THEN kind ELSE "setup")

\* The file is opened for writing, which empties it.
OpenFile ==
  /\ pc = "open"
  /\ \/ disk' = Truncated /\ Goto("write") /\ UNCHANGED faultVars
     \/ FileFault("open") /\ Goto("revert") /\ UNCHANGED disk
  /\ UNCHANGED <<wanted, needsUpdate, backup, nginxVars>>

\* It is written and closed; an error of either is caught.
WriteFile ==
  /\ pc = "write"
  /\ \/ disk' = wanted /\ Goto("restart") /\ UNCHANGED faultVars
     \/ FileFault("write") /\ Goto("revert") /\ UNCHANGED disk
  /\ UNCHANGED <<wanted, needsUpdate, backup, nginxVars>>

\* restart sends nginx a SIGHUP, or raises: nginx has no live process, or cannot
\* be told.  set_up does not restart it.
Restart ==
  /\ pc = "restart"
  /\ \/ /\ isSetUp => up
        /\ hup' = isSetUp /\ midway' = FALSE
        /\ Finish /\ UNCHANGED faultVars
     \/ /\ isSetUp /\ (IF up THEN Happens("restart") ELSE UNCHANGED faultVars)
        /\ Goto("revert") /\ UNCHANGED <<hup, midway>>
  /\ UNCHANGED <<wanted, needsUpdate, files, up, loaded>>

\* Mutant: an update that failed is not signaled again.
RevertOnly ==
  /\ pc = "revert" /\ Finish
  /\ PutBack
  /\ UNCHANGED <<wanted, needsUpdate, nginxVars, faultVars>>

\* The backup is put back, which may fail, and another update is signaled.
Revert ==
  /\ pc = "revert" /\ Finish
  /\ needsUpdate' = TRUE
  /\ \/ PutBack /\ UNCHANGED faultVars
     \/ backup # NoFile /\ Happens("revert") /\ UNCHANGED files
  /\ UNCHANGED <<wanted, nginxVars>>

\* aurproxy dies, also in the middle of an update, and is started again, with the
\* files as they are.
Crash ==
  /\ isSetUp /\ Happens("crash")
  /\ pc' = "idle" /\ before' = NoFile /\ needsUpdate' = TRUE /\ tooSoon' = FALSE
  /\ UNCHANGED <<wanted, isSetUp, files, nginxVars>>

-----------------------------------------------------------------------------
UpdateStep == BeginUpdate \/ OpenFile \/ WriteFile \/ Restart \/ Revert

Next ==
  \/ \E c \in Configs : Signal(c)
  \/ Elapse
  \/ NginxStarts \/ NginxDies \/ NginxReloads
  \/ UpdateStep
  \/ UpdateRaises
  \/ Crash

Spec == Init /\ [][Next]_vars

\* The periodic task reschedules itself whatever its function does, an update waits
\* for nothing, and time passes.  Aurora starts nginx again and again, and an update
\* takes a moment of each period: not every start falls into one.
FairSpec ==
  /\ Spec
  /\ WF_vars(UpdateStep) /\ WF_vars(Elapse) /\ WF_vars(NginxReloads)
  /\ SF_vars(pc = "idle" /\ NginxStarts)

-----------------------------------------------------------------------------
\* Faults an update recovers from: the file cannot be written, nginx cannot be
\* told, nginx dies - as long as rendering, moving files, the setup run and
\* aurproxy itself have not failed.
Tolerable == seen \cap {"render", "backup", "revert", "setup", "crash"} = {}

\* Once nginx runs and nothing is under way - no update, none signaled, no SIGHUP to
\* act on - nginx works with what the sources want: no sequence of tolerable faults,
\* and no death or start of nginx between the steps of an update, makes aurproxy
\* forget one.  The exception is an nginx that looked at the file in the middle of
\* an update that failed: it works with what was taken back, or kept what it had,
\* and if the sources want again what the file says, nothing tells it.
NothingForgotten ==
  Tolerable /\ pc = "idle" /\ up /\ ~needsUpdate /\ ~hup /\ ~midway => loaded = wanted

\* Whatever tolerable fault hits an update, and whatever nginx does meanwhile: when it
\* is over, a complete configuration file was replaced by the one wanted or is
\* there again, never lost, cut short or rolled back further than to what it was.
AllOrNothing ==
  [][Tolerable' /\ pc # "idle" /\ pc' = "idle" /\ before \in Configs
       => disk' \in {before, wanted}]_vars

\* Without a fault the configuration file or its backup is complete at every moment;
\* and no single fault costs both, whatever step of an update it hits, so that nginx can
\* be started again once the update is over.  (A failed setup, and a crash in the
\* write, may, until nginx runs: the next update backs the truncated file up over the
\* good one, fails for want of an nginx, and puts the truncated file back.)
CompleteCopyKept ==
  /\ isSetUp
  /\ \/ faults = 0
     \/ /\ faults = 1 /\ pc = "idle"
        /\ seen \cap {"setup", "crash"} = {} \/ (up /\ ~midway)
  => disk \in Configs \/ backup \in Configs

\* If the sources settle on a configuration, nginx works with it in the end, unless
\* it looked at the file in the middle of an update that failed, and no other came.
Settles(c) == <>[](wanted = c /\ ~midway) => <>[](loaded = c)

\* So it is as long as all faults are tolerable.
SettlesOnWanted == []Tolerable => \A c \in Configs : Settles(c)

\* Also after faults that are not tolerable.
SettlesAnyway == \A c \in Configs : Settles(c)

\* README: if the need to update is signaled, the configuration is updated and
\* the proxy restarted - whatever happened to an earlier attempt.
SignaledMeansUpdated ==
  \A c \in Configs : <>[](wanted = c) => <>[](loaded = c)
=============================================================================
