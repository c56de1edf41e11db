---------------------------- MODULE Registration ----------------------------
(***************************************************************************)
(* The life of aurproxy tasks and their registration upstream: command.py  *)
(* (run and synchronize), app/lifecycle.py, app/module/http.py, and the    *)
(* registerers of register/elb.py, elbv2.py and route53.py.                *)
(*                                                                         *)
(* A task runs on each host at most once (README: 1 aurproxy task instance *)
(* per slave), registers the host before it starts, and deregisters it     *)
(* when it is told to quit.  The synchronize command is a process of its   *)
(* own, run by cron, that compares the hosts the tasks announce with what  *)
(* is registered.  Every call of AWS is one action, so everybody else may  *)
(* run between a look at the registrations and the change made for it.     *)
(***************************************************************************)
EXTENDS Naturals, Sequences, FiniteSets

CONSTANTS
  Hosts,      \* machines aurproxy tasks run on
  MaxNames,   \* how many load balancers the ELB registerer is configured with
  Kinds,      \* which registerers are looked at
  MaxStarts,  \* bound: how often tasks are started
  MaxFaults   \* bound: failing calls, and tasks that die or are killed too early

ASSUME RegistrationAssumption ==
  /\ MaxNames \in Nat \ {0}
  /\ Kinds \subseteq {"elb", "elbv2", "route53"}
  /\ MaxStarts \in Nat /\ MaxFaults \in Nat

VARIABLES
  kind,        \* the registerer configured
  registered,  \* the hosts registered under each name
  announced,   \* the hosts whose tasks service discovery lists
  task,        \* the task on each host
  handlers,    \* _SHUTDOWN_HANDLERS of each task
  removals,    \* how often the shutdown of the current task called remove
  sync,        \* the synchronize process
  starts, faults,
  blamed       \* hosts a fault or an outdated synchronize has hit

bounds == <<starts, faults>>
vars == <<kind, registered, announced, task, handlers, removals, sync, bounds, blamed>>

Names == 1 .. MaxNames

\* How many names are configured: one target group, or one domain.
Count == IF kind = "elb" THEN MaxNames ELSE 1

\* next: the name whose turn it is; seen: what was found when looking at it.
Task == [pc : {"down", "adding", "running", "removing", "removed"},
         next : 1 .. MaxNames + 1, seen : {"nothing yet", "there", "missing"}]
Down == [pc |-> "down", next |-> 1, seen |-> "nothing yet"]

\* hosts: the job's hosts as read; next: the name whose turn it is; add, drop:
\* what is still to be written for it.
Sync == [pc : {"idle", "looking", "writing"}, hosts : SUBSET Hosts, next : Names,
         add : SUBSET Hosts, drop : SUBSET Hosts]
IdleSync == [pc |-> "idle", hosts |-> {}, next |-> 1, add |-> {}, drop |-> {}]

Handler == {"remove", "stop updates", "stop metrics"}

TypeOK ==
  /\ kind \in Kinds
  /\ registered \in [Names -> SUBSET Hosts]
  /\ announced \in SUBSET Hosts
  /\ task \in [Hosts -> Task]
  /\ handlers \in [Hosts -> Seq(Handler)]
  /\ removals \in [Hosts -> Nat]
  /\ sync \in Sync
  /\ starts \in 0 .. MaxStarts /\ faults \in 0 .. MaxFaults
  /\ blamed \in SUBSET Hosts

Init ==
  /\ kind \in Kinds
  /\ registered = [n \in Names |-> {}]
  /\ announced = {}
  /\ task = [h \in Hosts |-> Down]
  /\ handlers = [h \in Hosts |-> << >>]
  /\ removals = [h \in Hosts |-> 0]
  /\ sync = IdleSync
  /\ starts = 0 /\ faults = 0 /\ blamed = {}

Fault(h) == faults < MaxFaults /\ faults' = faults + 1 /\ blamed' = blamed \cup {h}

Registers(n, h) == registered' = [registered EXCEPT ![n] = @ \cup {h}]
Deregisters(n, h) == registered' = [registered EXCEPT ![n] = @ \ {h}]

-----------------------------------------------------------------------------
(* A task: run, and the self registerers.                                  *)

\* Aurora starts the task and announces it; run calls the registerer's add.
Start(h) ==
  /\ task[h].pc = "down" /\ starts < MaxStarts /\ starts' = starts + 1
  /\ task' = [task EXCEPT ![h] = [Down EXCEPT !.pc = "adding"]]
  /\ announced' = announced \cup {h}
  /\ handlers' = [handlers EXCEPT ![h] = << >>]
  /\ removals' = [removals EXCEPT ![h] = 0]
  /\ blamed' = blamed \ {h}
  /\ UNCHANGED <<kind, registered, sync, faults>>

Turning(h) == task[h].pc \in {"adding", "removing"} /\ task[h].next <= Count

\* ElbSelfRegisterer and Route53SelfRegisterer look before they act.
Look(h) ==
  /\ Turning(h) /\ kind # "elbv2" /\ task[h].seen = "nothing yet"
  /\ task' = [task EXCEPT ![h].seen = IF h \in registered[task[h].next] THEN "there" ELSE "missing"]
  /\ UNCHANGED <<kind, registered, announced, handlers, removals, sync, bounds, blamed>>

Acting(h) == Turning(h) /\ (kind = "elbv2" \/ task[h].seen # "nothing yet")

\* Mutant: add and remove act on the opposite of what was found.
UnneededIfNot(h) ==
  kind # "elbv2" /\ task[h].seen = (IF task[h].pc = "adding" THEN "missing" ELSE "there")

\* The look has shown that there is nothing to do.
Unneeded(h) ==
  kind # "elbv2" /\ task[h].seen = (IF task[h].pc = "adding" THEN "there" ELSE "missing")

\* Route53 refuses to create a record that is there and to delete one that is not.
Refused(h) ==
  /\ kind = "route53" /\ ~Unneeded(h)
  /\ (task[h].pc = "adding") = (h \in registered[task[h].next])

\* add or remove acts on one name, or finds that it need not.
Act(h) ==
  /\ Acting(h) /\ ~Refused(h)
  /\ IF Unneeded(h) THEN UNCHANGED registered
     ELSE IF task[h].pc = "adding" THEN Registers(task[h].next, h)
                                   ELSE Deregisters(task[h].next, h)
  /\ task' = [task EXCEPT ![h].next = @ + 1, ![h].seen = "nothing yet"]
  /\ UNCHANGED <<kind, announced, handlers, removals, sync, bounds, blamed>>

\* add is done: its counterpart is registered as a shutdown handler, and the
\* updater registers its own when it starts.
Added(h) ==
  /\ task[h].pc = "adding" /\ task[h].next > Count
  /\ task' = [task EXCEPT ![h].pc = "running"]
  /\ handlers' = [handlers EXCEPT ![h] = <<"remove", "stop updates", "stop metrics">>]
  /\ UNCHANGED <<kind, registered, announced, removals, sync, bounds, blamed>>

\* Mutant: the handlers are run without being popped.
ExecuteUnpopped(h) ==
  /\ task[h].pc \in {"running", "removing", "removed"} /\ handlers[h] # << >>
  /\ task' = [task EXCEPT ![h] = [Down EXCEPT !.pc = "removing"]]
  /\ removals' = [removals EXCEPT ![h] = @ + 1]
  /\ UNCHANGED <<kind, registered, announced, handlers, sync, bounds, blamed>>

\* execute_shutdown_handlers, called for /quitquitquit, for /abortabortabort, or
\* after a keyboard interrupt: the handlers are popped, last registered first;
\* the stops are immediate, and remove is under way.  A second request finds no
\* handler, and is answered at once.
ExecuteShutdownHandlers(h) ==
  /\ task[h].pc \in {"running", "removing", "removed"} /\ handlers[h] # << >>
  /\ handlers' = [handlers EXCEPT ![h] = << >>]
  /\ task' = [task EXCEPT ![h] = [Down EXCEPT !.pc = "removing"]]
  /\ removals' = [removals EXCEPT ![h] = @ + 1]
  /\ UNCHANGED <<kind, registered, announced, sync, bounds, blamed>>

Removed(h) ==
  /\ task[h].pc = "removing" /\ task[h].next > Count
  /\ task' = [task EXCEPT ![h].pc = "removed"]
  /\ UNCHANGED <<kind, registered, announced, handlers, removals, sync, bounds, blamed>>

\* A call of add raises, or is refused: run raises, and the process ends with
\* nothing registered to undo what add has done.
AddRaises(h) ==
  /\ Turning(h) /\ task[h].pc = "adding"
  /\ \/ Fault(h)
     \/ Acting(h) /\ Refused(h) /\ faults' = faults /\ blamed' = blamed \cup {h}
  /\ task' = [task EXCEPT ![h] = Down]
  /\ UNCHANGED <<kind, registered, announced, handlers, removals, sync, starts>>

\* A call of remove raises or is refused, or the metadata service does not answer
\* and no registration is found for None: the handler was popped, and the names
\* that are left stay registered.
RemoveGivesUp(h) ==
  /\ Turning(h) /\ task[h].pc = "removing"
  /\ \/ Fault(h)
     \/ Acting(h) /\ Refused(h) /\ faults' = faults /\ blamed' = blamed \cup {h}
  /\ task' = [task EXCEPT ![h] = [Down EXCEPT !.pc = "removed"]]
  /\ UNCHANGED <<kind, registered, announced, handlers, removals, sync, starts>>

\* Aurora kills a task that has shut down.
Killed(h) ==
  /\ task[h].pc = "removed"
  /\ task' = [task EXCEPT ![h] = Down]
  /\ UNCHANGED <<kind, registered, announced, handlers, removals, sync, bounds, blamed>>

\* The task dies, or is killed before its shutdown is over.
Dies(h) ==
  /\ task[h].pc \in {"adding", "running", "removing"} /\ Fault(h)
  /\ task' = [task EXCEPT ![h] = Down]
  /\ UNCHANGED <<kind, registered, announced, handlers, removals, sync, starts>>

\* Service discovery forgets a task, some time after it ended.
Expires(h) ==
  /\ task[h].pc = "down" /\ h \in announced /\ announced' = announced \ {h}
  /\ UNCHANGED <<kind, registered, task, handlers, removals, sync, bounds, blamed>>

-----------------------------------------------------------------------------
(* synchronize, with write and remove_other_instances.                     *)

\* get_job_hosts: the source is started and its endpoints are read.
SyncReads ==
  /\ sync.pc = "idle" /\ kind # "elbv2"
  /\ sync' = [IdleSync EXCEPT !.pc = "looking", !.hosts = announced]
  /\ UNCHANGED <<kind, registered, announced, task, handlers, removals, bounds, blamed>>

\* Mutant: registrations of other hosts are left alone.
OnlyMissing == [add |-> sync.hosts \ registered[sync.next], drop |-> {}]

\* How what is registered under the name differs from the job's hosts.
Difference == [add |-> sync.hosts \ registered[sync.next], drop |-> registered[sync.next] \ sync.hosts]

SyncLooks ==
  /\ sync.pc = "looking"
  /\ sync' = [sync EXCEPT !.pc = "writing", !.add = Difference.add, !.drop = Difference.drop]
  /\ UNCHANGED <<kind, registered, announced, task, handlers, removals, bounds, blamed>>

\* The write says the opposite of what has become of the task on h since the
\* hosts were read.
Outdated(h, adds) == adds # (task[h].pc \in {"adding", "running"})

\* One host is registered or deregistered.  (Route53 looks again, and leaves it
\* if the record is as it should be.)
SyncWrites(h) ==
  /\ sync.pc = "writing" /\ h \in sync.add \cup sync.drop
  /\ LET adds == h \in sync.add IN
     /\ IF adds THEN Registers(sync.next, h) ELSE Deregisters(sync.next, h)
     /\ blamed' = IF Outdated(h, adds) THEN blamed \cup {h} ELSE blamed
  /\ sync' = [sync EXCEPT !.add = @ \ {h}, !.drop = @ \ {h}]
  /\ UNCHANGED <<kind, announced, task, handlers, removals, bounds>>

SyncNext ==
  /\ sync.pc = "writing" /\ sync.add = {} /\ sync.drop = {}
  /\ sync' = IF sync.next = Count THEN IdleSync
             ELSE [sync EXCEPT !.pc = "looking", !.next = @ + 1]
  /\ UNCHANGED <<kind, registered, announced, task, handlers, removals, bounds, blamed>>

\* A call raises, as it does for a host that has no instance id: synchronize ends.
SyncRaises ==
  /\ sync.pc # "idle" /\ faults < MaxFaults /\ faults' = faults + 1
  /\ sync' = IdleSync
  /\ UNCHANGED <<kind, registered, announced, task, handlers, removals, starts, blamed>>

-----------------------------------------------------------------------------
TaskStep(h) ==
  \/ Look(h) \/ Act(h)
  \/ Added(h) \/ Removed(h) \/ Killed(h) \/ Expires(h)

SyncStep == SyncReads \/ SyncLooks \/ (\E h \in Hosts : SyncWrites(h)) \/ SyncNext

Next ==
  \/ \E h \in Hosts : \/ Start(h) \/ TaskStep(h) \/ ExecuteShutdownHandlers(h)
                      \/ AddRaises(h) \/ RemoveGivesUp(h) \/ Dies(h)
  \/ SyncStep
  \/ SyncRaises

Spec == Init /\ [][Next]_vars

\* A call of AWS returns, Aurora kills what has shut down, service discovery
\* forgets the dead, and cron runs synchronize again and again.
FairSpec == Spec /\ (\A h \in Hosts : WF_vars(TaskStep(h))) /\ WF_vars(SyncStep)

-----------------------------------------------------------------------------
Running == {h \in Hosts : task[h].pc = "running"}
Ended == {h \in Hosts : task[h].pc = "down"}

\* A running task is registered under every name and one that has shut down under
\* none, whatever requests, looks and changes overlap - unless a fault hit the task,
\* or synchronize wrote what it had decided from an outdated list of hosts.
RegisteredUnlessBlamed ==
  \A h \in Hosts \ blamed : \A n \in 1 .. Count :
    /\ task[h].pc = "running" => h \in registered[n]
    /\ task[h].pc \in {"removed", "down"} => h \notin registered[n]

\* However often a task is told to quit or abort, it is deregistered once.
RemovedOnce == \A h \in Hosts : removals[h] <= 1

\* synchronize is the safety net: once tasks come and go no more, exactly the
\* running ones end up registered, whatever tasks that died, failed calls and
\* earlier runs of synchronize have left behind.
SafetyNet ==
  kind # "elbv2" =>
    \A live \in SUBSET Hosts :
      <>[](Running = live /\ Ended = Hosts \ live)
        => <>[](\A n \in 1 .. Count : registered[n] = live)

\* README: synchronize is there to remove outdated tasks and to add missing ones: it
\* does not take a running task away.
SyncSparesRunning ==
  [][SyncStep => \A h \in Running : \A n \in Names : h \in registered[n] => h \in registered'[n]]_vars
=============================================================================
