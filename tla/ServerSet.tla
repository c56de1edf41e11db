----------------------------- MODULE ServerSet -----------------------------
(***************************************************************************)
(* Service discovery through ZooKeeper: source/sources/serverset.py with   *)
(* the ProxySource bookkeeping of source/source.py.                        *)
(*                                                                         *)
(* Three greenlets touch the state, and a greenlet switch can only happen  *)
(* at a ZooKeeper call, at Queue.get or at Event.wait:                     *)
(*   - the runner: kazoo's watch-callback greenlet (SequentialGevent-      *)
(*     Handler), which runs DataWatch and ChildrenWatch callbacks one at a *)
(*     time.  The first DataWatch callback runs in the greenlet that calls *)
(*     ServerSetSource.start, inside ServerSet.__init__;                   *)
(*   - the worker: ServerSet._notification_worker;                         *)
(*   - the lister: the greenlet that runs ServerSetSource.start, later     *)
(*     ServerSetSource.stop, and iterates the ServerSet.                   *)
(* A ZooKeeper call is one action (the value is read), what the greenlet   *)
(* does with the answer is the next one, so everybody else may run in      *)
(* between.                                                                *)
(***************************************************************************)
EXTENDS Naturals, Sequences, FiniteSets

CONSTANTS
  Nodes,       \* child names that can appear under the watched path
  Endpoints,   \* host:port pairs
  Absent,      \* no endpoint: a node that does not exist or was not read
  MayServe,    \* the endpoints the data of each node may name
  Accepted,    \* the nodes that pass the member_filter
  MaxPaths,    \* bound: how often the path is created
  MaxErrors,   \* bound: how many node reads fail for another reason than NoNode
  CanStop,     \* whether ServerSetSource.stop may be called
  CanDelete    \* whether the watched path may be deleted

ASSUME ServerSetAssumption ==
  /\ Absent \notin Endpoints
  /\ MayServe \in [Nodes -> SUBSET Endpoints]
  /\ Accepted \subseteq Nodes
  /\ MaxPaths \in Nat
  /\ MaxErrors \in Nat
  /\ CanStop \in BOOLEAN
  /\ CanDelete \in BOOLEAN

VARIABLES
  (* ZooKeeper *)
  path,        \* the incarnation of the watched path, 0 while it does not exist
  paths,       \* incarnations created so far
  zk,          \* the endpoint each existing child's data names, Absent for the others
  issued,      \* child names used in this incarnation: they are sequential
  (* kazoo *)
  events,      \* watch events the runner has yet to handle
  dataArmed,   \* the one-shot watch of the DataWatch is set in ZooKeeper
  childArmed,  \* the ChildrenWatches whose one-shot watch is set
  dataVersion, \* DataWatch._version: the incarnation last reported
  opened,      \* ChildrenWatches constructed so far
  runner,      \* what the runner is doing
  (* ServerSet *)
  watching,    \* _watching
  nodes,       \* _nodes
  members,     \* _members, Absent for a name that is no key
  queue,       \* _notification_queue
  worker,      \* the _notification_worker greenlet
  (* ServerSetSource and ProxySource *)
  lister,      \* the greenlet running start or stop
  errors,      \* failed node reads so far
  endpoints    \* ProxySource._endpoints

zkVars == <<path, paths, zk, issued>>
watchVars == <<events, dataArmed, childArmed, dataVersion, opened, runner>>
setVars == <<watching, nodes, members, queue, worker>>
sourceVars == <<lister, errors, endpoints>>
vars == <<zkVars, watchVars, setVars, sourceVars>>

-----------------------------------------------------------------------------
MaybeEndpoint == Endpoints \cup {Absent}

\* Node names mapped to what is known of them.
Table == [Nodes -> MaybeEndpoint]
Empty == [n \in Nodes |-> Absent]
Known(table) == {n \in Nodes : table[n] # Absent}
ServedBy(table, ns) == {table[n] : n \in ns \cap Known(table)}

Work == [new : SUBSET Nodes, removed : SUBSET Nodes]
NoWork == [new |-> {}, removed |-> {}]

\* One DataWatch event, or one event for each ChildrenWatch in watches.
Event == [kind : {"data", "child"}, watches : SUBSET Nat]

Runner == [pc : {"construct", "idle", "dataCall", "openGet", "childCall"},
           watch : Nat, opening : BOOLEAN,
           found : BOOLEAN, children : SUBSET Nodes]
IdleRunner == [pc |-> "idle", watch |-> 0, opening |-> FALSE,
               found |-> FALSE, children |-> {}]

Worker == [pc : {"idle", "reading"}, work : Work,
           todo : SUBSET Nodes, read : Table]
IdleWorker == [pc |-> "idle", work |-> NoWork, todo |-> {}, read |-> Empty]

Lister == [pc : {"construct", "list", "read", "running", "stopped"},
           stopping : BOOLEAN, todo : SUBSET Nodes, read : Table]

TypeOK ==
  /\ path \in 0 .. MaxPaths /\ paths \in 0 .. MaxPaths
  /\ zk \in Table /\ issued \in SUBSET Nodes
  /\ events \in Seq(Event)
  /\ dataArmed \in BOOLEAN /\ childArmed \in SUBSET Nat
  /\ dataVersion \in 0 .. MaxPaths /\ opened \in Nat
  /\ runner \in Runner
  /\ watching \in BOOLEAN /\ nodes \in SUBSET Nodes /\ members \in Table
  /\ queue \in Seq(Work) /\ worker \in Worker
  /\ lister \in Lister /\ errors \in 0 .. MaxErrors
  /\ endpoints \in SUBSET Endpoints

\* The path may or may not be there, with or without children, when
\* ServerSetSource.start is called; ServerSet.__init__ is about to construct
\* its DataWatch, whose first read runs in the same greenlet.
Init ==
  /\ path \in {0, 1} /\ path <= MaxPaths /\ paths = path
  /\ issued \in SUBSET Nodes /\ (path = 0 => issued = {})
  /\ zk \in {t \in Table : /\ Known(t) \subseteq issued
                           /\ \A n \in Known(t) : t[n] \in MayServe[n]}
  /\ events = << >> /\ dataArmed = FALSE /\ childArmed = {}
  /\ dataVersion = 0 /\ opened = 0
  /\ runner = [IdleRunner EXCEPT !.pc = "construct"]
  /\ watching = FALSE /\ nodes = {} /\ members = Empty
  /\ queue = << >> /\ worker = IdleWorker
  /\ lister = [pc |-> "construct", stopping |-> FALSE, todo |-> {}, read |-> Empty]
  /\ errors = 0 /\ endpoints = {}

-----------------------------------------------------------------------------
(* ZooKeeper.  A change consumes the one-shot watches it concerns and      *)
(* queues their callbacks, data watches first.                             *)

Fire(data, child) ==
  LET dataEvents == IF data /\ dataArmed
                    THEN <<[kind |-> "data", watches |-> {}]>> ELSE << >>
      childEvents == IF child /\ childArmed # {}
                     THEN <<[kind |-> "child", watches |-> childArmed]>> ELSE << >>
  IN /\ events' = events \o dataEvents \o childEvents
     /\ dataArmed' = (dataArmed /\ ~data)
     /\ childArmed' = IF child THEN {} ELSE childArmed

CreatePath ==
  /\ path = 0 /\ paths < MaxPaths
  /\ path' = paths + 1 /\ paths' = paths + 1 /\ issued' = {}
  /\ Fire(TRUE, FALSE)
  /\ UNCHANGED <<zk, dataVersion, opened, runner, setVars, sourceVars>>

\* ZooKeeper deletes a path only when it has no children.
DeletePath ==
  /\ CanDelete /\ path # 0 /\ Known(zk) = {}
  /\ path' = 0
  /\ Fire(TRUE, TRUE)
  /\ UNCHANGED <<paths, zk, issued, dataVersion, opened, runner, setVars, sourceVars>>

AddNode(n, e) ==
  /\ path # 0 /\ n \notin issued
  /\ zk' = [zk EXCEPT ![n] = e] /\ issued' = issued \cup {n}
  /\ Fire(FALSE, TRUE)
  /\ UNCHANGED <<path, paths, dataVersion, opened, runner, setVars, sourceVars>>

RemoveNode(n) ==
  /\ zk[n] # Absent
  /\ zk' = [zk EXCEPT ![n] = Absent]
  /\ Fire(FALSE, TRUE)
  /\ UNCHANGED <<path, paths, issued, dataVersion, opened, runner, setVars, sourceVars>>

-----------------------------------------------------------------------------
(* The runner.                                                             *)

\* ServerSet.__init__ returns when its DataWatch has made its first callback;
\* start goes straight on to iterate the ServerSet, without a switch.
Finish ==
  /\ runner' = IdleRunner
  /\ lister' = IF lister.pc = "construct" THEN [lister EXCEPT !.pc = "list"] ELSE lister

\* DataWatch._get_data: read the path's version and watch it again, for its
\* creation if it does not exist.  The callback follows if the version changed.
DataGet ==
  /\ \/ runner.pc = "construct" /\ events' = events
     \/ /\ runner.pc = "idle" /\ events # << >> /\ Head(events).kind = "data"
        /\ events' = Tail(events)
  /\ dataArmed' = TRUE /\ dataVersion' = path
  /\ runner' = IF runner.pc = "construct" \/ path # dataVersion
               THEN [IdleRunner EXCEPT !.pc = "dataCall"] ELSE IdleRunner
  /\ UNCHANGED <<childArmed, opened, zkVars, setVars, sourceVars>>

\* Mutant: the members are announced as gone but kept.
PathGoneKeepsMembers ==
  /\ runner.pc = "dataCall" /\ dataVersion = 0
  /\ watching' = FALSE
  /\ endpoints' = endpoints \ ServedBy(members, Nodes)
  /\ Finish
  /\ UNCHANGED <<events, dataArmed, childArmed, dataVersion, opened, zkVars,
                 nodes, members, queue, worker, errors>>

\* _data_changed when the path is gone, with _send_all_removed.
PathGone ==
  /\ runner.pc = "dataCall" /\ dataVersion = 0
  /\ watching' = FALSE
  /\ members' = Empty
  /\ endpoints' = endpoints \ ServedBy(members, Nodes)
  /\ Finish
  /\ UNCHANGED <<events, dataArmed, childArmed, dataVersion, opened, zkVars,
                 nodes, queue, worker, errors>>

\* _data_changed when the path exists and its children are watched already.
PathStillWatched ==
  /\ runner.pc = "dataCall" /\ dataVersion # 0 /\ watching
  /\ Finish
  /\ UNCHANGED <<events, dataArmed, childArmed, dataVersion, opened, zkVars,
                 setVars, errors, endpoints>>

\* _data_changed when the path exists and is not watched: _begin_watch
\* constructs a ChildrenWatch, which is about to list the children.
BeginWatch ==
  /\ runner.pc = "dataCall" /\ dataVersion # 0 /\ ~watching
  /\ opened' = opened + 1
  /\ runner' = [IdleRunner EXCEPT !.pc = "openGet", !.watch = opened + 1,
                                  !.opening = TRUE]
  /\ UNCHANGED <<events, dataArmed, childArmed, dataVersion, zkVars, setVars,
                 sourceVars>>

\* ChildrenWatch._get_children of watch w: list and watch again; a watch that
\* finds no path stops for good.
ListChildren(w, isOpening) ==
  /\ childArmed' = IF path # 0 THEN childArmed \cup {w} ELSE childArmed
  /\ runner' = [pc |-> "childCall", watch |-> w, opening |-> isOpening,
                found |-> path # 0, children |-> Known(zk)]

OpenGet ==
  /\ runner.pc = "openGet"
  /\ ListChildren(runner.watch, TRUE)
  /\ UNCHANGED <<events, dataArmed, dataVersion, opened, zkVars, setVars, sourceVars>>

ChildGet(w) ==
  /\ runner.pc = "idle" /\ events # << >> /\ Head(events).kind = "child"
  /\ w \in Head(events).watches
  /\ LET rest == Head(events).watches \ {w}
     IN events' = IF rest = {} THEN Tail(events)
                  ELSE <<[Head(events) EXCEPT !.watches = rest]>> \o Tail(events)
  /\ ListChildren(w, FALSE)
  /\ UNCHANGED <<dataArmed, dataVersion, opened, zkVars, setVars, sourceVars>>

\* Mutants: the difference is taken from _members, which lags behind _nodes; the
\* queue is a stack.
DiffFromMembers(children) ==
  /\ nodes' = children
  /\ queue' = Append(queue, [new |-> children \ nodes, removed |-> Known(members) \ children])

PushedNotQueued(children) ==
  /\ nodes' = children
  /\ queue' = <<[new |-> children \ nodes, removed |-> nodes \ children]>> \o queue

\* _on_set_changed: remember the children and queue the difference.
OnSetChanged(children) ==
  /\ nodes' = children
  /\ queue' = Append(queue, [new |-> children \ nodes, removed |-> nodes \ children])

\* The end of a ChildrenWatch run: the callback, if the path was found, and
\* the _watching flag when it was the run of a constructor.
ChildCall ==
  /\ runner.pc = "childCall"
  /\ IF runner.found THEN OnSetChanged(runner.children \cap Accepted)
                     ELSE UNCHANGED <<nodes, queue>>
  /\ watching' = (watching \/ runner.opening)
  /\ Finish
  /\ UNCHANGED <<events, dataArmed, childArmed, dataVersion, opened, zkVars,
                 members, worker, errors, endpoints>>

-----------------------------------------------------------------------------
(* Reading one node.  _safe_zk_node_to_member skips the node when it is    *)
(* gone, and when the read fails for any other reason.                     *)

ReadNode(reader, n, answer) ==
  [reader EXCEPT !.todo = @ \ {n}, !.read[n] = answer]

\* The answers a read of n may have, and what they do to the error count.
Answer(n, answer) ==
  \/ answer = zk[n] /\ errors' = errors
  \/ answer = Absent /\ errors < MaxErrors /\ errors' = errors + 1

-----------------------------------------------------------------------------
(* The notification worker.                                                *)

\* __iter__ holds the callback blocker while it lists and reads.
Blocking == lister.pc \in {"list", "read"}

\* Mutant: the worker does not wait for the callback blocker.
WorkerTakeUnblocked ==
  /\ worker.pc = "idle" /\ queue # << >>
  /\ worker' = [pc |-> "reading", work |-> Head(queue),
                todo |-> Head(queue).new, read |-> Empty]
  /\ queue' = Tail(queue)
  /\ UNCHANGED <<zkVars, watchVars, watching, nodes, members, sourceVars>>

\* Queue.get and ensure_safe: the worker is stuck in one of them or the other.
WorkerTake ==
  /\ worker.pc = "idle" /\ queue # << >> /\ ~Blocking
  /\ worker' = [pc |-> "reading", work |-> Head(queue),
                todo |-> Head(queue).new, read |-> Empty]
  /\ queue' = Tail(queue)
  /\ UNCHANGED <<zkVars, watchVars, watching, nodes, members, sourceVars>>

WorkerRead(n) ==
  /\ worker.pc = "reading" /\ n \in worker.todo
  /\ \E answer \in {zk[n], Absent} :
       Answer(n, answer) /\ worker' = ReadNode(worker, n, answer)
  /\ UNCHANGED <<zkVars, watchVars, watching, nodes, members, queue, lister, endpoints>>

\* _members with the nodes just read.
Updated == [n \in Nodes |-> IF worker.read[n] # Absent THEN worker.read[n] ELSE members[n]]

\* Mutant: the joins are announced before the leaves.
JoinsFirst ==
  /\ worker.pc = "reading" /\ worker.todo = {}
  /\ members' = [n \in Nodes |-> IF n \in worker.work.removed THEN Absent ELSE Updated[n]]
  /\ endpoints' = (endpoints \cup ServedBy(worker.read, Nodes))
                    \ ServedBy(Updated, worker.work.removed)
  /\ worker' = IdleWorker
  /\ UNCHANGED <<zkVars, watchVars, watching, nodes, queue, lister, errors>>

\* The rest of the work item: update _members, on_leave for the removed
\* nodes that are members, then on_join for the nodes read.
WorkerNotify ==
  /\ worker.pc = "reading" /\ worker.todo = {}
  /\ members' = [n \in Nodes |-> IF n \in worker.work.removed THEN Absent ELSE Updated[n]]
  /\ endpoints' = (endpoints \ ServedBy(Updated, worker.work.removed))
                    \cup ServedBy(worker.read, Nodes)
  /\ worker' = IdleWorker
  /\ UNCHANGED <<zkVars, watchVars, watching, nodes, queue, lister, errors>>

-----------------------------------------------------------------------------
(* The lister: iterating the ServerSet, then start's or stop's loop.       *)

ListerList ==
  /\ lister.pc = "list"
  /\ lister' = [lister EXCEPT !.pc = "read", !.todo = Known(zk) \cap Accepted,
                              !.read = Empty]
  /\ UNCHANGED <<zkVars, watchVars, setVars, errors, endpoints>>

ListerRead(n) ==
  /\ lister.pc = "read" /\ n \in lister.todo
  /\ \E answer \in {zk[n], Absent} :
       Answer(n, answer) /\ lister' = ReadNode(lister, n, answer)
  /\ UNCHANGED <<zkVars, watchVars, setVars, endpoints>>

\* start adds every member listed; the blocker has just been released, but
\* there is no switch before the last of them is added.
StartAdds ==
  /\ lister.pc = "read" /\ lister.todo = {} /\ ~lister.stopping
  /\ endpoints' = endpoints \cup ServedBy(lister.read, Nodes)
  /\ lister' = [lister EXCEPT !.pc = "running", !.read = Empty]
  /\ UNCHANGED <<zkVars, watchVars, setVars, errors>>

Stop ==
  /\ CanStop /\ lister.pc = "running"
  /\ lister' = [lister EXCEPT !.pc = "list", !.stopping = TRUE]
  /\ UNCHANGED <<zkVars, watchVars, setVars, errors, endpoints>>

\* stop removes what it lists; the watches and the worker stay.
StopRemoves ==
  /\ lister.pc = "read" /\ lister.todo = {} /\ lister.stopping
  /\ endpoints' = endpoints \ ServedBy(lister.read, Nodes)
  /\ lister' = [lister EXCEPT !.pc = "stopped", !.read = Empty]
  /\ UNCHANGED <<zkVars, watchVars, setVars, errors>>

-----------------------------------------------------------------------------
Environment ==
  \/ CreatePath
  \/ DeletePath
  \/ \E n \in Nodes : \E e \in MayServe[n] : AddNode(n, e)
  \/ \E n \in Nodes : RemoveNode(n)

RunnerStep ==
  \/ DataGet
  \/ PathGone
  \/ PathStillWatched
  \/ BeginWatch
  \/ OpenGet
  \/ \E w \in 1 .. opened : ChildGet(w)
  \/ ChildCall

WorkerStep ==
  \/ WorkerTake
  \/ \E n \in Nodes : WorkerRead(n)
  \/ WorkerNotify

ListerStep ==
  \/ ListerList
  \/ \E n \in Nodes : ListerRead(n)
  \/ StartAdds
  \/ StopRemoves

Next == Environment \/ RunnerStep \/ WorkerStep \/ ListerStep \/ Stop

Spec == Init /\ [][Next]_vars

\* gevent resumes every greenlet whose wait is over, and kazoo answers every
\* call; nothing obliges ZooKeeper's other clients or the caller of stop.
FairSpec == Spec /\ WF_vars(RunnerStep) /\ WF_vars(WorkerStep) /\ WF_vars(ListerStep)

-----------------------------------------------------------------------------
(* Safety.                                                                 *)

\* The work not yet reflected in _members, the worker's current item first.
Pending == (IF worker.pc = "idle" THEN << >> ELSE <<worker.work>>) \o queue

\* A member whose node the watch no longer sees is always about to be removed:
\* the difference that removes it is queued behind everything that could still
\* add it.  (_members, _nodes and _notification_queue are written by different
\* greenlets; _nodes runs ahead of _members.)
NoOrphanMember ==
  \A n \in Known(members) :
    n \in nodes \/ \E i \in DOMAIN Pending : n \in Pending[i].removed

\* Until stop, the source serves the endpoint of every member of its
\* ServerSet, whichever of start's loop, on_join and on_leave ran last.
MemberServed ==
  ~lister.stopping => \A n \in Known(members) : members[n] \in endpoints

\* While start lists and reads the nodes, no join or leave is announced: the
\* callback blocker makes the listing look atomic to the callbacks.
StartUndisturbed ==
  [][Blocking /\ ~lister.stopping /\ lister' = lister
       => UNCHANGED <<members, endpoints>>]_vars

-----------------------------------------------------------------------------
(* Liveness, under FairSpec.                                               *)

\* A node that stays under the path has its endpoint served in the end, unless
\* the source is stopped or a read failed: the one-shot watches, the differences
\* and the worker lose no arrival.  Nor is an endpoint lost that passes from one
\* node to the next, as long as no two have it at a time.
LiveNodeServed ==
  \A n \in Accepted :
    /\ [](\A k \in Nodes \ {n} : zk[k] = Absent \/ zk[k] # zk[n])
    /\ <>[](zk[n] # Absent /\ ~lister.stopping /\ errors = 0)
    => <>[](zk[n] # Absent /\ zk[n] \in endpoints)

\* A member whose node is gone does not stay a member.
DepartedMemberDropped ==
  \A n \in Nodes : (members[n] # Absent /\ zk[n] = Absent) ~> (members[n] = Absent)

\* It does not as long as the path is never deleted, so that every leave goes
\* through the worker.
DepartedUnlessDeleted == [](paths > 0 => path # 0) => DepartedMemberDropped

\* An endpoint that no node names any more is dropped in the end.
DepartedEndpointDropped ==
  \A e \in Endpoints :
    <>[](\A n \in Nodes : zk[n] # e) => <>[](e \notin endpoints)

\* While the path exists, the watch on its children is always set again.
ChildrenWatched == <>[](path # 0) => []<>(childArmed # {})

-----------------------------------------------------------------------------
(* The promise of the pipeline of watch, differences and worker: it is a   *)
(* stream of snapshots of the children (MembershipView).                   *)

\* The snapshot that item i of Pending brings _members up to: the current
\* _nodes with the later differences undone.
SnapshotAt(i) ==
  {n \in Nodes :
     LET later == {j \in i + 1 .. Len(Pending) : n \in Pending[j].new \cup Pending[j].removed}
     IN IF later = {} THEN n \in nodes
        ELSE \E j \in later : /\ \A k \in later : j <= k
                              /\ n \in Pending[j].removed}

View == INSTANCE MembershipView
          WITH snapshots <- [i \in 1 .. Len(Pending) |-> SnapshotAt(i)], view <- members

MembersFollowSnapshots == View!Spec
=============================================================================
