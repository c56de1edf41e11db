------------------------------ MODULE Curator ------------------------------
(***************************************************************************)
(* Curator service discovery: source/sources/curator.py.                   *)
(*                                                                         *)
(* The design is that of ServerSet, and so are the greenlets: the runner   *)
(* of kazoo's callbacks, the notification worker, and the lister, which    *)
(* runs start and stop.  What differs is what a failure does: a node that  *)
(* cannot be read, or names no address or port, makes the worker give up   *)
(* the whole difference, and makes start raise.                            *)
(*                                                                         *)
(* A ChildrenWatch lists the children and makes its callback in one        *)
(* action: only the runner uses _nodes and puts into the queue, so nothing *)
(* that runs between the two could tell.                                   *)
(***************************************************************************)
EXTENDS Naturals, Sequences

CONSTANTS
  Nodes,       \* ids of service instances: the children of the path
  Endpoints,   \* host:port pairs
  Absent,      \* no instance
  Malformed,   \* instance data without an address or a port
  MayServe,    \* what the data of each node may say
  Accepted,    \* the nodes that pass the instance_filter
  MaxPaths,    \* bound: how often the path is created
  MaxJoins,    \* bound: how often an instance is registered
  MayFail      \* whether node reads may fail for another reason than NoNode

ASSUME CuratorAssumption ==
  /\ Absent \notin Endpoints /\ Malformed \notin Endpoints /\ Absent # Malformed
  /\ MayServe \in [Nodes -> SUBSET (Endpoints \cup {Malformed})]
  /\ Accepted \subseteq Nodes
  /\ MaxPaths \in Nat /\ MaxJoins \in Nat /\ MayFail \in BOOLEAN

VARIABLES
  (* ZooKeeper and kazoo *)
  path,        \* the incarnation of the path, 0 while it does not exist
  paths,       \* incarnations created so far
  zk,          \* the data of each existing child, Absent for the others
  joins,       \* instances registered so far
  dataDue,     \* the DataWatch has been told of a change of the path
  dataVersion, \* DataWatch._version: the incarnation last reported
  armed,       \* how many ChildrenWatches are set
  fired,       \* how many were told of a change and have yet to list
  runner,      \* what the runner is doing
  (* ServiceDiscovery *)
  watching,    \* _watching
  nodes,       \* _nodes
  members,     \* _members, Absent for a name that is no key
  queue,       \* _notification_queue
  worker,      \* the _notification_worker greenlet
  (* CuratorServiceDiscoverySource and ProxySource *)
  lister,      \* the greenlet running start or stop
  endpoints,   \* ProxySource._endpoints
  (* history *)
  lost,        \* members whose leave the worker gave up
  skipped      \* nodes whose join the worker gave up, or that it found gone

zkVars == <<path, paths, zk, joins>>
watchVars == <<dataDue, dataVersion, armed, fired, runner>>
setVars == <<watching, nodes, members, queue, worker>>
sourceVars == <<lister, endpoints>>
historyVars == <<lost, skipped>>
vars == <<zkVars, watchVars, setVars, sourceVars, historyVars>>

MaybeData == Endpoints \cup {Absent, Malformed}
Table == [Nodes -> Endpoints \cup {Absent}]
Empty == [n \in Nodes |-> Absent]
Known(table) == {n \in Nodes : table[n] # Absent}
ServedBy(table, ns) == {table[n] : n \in ns \cap Known(table)}

Work == [new : SUBSET Nodes, removed : SUBSET Nodes]
Worker == [busy : BOOLEAN, work : Work, todo : SUBSET Nodes, read : Table]
IdleWorker == [busy |-> FALSE, work |-> [new |-> {}, removed |-> {}], todo |-> {}, read |-> Empty]

Lister == [pc : {"construct", "list", "read", "running", "failed", "stopped"},
           stopping : BOOLEAN, todo : SUBSET Nodes, read : Table]

TypeOK ==
  /\ path \in 0 .. MaxPaths /\ paths \in 0 .. MaxPaths
  /\ zk \in [Nodes -> MaybeData] /\ joins \in 0 .. MaxJoins
  /\ dataDue \in BOOLEAN /\ dataVersion \in 0 .. MaxPaths
  /\ armed \in Nat /\ fired \in Nat
  /\ runner \in {"construct", "idle", "dataCall", "open"}
  /\ watching \in BOOLEAN /\ nodes \in SUBSET Nodes /\ members \in Table
  /\ queue \in Seq(Work) /\ worker \in Worker
  /\ lister \in Lister /\ endpoints \in SUBSET Endpoints
  /\ lost \in SUBSET Nodes /\ skipped \in SUBSET Nodes

\* start is about to construct the DataWatch, whose first read runs in the same
\* greenlet.  The path may be there or not, with any children.
Init ==
  /\ path \in {0, 1} /\ path <= MaxPaths /\ paths = path
  /\ zk \in [Nodes -> MaybeData]
  /\ \A n \in Nodes : zk[n] \in MayServe[n] \cup {Absent} /\ (path = 0 => zk[n] = Absent)
  /\ joins = 0
  /\ dataDue = FALSE /\ dataVersion = 0 /\ armed = 0 /\ fired = 0 /\ runner = "construct"
  /\ watching = FALSE /\ nodes = {} /\ members = Empty
  /\ queue = << >> /\ worker = IdleWorker
  /\ lister = [pc |-> "construct", stopping |-> FALSE, todo |-> {}, read |-> Empty]
  /\ endpoints = {}
  /\ lost = {} /\ skipped = {}

-----------------------------------------------------------------------------
(* ZooKeeper.                                                              *)

\* A change of the children is told to every ChildrenWatch that is set.
FireChildren == fired' = fired + armed /\ armed' = 0

FireData == dataDue' = (runner # "construct")

CreatePath ==
  /\ path = 0 /\ paths < MaxPaths
  /\ path' = paths + 1 /\ paths' = paths + 1
  /\ FireData
  /\ UNCHANGED <<zk, joins, dataVersion, armed, fired, runner, setVars, sourceVars, historyVars>>

DeletePath ==
  /\ path # 0 /\ \A n \in Nodes : zk[n] = Absent
  /\ path' = 0
  /\ FireData /\ FireChildren
  /\ UNCHANGED <<paths, zk, joins, dataVersion, runner, setVars, sourceVars, historyVars>>

\* An instance is registered, under the id of an earlier one when it is the same
\* service that lost its session.
Register(n, data) ==
  /\ path # 0 /\ zk[n] = Absent /\ joins < MaxJoins
  /\ zk' = [zk EXCEPT ![n] = data] /\ joins' = joins + 1
  /\ FireChildren
  /\ UNCHANGED <<path, paths, dataDue, dataVersion, runner, setVars, sourceVars, historyVars>>

Unregister(n) ==
  /\ zk[n] # Absent
  /\ zk' = [zk EXCEPT ![n] = Absent]
  /\ FireChildren
  /\ UNCHANGED <<path, paths, joins, dataDue, dataVersion, runner, setVars, sourceVars, historyVars>>

-----------------------------------------------------------------------------
(* The runner: _monitor, _data_changed, _begin_watch and _on_set_changed.  *)

\* ServiceDiscovery.__init__ returns after the first callback; start goes on.
Finish ==
  /\ runner' = "idle"
  /\ lister' = IF lister.pc = "construct" THEN [lister EXCEPT !.pc = "list"] ELSE lister

\* DataWatch._get_data: the callback follows if the path's version changed.
DataGet ==
  /\ runner = "construct" \/ (runner = "idle" /\ dataDue)
  /\ dataDue' = FALSE /\ dataVersion' = path
  /\ runner' = IF runner = "construct" \/ path # dataVersion THEN "dataCall" ELSE "idle"
  /\ UNCHANGED <<zkVars, armed, fired, setVars, sourceVars, historyVars>>

\* Mutant: the members are announced as gone but kept.
PathGoneKeepsMembers ==
  /\ runner = "dataCall" /\ dataVersion = 0
  /\ watching' = FALSE
  /\ endpoints' = endpoints \ ServedBy(members, Nodes)
  /\ Finish
  /\ UNCHANGED <<zkVars, dataDue, dataVersion, armed, fired, nodes, members, queue, worker,
                 historyVars>>

\* _data_changed when the path is gone, with _send_all_removed.
PathGone ==
  /\ runner = "dataCall" /\ dataVersion = 0
  /\ watching' = FALSE /\ members' = Empty
  /\ endpoints' = endpoints \ ServedBy(members, Nodes)
  /\ Finish
  /\ UNCHANGED <<zkVars, dataDue, dataVersion, armed, fired, nodes, queue, worker, historyVars>>

\* _data_changed when the path is there: _watching is set before the children
\* are watched, unless they are already.
BeginWatch ==
  /\ runner = "dataCall" /\ dataVersion # 0
  /\ IF watching THEN Finish /\ UNCHANGED watching
                 ELSE watching' = TRUE /\ runner' = "open" /\ UNCHANGED lister
  /\ UNCHANGED <<zkVars, dataDue, dataVersion, armed, fired, nodes, members, queue, worker,
                 endpoints, historyVars>>

\* Mutants: the watch is not set again; the queue is a stack.
ListOnce(others) ==
  /\ armed' = armed /\ fired' = others
  /\ IF path = 0 THEN UNCHANGED <<nodes, queue>>
     ELSE LET children == {n \in Accepted : zk[n] # Absent} IN
          /\ nodes' = children
          /\ queue' = Append(queue, [new |-> children \ nodes, removed |-> nodes \ children])

ListAndPush(others) ==
  /\ armed' = IF path = 0 THEN armed ELSE armed + 1
  /\ fired' = others
  /\ IF path = 0 THEN UNCHANGED <<nodes, queue>>
     ELSE LET children == {n \in Accepted : zk[n] # Absent} IN
          /\ nodes' = children
          /\ queue' = <<[new |-> children \ nodes, removed |-> nodes \ children]>> \o queue

\* A ChildrenWatch lists and watches again, and calls _on_set_changed, which
\* queues the difference; one that finds no path stops for good.
ListChildren(others) ==
  /\ armed' = IF path = 0 THEN armed ELSE armed + 1
  /\ fired' = others
  /\ IF path = 0 THEN UNCHANGED <<nodes, queue>>
     ELSE LET children == {n \in Accepted : zk[n] # Absent} IN
          /\ nodes' = children
          /\ queue' = Append(queue, [new |-> children \ nodes, removed |-> nodes \ children])

\* _begin_watch, when the ChildrenWatch is constructed.
OpenWatch ==
  /\ runner = "open" /\ ListChildren(fired) /\ Finish
  /\ UNCHANGED <<zkVars, dataDue, dataVersion, watching, members, worker, endpoints, historyVars>>

ChildrenChanged ==
  /\ runner = "idle" /\ fired > 0 /\ ListChildren(fired - 1)
  /\ UNCHANGED <<zkVars, dataDue, dataVersion, runner, watching, members, worker, sourceVars,
                 historyVars>>

-----------------------------------------------------------------------------
(* Reading one node: _safe_zk_node_to_member.                              *)

\* The node is gone, and skipped, or it is an instance.
Reads(n, answer) == answer = zk[n] /\ answer # Malformed

\* Reading or parsing it raises.
ReadRaises(n) == zk[n] = Malformed \/ MayFail

-----------------------------------------------------------------------------
(* The notification worker.                                                *)

\* Mutant: the callback blocker is not released when the iteration raises.
BlockingAfterRaise == lister.pc \in {"list", "read", "failed"}

\* __iter__ holds the callback blocker, and releases it also when it raises.
Blocking == lister.pc \in {"list", "read"}

WorkerTake ==
  /\ ~worker.busy /\ queue # << >> /\ ~Blocking
  /\ worker' = [busy |-> TRUE, work |-> Head(queue), todo |-> Head(queue).new, read |-> Empty]
  /\ queue' = Tail(queue)
  /\ UNCHANGED <<zkVars, watchVars, watching, nodes, members, sourceVars, historyVars>>

WorkerRead(n) ==
  /\ worker.busy /\ n \in worker.todo /\ Reads(n, zk[n])
  /\ worker' = [worker EXCEPT !.todo = @ \ {n}, !.read[n] = zk[n]]
  /\ UNCHANGED <<zkVars, watchVars, watching, nodes, members, queue, sourceVars, historyVars>>

\* One node that cannot be read costs the whole difference: nothing joins and
\* nothing leaves, and _nodes will not bring them up again.
WorkerGivesUp(n) ==
  /\ worker.busy /\ n \in worker.todo /\ ReadRaises(n)
  /\ worker' = IdleWorker
  /\ lost' = lost \cup (worker.work.removed \cap Known(members))
  /\ skipped' = skipped \cup worker.work.new
  /\ UNCHANGED <<zkVars, watchVars, watching, nodes, members, queue, sourceVars>>

Updated == [n \in Nodes |-> IF worker.read[n] # Absent THEN worker.read[n] ELSE members[n]]

\* The rest of the work item: _members is updated, the removed leave, and the
\* nodes read join.
WorkerNotify ==
  /\ worker.busy /\ worker.todo = {}
  /\ members' = [n \in Nodes |-> IF n \in worker.work.removed THEN Absent ELSE Updated[n]]
  /\ endpoints' = (endpoints \ ServedBy(Updated, worker.work.removed))
                    \cup ServedBy(worker.read, Nodes)
  /\ worker' = IdleWorker
  /\ lost' = lost \ (worker.work.removed \cup Known(worker.read))
  /\ skipped' = (skipped \cup worker.work.new) \ (worker.work.removed \cup Known(worker.read))
  /\ UNCHANGED <<zkVars, watchVars, watching, nodes, queue, lister>>

-----------------------------------------------------------------------------
(* The lister: start and stop iterate the ServiceDiscovery.                *)

ListerList ==
  /\ lister.pc = "list"
  /\ lister' = [lister EXCEPT !.pc = "read", !.read = Empty,
                              !.todo = {n \in Accepted : zk[n] # Absent}]
  /\ UNCHANGED <<zkVars, watchVars, setVars, endpoints, historyVars>>

ListerRead(n) ==
  /\ lister.pc = "read" /\ n \in lister.todo /\ Reads(n, zk[n])
  /\ lister' = [lister EXCEPT !.todo = @ \ {n}, !.read[n] = zk[n]]
  /\ UNCHANGED <<zkVars, watchVars, setVars, endpoints, historyVars>>

\* The iteration raises out of start or stop, and releases the blocker.
ListerRaises(n) ==
  /\ lister.pc = "read" /\ n \in lister.todo /\ ReadRaises(n)
  /\ lister' = [lister EXCEPT !.todo = {}, !.read = Empty, !.pc = "failed"]
  /\ UNCHANGED <<zkVars, watchVars, setVars, endpoints, historyVars>>

\* start adds, or stop removes, all it has listed.
ListerDone ==
  /\ lister.pc = "read" /\ lister.todo = {}
  /\ endpoints' = IF lister.stopping THEN endpoints \ ServedBy(lister.read, Nodes)
                                     ELSE endpoints \cup ServedBy(lister.read, Nodes)
  /\ lister' = [lister EXCEPT !.pc = IF lister.stopping THEN "stopped" ELSE "running",
                              !.read = Empty]
  /\ UNCHANGED <<zkVars, watchVars, setVars, historyVars>>

Stop ==
  /\ lister.pc = "running"
  /\ lister' = [lister EXCEPT !.pc = "list", !.stopping = TRUE]
  /\ UNCHANGED <<zkVars, watchVars, setVars, endpoints, historyVars>>

-----------------------------------------------------------------------------
Environment ==
  \/ CreatePath \/ DeletePath
  \/ \E n \in Nodes : \E data \in MayServe[n] : Register(n, data)
  \/ \E n \in Nodes : Unregister(n)

RunnerStep == DataGet \/ PathGone \/ BeginWatch \/ OpenWatch \/ ChildrenChanged

WorkerStep ==
  \/ WorkerTake
  \/ \E n \in Nodes : WorkerRead(n) \/ WorkerGivesUp(n)
  \/ WorkerNotify

ListerStep ==
  \/ ListerList
  \/ \E n \in Nodes : ListerRead(n) \/ ListerRaises(n)
  \/ ListerDone

Next == Environment \/ RunnerStep \/ WorkerStep \/ ListerStep \/ Stop

Spec == Init /\ [][Next]_vars

\* gevent resumes every greenlet whose wait is over, and kazoo answers every call.
FairSpec == Spec /\ WF_vars(RunnerStep) /\ WF_vars(WorkerStep) /\ WF_vars(ListerStep)

-----------------------------------------------------------------------------
\* The work not yet reflected in _members.
Pending == (IF worker.busy THEN <<worker.work>> ELSE << >>) \o queue

\* A member whose node the watch no longer sees is about to be removed, or its
\* leave was in a difference the worker gave up: nothing else orphans a member.
OrphansWereGivenUp ==
  \A n \in Known(members) :
    \/ n \in nodes \/ n \in lost
    \/ \E i \in DOMAIN Pending : n \in Pending[i].removed

\* Until the source is stopped, every member's endpoint is served, also when
\* start has raised.
MemberServed ==
  ~lister.stopping => \A n \in Known(members) : members[n] \in endpoints

\* While the path is not deleted, an instance that stays registered is served in
\* the end, also by a source whose start raised, unless the worker gave up its
\* join or the source is stopped.  (It also stays out if the worker finds it gone
\* and the same id is registered again before the children are listed: their
\* difference is empty.)
InstanceServed ==
  [](paths > 0 => path # 0) =>
    \A n \in Accepted :
      <>[](zk[n] \in Endpoints /\ n \notin skipped /\ ~lister.stopping)
        => <>[](zk[n] \in endpoints)

\* While the path is not deleted, a member that unregisters is dropped, unless the
\* worker gave up its leave or it registers again.
DepartedDroppedOrGivenUp ==
  [](paths > 0 => path # 0) =>
    \A n \in Nodes :
      (members[n] # Absent /\ zk[n] = Absent)
        ~> (members[n] = Absent \/ n \in lost \/ zk[n] # Absent)

\* README: whenever an instance is added or removed, an update is signaled - so the
\* endpoint of an instance that is gone for good is not served for ever.
DepartedDropped ==
  [](paths > 0 => path # 0) =>
    \A n \in Nodes : <>[](zk[n] = Absent) => <>[](members[n] = Absent)
=============================================================================
