-------------------------- MODULE ServerSetProofs --------------------------
(* Theorems about ServerSet and MesosMaster, for every set of nodes and every bound. *)
EXTENDS MesosMaster, SequenceTheorems, FiniteSetTheorems, TLAPS

\* What a watch event appended by Fire is.
LEMMA FireType ==
  ASSUME NEW data \in BOOLEAN, NEW child \in BOOLEAN, TypeOK, Fire(data, child)
  PROVE  /\ events' \in Seq(Event)
         /\ dataArmed' \in BOOLEAN
         /\ childArmed' \in SUBSET Nat
<1>1. events \in Seq(Event) /\ dataArmed \in BOOLEAN /\ childArmed \in SUBSET Nat
  BY DEF TypeOK
<1>2. [kind |-> "data", watches |-> {}] \in Event
  BY DEF Event
<1>3. [kind |-> "child", watches |-> childArmed] \in Event
  BY <1>1 DEF Event
<1>4. (IF data /\ dataArmed THEN <<[kind |-> "data", watches |-> {}]>> ELSE << >>) \in Seq(Event)
  BY <1>2
<1>5. (IF child /\ childArmed # {} THEN <<[kind |-> "child", watches |-> childArmed]>> ELSE << >>)
        \in Seq(Event)
  BY <1>3
<1>6. events' \in Seq(Event)
  BY <1>1, <1>4, <1>5 DEF Fire
<1> QED
  BY <1>1, <1>6 DEF Fire

\* A reader that has read one more node is still a reader of its type.
LEMMA ReadNodeType ==
  ASSUME NEW n \in Nodes, NEW answer \in {zk[n], Absent}, TypeOK
  PROVE  /\ ReadNode(worker, n, answer) \in Worker
         /\ ReadNode(lister, n, answer) \in Lister
<1>1. answer \in MaybeEndpoint
  BY DEF TypeOK, Table, MaybeEndpoint
<1>2. worker.read \in Table /\ lister.read \in Table
  BY DEF TypeOK, Worker, Lister
<1>3. [worker.read EXCEPT ![n] = answer] \in Table /\ [lister.read EXCEPT ![n] = answer] \in Table
  BY <1>1, <1>2 DEF Table
<1>4. ReadNode(worker, n, answer)
        = [worker EXCEPT !.todo = worker.todo \ {n}, !.read = [worker.read EXCEPT ![n] = answer]]
  BY DEF ReadNode, TypeOK, Worker
<1>5. ReadNode(lister, n, answer)
        = [lister EXCEPT !.todo = lister.todo \ {n}, !.read = [lister.read EXCEPT ![n] = answer]]
  BY DEF ReadNode, TypeOK, Lister
<1>6. ReadNode(worker, n, answer) \in Worker
  BY <1>3, <1>4 DEF TypeOK, Worker
<1>7. ReadNode(lister, n, answer) \in Lister
  BY <1>3, <1>5 DEF TypeOK, Lister
<1> QED
  BY <1>6, <1>7

\* The pieces that the type of many states repeats.
LEMMA IdleTypes ==
  /\ Empty \in Table
  /\ IdleRunner \in Runner
  /\ NoWork \in Work
  /\ IdleWorker \in Worker
<1>1. Empty \in Table
  BY DEF Empty, Table, MaybeEndpoint
<1>2. NoWork \in Work
  BY DEF NoWork, Work
<1> QED
  BY <1>1, <1>2 DEF IdleRunner, Runner, IdleWorker, Worker

\* What the endpoints of a table are.
LEMMA ServedByType ==
  ASSUME NEW table \in Table, NEW ns
  PROVE  ServedBy(table, ns) \in SUBSET Endpoints
BY DEF ServedBy, Known, Table, MaybeEndpoint

\* The end of a run of the runner.
LEMMA FinishType ==
  ASSUME TypeOK, Finish
  PROVE  runner' \in Runner /\ lister' \in Lister
BY IdleTypes DEF Finish, TypeOK, Lister

-----------------------------------------------------------------------------
(* Type correctness, one step per action.                                  *)

LEMMA InitType == ASSUME Init PROVE TypeOK
<1> USE ServerSetAssumption, IdleTypes
<1>1. path \in 0 .. MaxPaths /\ paths \in 0 .. MaxPaths
  BY DEF Init
<1>2. runner \in Runner
  BY DEF Init, IdleRunner, Runner
<1>3. lister \in Lister
  BY DEF Init, Lister
<1>4. events \in Seq(Event) /\ queue \in Seq(Work)
  BY DEF Init
<1>5. zk \in Table /\ issued \in SUBSET Nodes
  BY DEF Init
<1>6. /\ dataArmed \in BOOLEAN /\ childArmed \in SUBSET Nat
      /\ dataVersion \in 0 .. MaxPaths /\ opened \in Nat
      /\ errors \in 0 .. MaxErrors /\ endpoints \in SUBSET Endpoints
  <2>1. 0 \in 0 .. MaxPaths /\ 0 \in 0 .. MaxErrors
    BY DEF ServerSetAssumption
  <2>2. dataArmed = FALSE /\ childArmed = {} /\ dataVersion = 0 /\ opened = 0
          /\ errors = 0 /\ endpoints = {}
    BY DEF Init
  <2> QED
    BY <2>1, <2>2
<1>7. watching \in BOOLEAN /\ nodes \in SUBSET Nodes /\ members \in Table /\ worker \in Worker
  BY DEF Init
<1> QED
  BY <1>1, <1>2, <1>3, <1>4, <1>5, <1>6, <1>7 DEF TypeOK

LEMMA EnvironmentType == ASSUME TypeOK, Environment PROVE TypeOK'
<1> USE ServerSetAssumption
<1>1. CASE CreatePath
  <2>1. events' \in Seq(Event) /\ dataArmed' \in BOOLEAN /\ childArmed' \in SUBSET Nat
    BY <1>1, FireType DEF CreatePath
  <2>2. path' \in 0 .. MaxPaths /\ paths' \in 0 .. MaxPaths /\ issued' \in SUBSET Nodes
    BY <1>1 DEF CreatePath, TypeOK
  <2> QED
    BY <1>1, <2>1, <2>2 DEF CreatePath, TypeOK, setVars, sourceVars
<1>2. CASE DeletePath
  <2>1. events' \in Seq(Event) /\ dataArmed' \in BOOLEAN /\ childArmed' \in SUBSET Nat
    BY <1>2, FireType DEF DeletePath
  <2> QED
    BY <1>2, <2>1 DEF DeletePath, TypeOK, setVars, sourceVars
<1>3. ASSUME NEW n \in Nodes, NEW e \in MayServe[n], AddNode(n, e) PROVE TypeOK'
  <2>1. zk' \in Table
    BY <1>3 DEF AddNode, TypeOK, Table, MaybeEndpoint
  <2> QED
    BY <1>3, <2>1, FireType DEF AddNode, TypeOK, setVars, sourceVars
<1>4. ASSUME NEW n \in Nodes, RemoveNode(n) PROVE TypeOK'
  <2>1. zk' \in Table
    BY <1>4 DEF RemoveNode, TypeOK, Table, MaybeEndpoint
  <2> QED
    BY <1>4, <2>1, FireType DEF RemoveNode, TypeOK, setVars, sourceVars
<1> QED
  BY <1>1, <1>2, <1>3, <1>4 DEF Environment

LEMMA RunnerType == ASSUME TypeOK, RunnerStep PROVE TypeOK'
<1> USE ServerSetAssumption, IdleTypes DEF zkVars, setVars, sourceVars
<1>1. CASE DataGet
  <2>1. events' = events \/ (events # << >> /\ events' = Tail(events))
    BY <1>1 DEF DataGet
  <2>3. events' \in Seq(Event)
    BY <2>1 DEF TypeOK
  <2>2. runner' \in Runner
    BY <1>1 DEF DataGet, IdleRunner, Runner
  <2> QED
    BY <1>1, <2>3, <2>2 DEF DataGet, TypeOK
<1>2. CASE PathGone
  <2>1. endpoints' \in SUBSET Endpoints
    BY <1>2 DEF PathGone, TypeOK
  <2>2. runner' \in Runner /\ lister' \in Lister
    BY <1>2, FinishType DEF PathGone
  <2> QED
    BY <1>2, <2>1, <2>2 DEF PathGone, TypeOK
<1>3. CASE PathStillWatched
  <2>1. runner' \in Runner /\ lister' \in Lister
    BY <1>3, FinishType DEF PathStillWatched
  <2> QED
    BY <1>3, <2>1 DEF PathStillWatched, TypeOK
<1>4. CASE BeginWatch
  <2>1. opened' \in Nat
    BY <1>4 DEF BeginWatch, TypeOK
  <2>2. runner' \in Runner
    BY <1>4, <2>1 DEF BeginWatch, IdleRunner, Runner
  <2> QED
    BY <1>4, <2>1, <2>2 DEF BeginWatch, TypeOK
<1>5. ASSUME NEW w \in Nat, NEW opening \in BOOLEAN, ListChildren(w, opening)
      PROVE  childArmed' \in SUBSET Nat /\ runner' \in Runner
  BY <1>5 DEF ListChildren, TypeOK, Runner, Known
<1>6. CASE OpenGet
  <2>1. childArmed' \in SUBSET Nat /\ runner' \in Runner
    BY <1>5, <1>6 DEF OpenGet, TypeOK, Runner
  <2> QED
    BY <1>6, <2>1 DEF OpenGet, TypeOK
<1>7. ASSUME NEW w \in 1 .. opened, ChildGet(w) PROVE TypeOK'
  <2>1. childArmed' \in SUBSET Nat /\ runner' \in Runner
    <3>1. w \in Nat
      BY DEF TypeOK
    <3>2. ListChildren(w, FALSE)
      BY <1>7 DEF ChildGet
    <3> QED
      BY <1>5, <3>1, <3>2
  <2>2. Head(events) \in Event /\ Tail(events) \in Seq(Event)
    BY <1>7 DEF ChildGet, TypeOK
  <2>3. [Head(events) EXCEPT !.watches = Head(events).watches \ {w}] \in Event
    BY <2>2 DEF Event
  <2>4. events' \in Seq(Event)
    BY <1>7, <2>2, <2>3 DEF ChildGet
  <2> QED
    BY <1>7, <2>1, <2>4 DEF ChildGet, TypeOK
<1>8. CASE ChildCall
  <2>1. runner' \in Runner /\ lister' \in Lister
    BY <1>8, FinishType DEF ChildCall
  <2>2. runner.children \in SUBSET Nodes /\ runner.opening \in BOOLEAN
    BY DEF TypeOK, Runner
  <2>3. [new |-> (runner.children \cap Accepted) \ nodes,
         removed |-> nodes \ (runner.children \cap Accepted)] \in Work
    BY <2>2 DEF TypeOK, Work
  <2>4. nodes' \in SUBSET Nodes /\ queue' \in Seq(Work)
    <3>1. CASE runner.found
      <4>1. nodes' = runner.children \cap Accepted
        BY <1>8, <3>1 DEF ChildCall, OnSetChanged
      <4>2. queue' = Append(queue, [new |-> (runner.children \cap Accepted) \ nodes,
                                    removed |-> nodes \ (runner.children \cap Accepted)])
        BY <1>8, <3>1 DEF ChildCall, OnSetChanged
      <4>3. queue \in Seq(Work)
        BY DEF TypeOK
      <4> QED
        BY <2>2, <2>3, <4>1, <4>2, <4>3
    <3>2. CASE ~runner.found
      BY <1>8, <3>2 DEF ChildCall, TypeOK
    <3> QED
      BY <3>1, <3>2
  <2> QED
    BY <1>8, <2>1, <2>2, <2>4 DEF ChildCall, TypeOK
<1> QED
  BY <1>1, <1>2, <1>3, <1>4, <1>6, <1>7, <1>8 DEF RunnerStep

\* _members with the nodes just read.
LEMMA UpdatedType == ASSUME TypeOK PROVE Updated \in Table
BY DEF TypeOK, Updated, Worker, Table

LEMMA WorkerType == ASSUME TypeOK, WorkerStep PROVE TypeOK'
<1> USE ServerSetAssumption, IdleTypes DEF zkVars, watchVars, sourceVars
<1>1. CASE WorkerTake
  <2>1. Head(queue) \in Work /\ Tail(queue) \in Seq(Work)
    BY <1>1 DEF WorkerTake, TypeOK
  <2>2. worker' \in Worker
    BY <1>1, <2>1 DEF WorkerTake, Worker, Work
  <2> QED
    BY <1>1, <2>1, <2>2 DEF WorkerTake, TypeOK
<1>2. ASSUME NEW n \in Nodes, WorkerRead(n) PROVE TypeOK'
  <2>1. worker' \in Worker
    BY <1>2, ReadNodeType DEF WorkerRead
  <2>2. errors' \in 0 .. MaxErrors
    BY <1>2 DEF WorkerRead, Answer, TypeOK
  <2> QED
    BY <1>2, <2>1, <2>2 DEF WorkerRead, TypeOK
<1>3. CASE WorkerNotify
  <2>1. members' \in Table
    BY <1>3, UpdatedType DEF WorkerNotify, Table, MaybeEndpoint
  <2>2. endpoints' \in SUBSET Endpoints
    BY <1>3, ServedByType DEF WorkerNotify, TypeOK, Worker
  <2> QED
    BY <1>3, <2>1, <2>2 DEF WorkerNotify, TypeOK
<1> QED
  BY <1>1, <1>2, <1>3 DEF WorkerStep

LEMMA ListerType == ASSUME TypeOK, ListerStep \/ Stop PROVE TypeOK'
<1> USE ServerSetAssumption, IdleTypes DEF zkVars, watchVars, setVars
<1>1. CASE ListerList
  BY <1>1 DEF ListerList, TypeOK, Lister, Known
<1>2. ASSUME NEW n \in Nodes, ListerRead(n) PROVE TypeOK'
  <2>1. lister' \in Lister
    BY <1>2, ReadNodeType DEF ListerRead
  <2>2. errors' \in 0 .. MaxErrors
    BY <1>2 DEF ListerRead, Answer, TypeOK
  <2> QED
    BY <1>2, <2>1, <2>2 DEF ListerRead, TypeOK
<1>3. CASE StartAdds
  <2>1. endpoints' \in SUBSET Endpoints
    BY <1>3, ServedByType DEF StartAdds, TypeOK, Lister
  <2> QED
    BY <1>3, <2>1 DEF StartAdds, TypeOK, Lister
<1>4. CASE StopRemoves
  BY <1>4 DEF StopRemoves, TypeOK, Lister
<1>5. CASE Stop
  BY <1>5 DEF Stop, TypeOK, Lister
<1> QED
  BY <1>1, <1>2, <1>3, <1>4, <1>5 DEF ListerStep

LEMMA StutterType == ASSUME TypeOK, UNCHANGED vars PROVE TypeOK'
BY DEF vars, zkVars, watchVars, setVars, sourceVars, TypeOK

\* In every reachable state of ServerSet, whatever ZooKeeper does, every
\* variable holds a value the code could hold.
THEOREM TypeCorrect == Spec => []TypeOK
<1>1. Init => TypeOK
  BY InitType
<1>2. TypeOK /\ [Next]_vars => TypeOK'
  BY EnvironmentType, RunnerType, WorkerType, ListerType, StutterType DEF Next
<1> QED
  BY <1>1, <1>2, PTL DEF Spec

-----------------------------------------------------------------------------
(* No orphan members.  NoOrphanMember speaks of members only; to be        *)
(* inductive it needs the same promise for whatever can still make a node  *)
(* a member: the nodes the worker has read, and the queued arrivals, which *)
(* must have their departure behind them in the queue.                     *)

\* A departure of n is queued after position k.
LeavesAfter(n, k) == \E i \in DOMAIN queue : i > k /\ n \in queue[i].removed

Reading == worker.pc = "reading"

OrphanInv ==
  /\ \A n \in Nodes : members[n] # Absent =>
       n \in nodes \/ (Reading /\ n \in worker.work.removed) \/ LeavesAfter(n, 0)
  /\ Reading => \A n \in worker.work.new :
       n \notin worker.work.removed /\ (n \in nodes \/ LeavesAfter(n, 0))
  /\ \A k \in DOMAIN queue : \A n \in queue[k].new :
       n \notin queue[k].removed /\ (n \in nodes \/ LeavesAfter(n, k))
  /\ \A n \in Nodes : worker.read[n] # Absent => Reading /\ n \in worker.work.new
  /\ Reading => worker.todo \subseteq worker.work.new

LEMMA OrphanInvInit == ASSUME Init PROVE OrphanInv
BY DEF Init, OrphanInv, IdleWorker, Empty, Reading

\* Steps that leave the pipeline alone, or only clear _members.
LEMMA OrphanInvFrame ==
  ASSUME OrphanInv, UNCHANGED <<nodes, queue, worker>>,
         members' = members \/ members' = Empty
  PROVE  OrphanInv'
BY DEF OrphanInv, Reading, LeavesAfter, Empty

\* A new set of children: what leaves is queued behind everything else.
LEMMA OrphanInvSetChanged ==
  ASSUME TypeOK, OrphanInv, NEW children \in SUBSET Nodes, OnSetChanged(children),
         UNCHANGED <<members, worker>>
  PROVE  OrphanInv'
<1> DEFINE item == [new |-> children \ nodes, removed |-> nodes \ children]
<1>1. /\ queue \in Seq(Work) /\ item \in Work /\ queue' = Append(queue, item)
      /\ nodes' = children
  BY DEF TypeOK, Work, OnSetChanged
<1>2. /\ Len(queue') = Len(queue) + 1 /\ Len(queue) \in Nat
      /\ DOMAIN queue = 1 .. Len(queue) /\ DOMAIN queue' = 1 .. Len(queue) + 1
      /\ \A i \in DOMAIN queue : queue'[i] = queue[i]
      /\ queue'[Len(queue) + 1] = item
  BY <1>1
<1>3. ASSUME NEW n, NEW k \in 0 .. Len(queue), n \in nodes \/ LeavesAfter(n, k)
      PROVE  n \in nodes' \/ LeavesAfter(n, k)'
  <2>1. CASE LeavesAfter(n, k)
    BY <1>2, <2>1 DEF LeavesAfter
  <2>2. CASE n \in nodes /\ n \notin children
    <3>1. n \in queue'[Len(queue) + 1].removed
      BY <1>2, <2>2
    <3>2. Len(queue) + 1 \in DOMAIN queue' /\ Len(queue) + 1 > k
      BY <1>2
    <3> QED
      BY <3>1, <3>2 DEF LeavesAfter
  <2>3. CASE n \in children
    BY <1>1, <2>3
  <2> QED
    BY <1>3, <2>1, <2>2, <2>3
<1>4. 0 \in 0 .. Len(queue) /\ \A k \in DOMAIN queue : k \in 0 .. Len(queue)
  BY <1>2
<1>5. ASSUME NEW n \in Nodes, members'[n] # Absent
      PROVE  n \in nodes' \/ (Reading' /\ n \in worker'.work.removed) \/ LeavesAfter(n, 0)'
  BY <1>3, <1>4, <1>5 DEF OrphanInv, Reading
<1>6. ASSUME Reading', NEW n \in worker'.work.new
      PROVE  n \notin worker'.work.removed /\ (n \in nodes' \/ LeavesAfter(n, 0)')
  BY <1>3, <1>4, <1>6 DEF OrphanInv, Reading
<1>7. ASSUME NEW k \in DOMAIN queue', NEW n \in queue'[k].new
      PROVE  n \notin queue'[k].removed /\ (n \in nodes' \/ LeavesAfter(n, k)')
  <2>1. CASE k \in DOMAIN queue
    BY <1>2, <1>3, <1>4, <2>1 DEF OrphanInv
  <2>2. CASE k = Len(queue) + 1
    BY <1>1, <1>2, <2>2
  <2> QED
    BY <1>2, <2>1, <2>2
<1> QED
  BY <1>5, <1>6, <1>7 DEF OrphanInv, Reading

\* The worker takes the head of the queue: the positions behind it move up.
LEMMA OrphanInvTake == ASSUME TypeOK, OrphanInv, WorkerTake PROVE OrphanInv'
<1>1. /\ queue \in Seq(Work) /\ queue # << >> /\ queue' = Tail(queue)
      /\ worker.pc = "idle" /\ worker' = [pc |-> "reading", work |-> Head(queue),
                                          todo |-> Head(queue).new, read |-> Empty]
      /\ nodes' = nodes /\ members' = members
  BY DEF WorkerTake, TypeOK
<1>2. /\ Len(queue) \in Nat /\ Len(queue) >= 1 /\ Head(queue) = queue[1]
      /\ DOMAIN queue = 1 .. Len(queue) /\ DOMAIN queue' = 1 .. Len(queue) - 1
      /\ \A i \in DOMAIN queue' : queue'[i] = queue[i + 1]
  BY <1>1
<1>3. ASSUME NEW n, NEW k \in 1 .. Len(queue), LeavesAfter(n, k)
      PROVE  LeavesAfter(n, k - 1)'
  <2>1. PICK i \in DOMAIN queue : i > k /\ n \in queue[i].removed
    BY <1>3 DEF LeavesAfter
  <2>2. i - 1 \in DOMAIN queue' /\ i - 1 > k - 1 /\ queue'[i - 1] = queue[i]
    BY <1>2, <2>1
  <2> QED
    BY <2>1, <2>2 DEF LeavesAfter
<1>4. ASSUME NEW n \in Nodes, members'[n] # Absent
      PROVE  n \in nodes' \/ (Reading' /\ n \in worker'.work.removed) \/ LeavesAfter(n, 0)'
  <2>1. n \in nodes \/ LeavesAfter(n, 0)
    BY <1>1, <1>4 DEF OrphanInv, Reading
  <2>2. CASE LeavesAfter(n, 0)
    <3>1. PICK i \in DOMAIN queue : i > 0 /\ n \in queue[i].removed
      BY <2>2 DEF LeavesAfter
    <3>2. CASE i = 1
      BY <1>1, <1>2, <3>1, <3>2 DEF Reading
    <3>3. CASE i > 1
      <4>1. LeavesAfter(n, 1)
        BY <3>1, <3>3 DEF LeavesAfter
      <4>2. 1 \in 1 .. Len(queue) /\ 1 - 1 = 0
        BY <1>2
      <4> QED
        BY <1>3, <4>1, <4>2
    <3> QED
      BY <1>2, <3>1, <3>2, <3>3
  <2> QED
    BY <1>1, <2>1, <2>2
<1>5. ASSUME NEW n \in Head(queue).new
      PROVE  n \notin Head(queue).removed /\ (n \in nodes' \/ LeavesAfter(n, 0)')
  <2>1. n \notin queue[1].removed /\ (n \in nodes \/ LeavesAfter(n, 1))
    BY <1>2, <1>5 DEF OrphanInv
  <2>2. 1 \in 1 .. Len(queue) /\ 1 - 1 = 0
    BY <1>2
  <2> QED
    BY <1>1, <1>2, <1>3, <2>1, <2>2
<1>6. ASSUME NEW k \in DOMAIN queue', NEW n \in queue'[k].new
      PROVE  n \notin queue'[k].removed /\ (n \in nodes' \/ LeavesAfter(n, k)')
  <2>1. k + 1 \in DOMAIN queue /\ queue'[k] = queue[k + 1] /\ k + 1 - 1 = k
    BY <1>2
  <2>2. n \notin queue[k + 1].removed /\ (n \in nodes \/ LeavesAfter(n, k + 1))
    BY <1>6, <2>1 DEF OrphanInv
  <2> QED
    BY <1>1, <1>2, <1>3, <2>1, <2>2
<1>7. \A n \in Nodes : worker'.read[n] = Absent
  BY <1>1 DEF Empty
<1> QED
  BY <1>1, <1>4, <1>5, <1>6, <1>7 DEF OrphanInv, Reading

\* The worker reads one of the nodes of its item.
LEMMA OrphanInvRead ==
  ASSUME TypeOK, OrphanInv, NEW n \in Nodes, WorkerRead(n) PROVE OrphanInv'
<1>1. PICK answer \in {zk[n], Absent} : worker' = ReadNode(worker, n, answer)
  BY DEF WorkerRead
<1>2. /\ worker'.pc = worker.pc /\ worker'.work = worker.work
      /\ worker'.todo = worker.todo \ {n}
      /\ worker'.read = [worker.read EXCEPT ![n] = answer]
  BY <1>1 DEF ReadNode, TypeOK, Worker
<1>3. Reading /\ n \in worker.todo /\ UNCHANGED <<nodes, members, queue>>
  BY DEF WorkerRead, Reading
<1>4. \A m \in Nodes : worker'.read[m] # Absent => m = n \/ worker.read[m] # Absent
  BY <1>2 DEF TypeOK, Worker, Table
<1> QED
  BY <1>2, <1>3, <1>4 DEF OrphanInv, Reading, LeavesAfter

\* The worker's item is done: its departures are no members any more, and the
\* nodes it read are, as promised, in _nodes or about to leave.
LEMMA OrphanInvNotify == ASSUME TypeOK, OrphanInv, WorkerNotify PROVE OrphanInv'
<1>1. /\ Reading /\ worker' = IdleWorker /\ UNCHANGED <<nodes, queue>>
      /\ members' = [n \in Nodes |-> IF n \in worker.work.removed THEN Absent ELSE Updated[n]]
  BY DEF WorkerNotify, Reading
<1>2. ~Reading' /\ \A n \in Nodes : worker'.read[n] = Absent
  BY <1>1 DEF IdleWorker, Empty, Reading
<1>3. ASSUME NEW n \in Nodes, members'[n] # Absent
      PROVE  n \in nodes' \/ LeavesAfter(n, 0)'
  <2>1. n \notin worker.work.removed /\ (worker.read[n] # Absent \/ members[n] # Absent)
    BY <1>1, <1>3 DEF Updated
  <2> QED
    BY <1>1, <2>1 DEF OrphanInv, LeavesAfter
<1> QED
  BY <1>1, <1>2, <1>3 DEF OrphanInv, LeavesAfter

LEMMA OrphanInvStep == ASSUME TypeOK, OrphanInv, [Next]_vars PROVE OrphanInv'
<1> USE DEF zkVars, watchVars, setVars, sourceVars
<1>1. CASE Environment
  <2>1. UNCHANGED <<nodes, members, queue, worker>>
    BY <1>1 DEF Environment, CreatePath, DeletePath, AddNode, RemoveNode
  <2> QED
    BY <2>1, OrphanInvFrame
<1>2. CASE RunnerStep
  <2>1. CASE ChildCall /\ runner.found
    <3>1. OnSetChanged(runner.children \cap Accepted) /\ UNCHANGED <<members, worker>>
      BY <2>1 DEF ChildCall
    <3>2. runner.children \cap Accepted \in SUBSET Nodes
      BY DEF TypeOK, Runner
    <3> QED
      BY <3>1, <3>2, OrphanInvSetChanged
  <2>2. CASE ~(ChildCall /\ runner.found)
    <3>1. UNCHANGED <<nodes, queue, worker>> /\ (members' = members \/ members' = Empty)
      BY <1>2, <2>2 DEF RunnerStep, DataGet, PathGone, PathStillWatched, BeginWatch,
                        OpenGet, ChildGet, ChildCall
    <3> QED
      BY <3>1, OrphanInvFrame
  <2> QED
    BY <2>1, <2>2
<1>3. CASE WorkerStep
  BY <1>3, OrphanInvTake, OrphanInvRead, OrphanInvNotify DEF WorkerStep
<1>4. CASE ListerStep \/ Stop
  <2>1. UNCHANGED <<nodes, members, queue, worker>>
    BY <1>4 DEF ListerStep, Stop, ListerList, ListerRead, StartAdds, StopRemoves
  <2> QED
    BY <2>1, OrphanInvFrame
<1>5. CASE UNCHANGED vars
  <2>1. UNCHANGED <<nodes, members, queue, worker>>
    BY <1>5 DEF vars
  <2> QED
    BY <2>1, OrphanInvFrame
<1> QED
  BY <1>1, <1>2, <1>3, <1>4, <1>5 DEF Next

LEMMA OrphanInvImplies == ASSUME TypeOK, OrphanInv PROVE NoOrphanMember
<1> SUFFICES ASSUME NEW n \in Known(members), n \notin nodes
             PROVE  \E i \in DOMAIN Pending : n \in Pending[i].removed
  BY DEF NoOrphanMember
<1>0. n \in Nodes /\ members[n] # Absent /\ queue \in Seq(Work) /\ worker.work \in Work
  BY DEF Known, TypeOK, Worker
<1>1. CASE Reading
  <2>1. Pending = <<worker.work>> \o queue
    BY <1>1 DEF Pending, Reading
  <2>2. /\ DOMAIN queue = 1 .. Len(queue) /\ DOMAIN Pending = 1 .. Len(queue) + 1
        /\ Len(queue) \in Nat
        /\ Pending[1] = worker.work /\ \A i \in DOMAIN queue : Pending[i + 1] = queue[i]
    BY <1>0, <2>1
  <2>3. CASE n \in worker.work.removed
    BY <2>2, <2>3
  <2>4. CASE LeavesAfter(n, 0)
    <3>1. PICK i \in DOMAIN queue : n \in queue[i].removed
      BY <2>4 DEF LeavesAfter
    <3>2. i + 1 \in DOMAIN Pending /\ n \in Pending[i + 1].removed
      BY <2>2, <3>1
    <3> QED
      BY <3>2
  <2> QED
    BY <1>0, <1>1, <2>3, <2>4 DEF OrphanInv
<1>2. CASE ~Reading
  <2>1. worker.pc = "idle"
    BY <1>2 DEF TypeOK, Worker, Reading
  <2>2. Pending = queue
    BY <1>0, <2>1 DEF Pending
  <2> QED
    BY <1>0, <1>2, <2>2 DEF OrphanInv, LeavesAfter
<1> QED
  BY <1>1, <1>2

\* A member that the children watch no longer sees always has its departure
\* in the notification queue or in the worker's hands, for any number of nodes
\* and however the greenlets, the path and the nodes come and go.
THEOREM NoOrphans == Spec => []NoOrphanMember
<1>1. Init => OrphanInv
  BY OrphanInvInit
<1>2. TypeOK /\ OrphanInv /\ [Next]_vars => OrphanInv'
  BY OrphanInvStep
<1>3. TypeOK /\ OrphanInv => NoOrphanMember
  BY OrphanInvImplies
<1> QED
  BY <1>1, <1>2, <1>3, TypeCorrect, PTL DEF Spec

-----------------------------------------------------------------------------
(* Members are served, when no two nodes may name the same endpoint.  What *)
(* is read of a node is one of its own endpoints, so the departure of one  *)
(* member cannot take away the endpoint of another.                        *)

OwnEndpoint(table) == \A n \in Nodes : table[n] # Absent => table[n] \in MayServe[n]

ServedInv ==
  /\ OwnEndpoint(zk) /\ OwnEndpoint(members) /\ OwnEndpoint(worker.read)
  /\ ~lister.stopping => \A n \in Nodes : members[n] # Absent => members[n] \in endpoints

DisjointEndpoints ==
  \A m, n \in Nodes : m # n => MayServe[m] \cap MayServe[n] = {}

LEMMA ServedInvInit == ASSUME Init PROVE ServedInv
BY DEF Init, ServedInv, OwnEndpoint, IdleWorker, Empty, Known

LEMMA ServedInvEnvironment == ASSUME TypeOK, ServedInv, Environment PROVE ServedInv'
<1> USE DEF setVars, sourceVars
<1>1. UNCHANGED <<members, worker, lister, endpoints>>
  BY DEF Environment, CreatePath, DeletePath, AddNode, RemoveNode
<1>2. OwnEndpoint(zk')
  BY DEF Environment, CreatePath, DeletePath, AddNode, RemoveNode, TypeOK, Table,
         ServedInv, OwnEndpoint
<1> QED
  BY <1>1, <1>2 DEF ServedInv, OwnEndpoint

LEMMA ServedInvRunner == ASSUME TypeOK, ServedInv, RunnerStep PROVE ServedInv'
<1> USE DEF zkVars, setVars, sourceVars
<1>1. zk' = zk /\ worker' = worker
  BY DEF RunnerStep, DataGet, PathGone, PathStillWatched, BeginWatch, OpenGet, ChildGet, ChildCall
<1>2. lister'.stopping = lister.stopping
  BY DEF RunnerStep, DataGet, PathGone, PathStillWatched, BeginWatch, OpenGet, ChildGet,
         ChildCall, Finish, TypeOK, Lister
<1>3. members' = Empty \/ (members' = members /\ endpoints' = endpoints)
  BY DEF RunnerStep, DataGet, PathGone, PathStillWatched, BeginWatch, OpenGet, ChildGet, ChildCall
<1> QED
  BY <1>1, <1>2, <1>3 DEF ServedInv, OwnEndpoint, Empty

LEMMA ServedInvNotify ==
  ASSUME TypeOK, ServedInv, DisjointEndpoints, WorkerNotify PROVE ServedInv'
<1>1. /\ worker' = IdleWorker /\ UNCHANGED <<zk, lister>>
      /\ members' = [n \in Nodes |-> IF n \in worker.work.removed THEN Absent ELSE Updated[n]]
      /\ endpoints' = (endpoints \ ServedBy(Updated, worker.work.removed))
                        \cup ServedBy(worker.read, Nodes)
  BY DEF WorkerNotify, zkVars
<1>2. OwnEndpoint(Updated)
  BY DEF ServedInv, OwnEndpoint, Updated
<1>3. OwnEndpoint(zk') /\ OwnEndpoint(members') /\ OwnEndpoint(worker'.read)
  BY <1>1, <1>2 DEF ServedInv, OwnEndpoint, IdleWorker, Empty
<1>4. ASSUME ~lister.stopping, NEW n \in Nodes, members'[n] # Absent
      PROVE  members'[n] \in endpoints'
  <2>1. n \notin worker.work.removed /\ members'[n] = Updated[n] /\ Updated[n] # Absent
    BY <1>1, <1>4
  <2>2. CASE worker.read[n] # Absent
    BY <1>1, <2>1, <2>2 DEF Updated, ServedBy, Known
  <2>3. CASE worker.read[n] = Absent
    <3>1. Updated[n] = members[n] /\ members[n] \in endpoints
      BY <1>4, <2>1, <2>3 DEF Updated, ServedInv
    <3>2. Updated[n] \notin ServedBy(Updated, worker.work.removed)
      BY <1>2, <2>1 DEF ServedBy, Known, OwnEndpoint, DisjointEndpoints
    <3> QED
      BY <1>1, <2>1, <3>1, <3>2
  <2> QED
    BY <2>2, <2>3
<1> QED
  BY <1>1, <1>3, <1>4 DEF ServedInv

LEMMA ServedInvWorker ==
  ASSUME TypeOK, ServedInv, DisjointEndpoints, WorkerStep PROVE ServedInv'
<1> USE DEF zkVars, watchVars, sourceVars
<1>1. CASE WorkerTake
  <2>1. worker'.read = Empty /\ UNCHANGED <<zk, members, lister, endpoints>>
    BY <1>1 DEF WorkerTake
  <2> QED
    BY <2>1 DEF ServedInv, OwnEndpoint, Empty
<1>2. ASSUME NEW n \in Nodes, WorkerRead(n) PROVE ServedInv'
  <2>1. PICK answer \in {zk[n], Absent} : worker' = ReadNode(worker, n, answer)
    BY <1>2 DEF WorkerRead
  <2>2. worker'.read = [worker.read EXCEPT ![n] = answer]
    BY <2>1 DEF ReadNode, TypeOK, Worker
  <2>3. OwnEndpoint(worker'.read)
    BY <2>2 DEF ServedInv, OwnEndpoint, TypeOK, Worker, Table
  <2>4. UNCHANGED <<zk, members, lister, endpoints>>
    BY <1>2 DEF WorkerRead
  <2> QED
    BY <2>3, <2>4 DEF ServedInv, OwnEndpoint
<1>3. CASE WorkerNotify
  BY <1>3, ServedInvNotify
<1> QED
  BY <1>1, <1>2, <1>3 DEF WorkerStep

LEMMA ServedInvLister == ASSUME TypeOK, ServedInv, ListerStep \/ Stop PROVE ServedInv'
<1> USE DEF zkVars, watchVars, setVars
<1>1. UNCHANGED <<zk, members, worker>>
  BY DEF ListerStep, Stop, ListerList, ListerRead, StartAdds, StopRemoves
<1>2. ~lister'.stopping => ~lister.stopping /\ endpoints \subseteq endpoints'
  BY DEF ListerStep, Stop, ListerList, ListerRead, ReadNode, StartAdds, StopRemoves,
         TypeOK, Lister
<1> QED
  BY <1>1, <1>2 DEF ServedInv, OwnEndpoint

LEMMA ServedInvStep ==
  ASSUME TypeOK, ServedInv, DisjointEndpoints, [Next]_vars PROVE ServedInv'
<1>1. CASE UNCHANGED vars
  BY <1>1 DEF vars, zkVars, setVars, sourceVars, ServedInv, OwnEndpoint
<1> QED
  BY <1>1, ServedInvEnvironment, ServedInvRunner, ServedInvWorker, ServedInvLister DEF Next

\* If no two nodes can name the same host and port, every member's endpoint is
\* served until stop, whichever greenlet added or removed endpoints last.
THEOREM MembersServed ==
  ASSUME DisjointEndpoints PROVE Spec => []MemberServed
<1>1. Init => ServedInv
  BY ServedInvInit
<1>2. TypeOK /\ ServedInv /\ [Next]_vars => ServedInv'
  BY ServedInvStep
<1>3. ServedInv => MemberServed
  BY DEF ServedInv, MemberServed, Known
<1> QED
  BY <1>1, <1>2, <1>3, TypeCorrect, PTL DEF Spec

-----------------------------------------------------------------------------
(* While start lists and reads, nobody announces anything.                 *)

\* Until start has added what it listed, there is nothing to announce: no member
\* is known, and the worker has taken nothing.
StartInv ==
  /\ lister.pc = "construct" => queue = << >> /\ runner.pc # "idle" /\ ~lister.stopping
  /\ lister.pc # "running" /\ lister.pc # "stopped" /\ ~lister.stopping
       => worker.pc = "idle" /\ members = Empty /\ endpoints = {}

LEMMA StartInvStep == ASSUME TypeOK, StartInv, [Next]_vars PROVE StartInv'
<1> USE DEF zkVars, watchVars, setVars, sourceVars
<1>1. CASE Environment
  <2>1. UNCHANGED <<lister, queue, runner, worker, members, endpoints>>
    BY <1>1 DEF Environment, CreatePath, DeletePath, AddNode, RemoveNode
  <2> QED
    BY <2>1 DEF StartInv
<1>2. CASE RunnerStep
  <2>1. worker' = worker /\ lister'.stopping = lister.stopping
          /\ (lister.pc # "construct" => lister' = lister)
          /\ (lister.pc = "construct" => lister'.pc \in {"construct", "list"})
    BY <1>2 DEF RunnerStep, DataGet, PathGone, PathStillWatched, BeginWatch, OpenGet,
                ChildGet, ChildCall, Finish, TypeOK, Lister
  <2>2. members' = members \/ members' = Empty
    BY <1>2 DEF RunnerStep, DataGet, PathGone, PathStillWatched, BeginWatch, OpenGet,
                ChildGet, ChildCall
  <2>3. endpoints' = endpoints \/ \E s \in SUBSET Endpoints : endpoints' = endpoints \ s
    BY <1>2, ServedByType DEF RunnerStep, DataGet, PathGone, PathStillWatched, BeginWatch,
                OpenGet, ChildGet, ChildCall, TypeOK
  <2>4. lister'.pc = "construct" => lister.pc = "construct"
    BY <2>1
  <2>5. ASSUME lister'.pc = "construct" PROVE queue' = queue /\ runner'.pc # "idle"
    <3>1. lister' = lister /\ runner.pc # "idle"
      BY <2>1, <2>4, <2>5, <1>2 DEF StartInv, RunnerStep, DataGet, PathGone,
         PathStillWatched, BeginWatch, OpenGet, ChildGet, ChildCall, Finish, TypeOK, Lister
    <3>2. ~Finish
      BY <2>5, <2>4 DEF Finish, TypeOK, Lister
    <3>3. DataGet \/ BeginWatch \/ OpenGet
      BY <1>2, <3>1, <3>2 DEF RunnerStep, PathGone, PathStillWatched, ChildGet, ChildCall
    <3>4. CASE DataGet
      BY <3>1, <3>4 DEF DataGet, IdleRunner
    <3>5. CASE BeginWatch
      BY <3>5 DEF BeginWatch, IdleRunner
    <3>6. CASE OpenGet
      BY <3>6 DEF OpenGet, ListChildren
    <3> QED
      BY <3>3, <3>4, <3>5, <3>6
  <2>6. ASSUME lister'.pc # "running", lister'.pc # "stopped", ~lister'.stopping
        PROVE  worker'.pc = "idle" /\ members' = Empty /\ endpoints' = {}
    <3>1. lister.pc # "running" /\ lister.pc # "stopped" /\ ~lister.stopping
      BY <2>1, <2>6
    <3> QED
      BY <2>1, <2>2, <2>3, <3>1 DEF StartInv
  <2> QED
    BY <2>1, <2>4, <2>5, <2>6 DEF StartInv
<1>3. CASE WorkerStep
  <2>1. UNCHANGED <<lister, runner>> /\ worker.pc = "idle" => queue # << >> /\ ~Blocking
    BY <1>3 DEF WorkerStep, WorkerTake, WorkerRead, WorkerNotify, Blocking
  <2>2. lister.pc # "construct"
    BY <1>3, <2>1 DEF StartInv, WorkerStep, WorkerTake, WorkerRead, WorkerNotify
  <2>3. lister.pc = "running" \/ lister.pc = "stopped" \/ lister.stopping
    BY <1>3, <2>1, <2>2 DEF StartInv, WorkerStep, WorkerTake, WorkerRead, WorkerNotify,
       Blocking, TypeOK, Lister
  <2>4. lister' = lister
    BY <1>3 DEF WorkerStep, WorkerTake, WorkerRead, WorkerNotify
  <2> QED
    BY <2>2, <2>3, <2>4 DEF StartInv
<1>4. CASE ListerStep \/ Stop
  <2>1. UNCHANGED <<queue, runner, worker, members>> /\ lister.pc # "construct"
          /\ lister'.pc # "construct"
    BY <1>4 DEF ListerStep, Stop, ListerList, ListerRead, ReadNode, StartAdds, StopRemoves,
                TypeOK, Lister
  <2>2. lister'.pc # "running" /\ lister'.pc # "stopped" /\ ~lister'.stopping
          => lister.pc # "running" /\ lister.pc # "stopped" /\ ~lister.stopping
             /\ endpoints' = endpoints
    BY <1>4 DEF ListerStep, Stop, ListerList, ListerRead, ReadNode, StartAdds, StopRemoves,
                TypeOK, Lister
  <2> QED
    BY <2>1, <2>2 DEF StartInv
<1>5. CASE UNCHANGED vars
  BY <1>5 DEF vars, StartInv
<1> QED
  BY <1>1, <1>2, <1>3, <1>4, <1>5 DEF Next

\* Whatever ZooKeeper does while start lists and reads the nodes, no join and no
\* leave is announced: the callback blocker makes the listing look atomic.
THEOREM StartAlone == Spec => StartUndisturbed
<1> DEFINE Step == Blocking /\ ~lister.stopping /\ lister' = lister
                     => UNCHANGED <<members, endpoints>>
<1>1. Init => StartInv
  BY DEF Init, StartInv, IdleRunner, IdleWorker
<1>2. TypeOK /\ StartInv /\ [Next]_vars => StartInv'
  BY StartInvStep
<1>3. StartInv /\ StartInv' => [Step]_vars
  BY DEF StartInv, Blocking
<1> QED
  BY <1>1, <1>2, <1>3, TypeCorrect, PTL DEF Spec, StartUndisturbed

-----------------------------------------------------------------------------
(* The view follows the snapshots.                                         *)

\* The work behind position i that concerns n.
Later(n, i) == {j \in i + 1 .. Len(Pending) : n \in Pending[j].new \cup Pending[j].removed}

\* How many snapshots are waiting.
Waiting == Len(Pending)

LEMMA PendingType == ASSUME TypeOK PROVE Pending \in Seq(Work) /\ Waiting \in Nat
<1>1. worker.work \in Work /\ queue \in Seq(Work)
  BY DEF TypeOK, Worker
<1>2. <<worker.work>> \o queue \in Seq(Work) /\ << >> \o queue = queue
  BY <1>1
<1>3. Pending \in Seq(Work)
  BY <1>1, <1>2 DEF Pending
<1> QED
  BY <1>3 DEF Waiting

LEMMA SnapshotMember ==
  ASSUME NEW n \in Nodes, NEW i
  PROVE  n \in SnapshotAt(i)
           <=> IF Later(n, i) = {} THEN n \in nodes
               ELSE \E j \in Later(n, i) : /\ \A k \in Later(n, i) : j <= k
                                           /\ n \in Pending[j].removed
BY DEF SnapshotAt, Later

\* One step back along the queue undoes one difference.
LEMMA SnapshotBefore ==
  ASSUME TypeOK, NEW i \in 0 .. Waiting, i < Waiting, NEW n \in Nodes
  PROVE  n \in SnapshotAt(i)
           <=> IF n \in Pending[i + 1].new \cup Pending[i + 1].removed
               THEN n \in Pending[i + 1].removed
               ELSE n \in SnapshotAt(i + 1)
<1>1. Waiting \in Nat /\ i + 1 \in 1 .. Waiting
  BY PendingType
<1>2. CASE n \in Pending[i + 1].new \cup Pending[i + 1].removed
  <2>1. i + 1 \in Later(n, i) /\ \A k \in Later(n, i) : k \in Nat /\ i + 1 <= k
    BY <1>1, <1>2 DEF Later, Waiting
  <2>2. \A j \in Later(n, i) : j <= i + 1 => j = i + 1
    BY <2>1
  <2> QED
    BY <1>2, <2>1, <2>2, SnapshotMember
<1>3. CASE n \notin Pending[i + 1].new \cup Pending[i + 1].removed
  <2>1. \A j \in i + 1 .. Waiting : j = i + 1 \/ j \in i + 1 + 1 .. Waiting
    BY <1>1
  <2>2. \A j \in i + 1 + 1 .. Waiting : j \in i + 1 .. Waiting
    BY <1>1
  <2>3. Later(n, i) = Later(n, i + 1)
    BY <1>3, <2>1, <2>2 DEF Later, Waiting
  <2>4. (n \in SnapshotAt(i)) <=> (n \in SnapshotAt(i + 1))
    BY <2>3, SnapshotMember
  <2> QED
    BY <1>3, <2>4
<1> QED
  BY <1>2, <1>3

\* The last snapshot is the children last seen.
LEMMA SnapshotLast == ASSUME TypeOK PROVE SnapshotAt(Waiting) = nodes
<1>1. Waiting \in Nat
  BY PendingType
<1>2. ASSUME NEW n \in Nodes PROVE Later(n, Waiting) = {}
  BY <1>1 DEF Later, Waiting
<1>3. ASSUME NEW n \in Nodes PROVE (n \in SnapshotAt(Waiting)) <=> (n \in nodes)
  BY <1>2, SnapshotMember
<1>4. nodes \in SUBSET Nodes /\ SnapshotAt(Waiting) \in SUBSET Nodes
  BY DEF TypeOK, SnapshotAt
<1> QED
  BY <1>3, <1>4

\* A difference is one between two snapshots, and the members, with what the
\* worker has read, are nodes of the snapshot its work starts from.
SnapshotInv ==
  /\ \A i \in 1 .. Waiting : /\ Pending[i].new \subseteq SnapshotAt(i)
                             /\ Pending[i].removed \cap SnapshotAt(i) = {}
  /\ Known(members) \subseteq SnapshotAt(0)
  /\ \A n \in Nodes : worker.read[n] # Absent => Reading /\ n \in worker.work.new
  /\ Reading => worker.todo \subseteq worker.work.new

\* Work, children and members as they were, or the members gone.
LEMMA SnapshotFrame ==
  ASSUME UNCHANGED <<nodes, Pending>>
  PROVE  /\ \A i : SnapshotAt(i)' = SnapshotAt(i)
         /\ Waiting' = Waiting
         /\ [i \in 1 .. Waiting |-> SnapshotAt(i)]' = [i \in 1 .. Waiting |-> SnapshotAt(i)]
<1>1. \A i : SnapshotAt(i)' = SnapshotAt(i)
  BY DEF SnapshotAt
<1>2. Waiting' = Waiting
  BY DEF Waiting
<1> QED
  BY <1>1, <1>2

\* A new difference leaves the snapshots before it alone.
LEMMA SnapshotObserved ==
  ASSUME TypeOK, NEW children \in SUBSET Nodes, OnSetChanged(children), UNCHANGED worker
  PROVE  /\ Waiting \in Nat /\ Waiting' = Waiting + 1
         /\ \A i : i = Waiting + 1 => SnapshotAt(i)' = children
         /\ \A i \in 1 .. Waiting : Pending'[i] = Pending[i]
         /\ Pending'[Waiting + 1] = [new |-> children \ nodes, removed |-> nodes \ children]
         /\ \A i \in 0 .. Waiting : SnapshotAt(i)' = SnapshotAt(i)
<1> DEFINE item == [new |-> children \ nodes, removed |-> nodes \ children]
<1>1. /\ queue \in Seq(Work) /\ item \in Work /\ queue' = Append(queue, item)
      /\ nodes' = children /\ worker.work \in Work
  BY DEF TypeOK, Work, Worker, OnSetChanged
<1>2. Pending' = Append(Pending, item)
  <2>1. CASE worker.pc = "idle"
    BY <1>1, <2>1 DEF Pending
  <2>2. CASE worker.pc # "idle"
    BY <1>1, <2>2 DEF Pending
  <2> QED
    BY <2>1, <2>2
<1>3. Pending \in Seq(Work) /\ Waiting \in Nat
  BY PendingType
<1>4. /\ Waiting' = Waiting + 1
      /\ \A i \in 1 .. Waiting : Pending'[i] = Pending[i]
      /\ Pending'[Waiting + 1] = item
  BY <1>1, <1>2, <1>3 DEF Waiting
<1>5. ASSUME NEW i \in 0 .. Waiting, NEW n \in Nodes
      PROVE  (n \in SnapshotAt(i)') <=> (n \in SnapshotAt(i))
  <2> DEFINE Touched == n \in item.new \cup item.removed
  <2>1. /\ \A j \in i + 1 .. Waiting : j \in 1 .. Waiting /\ j \in i + 1 .. Waiting + 1
                                         /\ j < Waiting + 1
        /\ \A j \in i + 1 .. Waiting + 1 : j = Waiting + 1 \/ j \in i + 1 .. Waiting
        /\ Waiting + 1 \in i + 1 .. Waiting + 1
    BY <1>3
  <2>2. Later(n, i) = {j \in i + 1 .. Waiting : n \in Pending[j].new \cup Pending[j].removed}
    BY DEF Later, Waiting
  <2>3. Later(n, i)' = {j \in i + 1 .. Waiting + 1 :
                          n \in Pending'[j].new \cup Pending'[j].removed}
    BY <1>4 DEF Later, Waiting
  <2>4. Later(n, i)' = Later(n, i) \cup (IF Touched THEN {Waiting + 1} ELSE {})
    BY <1>4, <2>1, <2>2, <2>3
  <2>5. /\ \A j \in Later(n, i) : j < Waiting + 1 /\ j \in 1 .. Waiting /\ j \in Nat
                                    /\ Pending'[j] = Pending[j]
    BY <1>4, <2>1, <2>2
  <2>6. (n \in SnapshotAt(i))'
           <=> IF Later(n, i)' = {} THEN n \in children
               ELSE \E j \in Later(n, i)' : /\ \A k \in Later(n, i)' : j <= k
                                            /\ n \in Pending'[j].removed
    BY <1>1 DEF SnapshotAt, Later
  <2>7. CASE Later(n, i) = {}
    <3>1. (n \in SnapshotAt(i)) <=> n \in nodes
      BY <2>7, SnapshotMember
    <3>2. CASE Touched
      <4>1. Later(n, i)' = {Waiting + 1}
        BY <2>4, <2>7, <3>2
      <4>2. (n \in SnapshotAt(i))' <=> n \in item.removed
        BY <1>3, <1>4, <2>6, <4>1
      <4> QED
        BY <3>1, <3>2, <4>2
    <3>3. CASE ~Touched
      <4>1. Later(n, i)' = {}
        BY <2>4, <2>7, <3>3
      <4> QED
        BY <2>6, <3>1, <3>3, <4>1
    <3> QED
      BY <3>2, <3>3
  <2>8. CASE Later(n, i) # {}
    <3>1. (n \in SnapshotAt(i))
             <=> \E j \in Later(n, i) : /\ \A k \in Later(n, i) : j <= k
                                        /\ n \in Pending[j].removed
      BY <2>8, SnapshotMember
    <3>2. (n \in SnapshotAt(i))'
             <=> \E j \in Later(n, i)' : /\ \A k \in Later(n, i)' : j <= k
                                         /\ n \in Pending'[j].removed
      BY <2>4, <2>6, <2>8
    <3>3. ASSUME NEW j \in Later(n, i)', \A k \in Later(n, i)' : j <= k
          PROVE  j \in Later(n, i) /\ \A k \in Later(n, i) : j <= k
      BY <1>3, <2>4, <2>5, <2>8, <3>3
    <3>4. ASSUME NEW j \in Later(n, i), \A k \in Later(n, i) : j <= k
          PROVE  j \in Later(n, i)' /\ \A k \in Later(n, i)' : j <= k
      BY <1>3, <2>4, <2>5, <3>4
    <3> QED
      BY <2>5, <3>1, <3>2, <3>3, <3>4
  <2> QED
    BY <2>7, <2>8
<1>6. ASSUME NEW i \in 0 .. Waiting PROVE SnapshotAt(i)' = SnapshotAt(i)
  <2>1. SnapshotAt(i) \in SUBSET Nodes /\ SnapshotAt(i)' \in SUBSET Nodes
    BY DEF SnapshotAt
  <2> QED
    BY <1>5, <2>1
<1>7. ASSUME NEW i, i = Waiting + 1 PROVE SnapshotAt(i)' = children
  <2>1. ASSUME NEW n \in Nodes PROVE Later(n, i)' = {}
    BY <1>3, <1>4, <1>7 DEF Later, Waiting
  <2>2. ASSUME NEW n \in Nodes PROVE (n \in SnapshotAt(i)') <=> n \in children
    BY <1>1, <2>1 DEF SnapshotAt, Later
  <2>3. SnapshotAt(i)' \in SUBSET Nodes
    BY DEF SnapshotAt
  <2> QED
    BY <2>2, <2>3
<1> QED
  BY <1>3, <1>4, <1>6, <1>7

\* The worker takes work it was to do anyhow.
LEMMA PendingTaken == ASSUME TypeOK, WorkerTake PROVE Pending' = Pending
<1>1. queue \in Seq(Work) /\ queue # << >> /\ queue' = Tail(queue) /\ worker.pc = "idle"
        /\ worker'.pc = "reading" /\ worker'.work = Head(queue)
  BY DEF WorkerTake, TypeOK
<1>2. <<Head(queue)>> \o Tail(queue) = queue
  BY <1>1
<1>3. Pending = queue /\ Pending' = <<Head(queue)>> \o Tail(queue)
  BY <1>1 DEF Pending
<1> QED
  BY <1>2, <1>3

\* Work that is done moves the snapshots up by one.
LEMMA SnapshotReflected ==
  ASSUME TypeOK, WorkerNotify
  PROVE  /\ Waiting \in Nat \ {0} /\ Waiting' = Waiting - 1
         /\ Pending[1] = worker.work
         /\ \A i \in 1 .. Waiting - 1 : Pending'[i] = Pending[i + 1]
         /\ \A i \in 0 .. Waiting - 1 : SnapshotAt(i)' = SnapshotAt(i + 1)
<1>1. /\ queue \in Seq(Work) /\ worker.work \in Work
      /\ Pending = <<worker.work>> \o queue /\ Pending' = << >> \o queue
      /\ nodes' = nodes
  BY DEF TypeOK, Worker, WorkerNotify, Pending, IdleWorker
<1>2. /\ Waiting \in Nat \ {0} /\ Waiting' = Waiting - 1
      /\ Pending[1] = worker.work
      /\ \A i \in 1 .. Waiting - 1 : Pending'[i] = Pending[i + 1]
  BY <1>1 DEF Waiting
<1>3. ASSUME NEW i \in 0 .. Waiting - 1, NEW n \in Nodes
      PROVE  (n \in SnapshotAt(i)') <=> (n \in SnapshotAt(i + 1))
  <2>1. Later(n, i + 1)
          = {j \in i + 1 + 1 .. Waiting : n \in Pending[j].new \cup Pending[j].removed}
    BY DEF Later, Waiting
  <2>2. Later(n, i)'
          = {j \in i + 1 .. Waiting - 1 : n \in Pending'[j].new \cup Pending'[j].removed}
    BY <1>2 DEF Later, Waiting
  <2>3. ASSUME NEW j \in Later(n, i)'
        PROVE  j \in Nat /\ j + 1 \in Later(n, i + 1) /\ Pending'[j] = Pending[j + 1]
    BY <1>2, <2>1, <2>2
  <2>4. ASSUME NEW j \in Later(n, i + 1)
        PROVE  j \in Nat /\ j - 1 \in Later(n, i)' /\ Pending'[j - 1] = Pending[j]
    <3>1. j - 1 \in 1 .. Waiting - 1 /\ j - 1 + 1 = j /\ j - 1 \in i + 1 .. Waiting - 1
      BY <1>2, <2>1
    <3> QED
      BY <1>2, <2>1, <2>2, <3>1
  <2>5. (n \in SnapshotAt(i))'
           <=> IF Later(n, i)' = {} THEN n \in nodes
               ELSE \E j \in Later(n, i)' : /\ \A k \in Later(n, i)' : j <= k
                                            /\ n \in Pending'[j].removed
    BY <1>1 DEF SnapshotAt, Later
  <2>6. n \in SnapshotAt(i + 1)
           <=> IF Later(n, i + 1) = {} THEN n \in nodes
               ELSE \E j \in Later(n, i + 1) : /\ \A k \in Later(n, i + 1) : j <= k
                                               /\ n \in Pending[j].removed
    BY SnapshotMember
  <2>7. Later(n, i)' = {} <=> Later(n, i + 1) = {}
    BY <2>3, <2>4
  <2>8. ASSUME NEW j \in Later(n, i)', \A k \in Later(n, i)' : j <= k,
               n \in Pending'[j].removed
        PROVE  \E l \in Later(n, i + 1) : /\ \A k \in Later(n, i + 1) : l <= k
                                          /\ n \in Pending[l].removed
    <3>1. \A k \in Later(n, i + 1) : j + 1 <= k
      <4> TAKE k \in Later(n, i + 1)
      <4>1. j <= k - 1 /\ k \in Nat /\ j \in Nat
        BY <2>3, <2>4, <2>8
      <4> QED
        BY <4>1
    <3> QED
      BY <2>3, <2>8, <3>1
  <2>9. ASSUME NEW j \in Later(n, i + 1), \A k \in Later(n, i + 1) : j <= k,
               n \in Pending[j].removed
        PROVE  \E l \in Later(n, i)' : /\ \A k \in Later(n, i)' : l <= k
                                       /\ n \in Pending'[l].removed
    <3>1. \A k \in Later(n, i)' : j - 1 <= k
      <4> TAKE k \in Later(n, i)'
      <4>1. j <= k + 1 /\ k \in Nat /\ j \in Nat
        BY <2>3, <2>4, <2>9
      <4> QED
        BY <4>1
    <3> QED
      BY <2>4, <2>9, <3>1
  <2> QED
    BY <2>5, <2>6, <2>7, <2>8, <2>9
<1>4. ASSUME NEW i \in 0 .. Waiting - 1 PROVE SnapshotAt(i)' = SnapshotAt(i + 1)
  <2>1. SnapshotAt(i + 1) \in SUBSET Nodes /\ SnapshotAt(i)' \in SUBSET Nodes
    BY DEF SnapshotAt
  <2> QED
    BY <1>3, <2>1
<1> QED
  BY <1>2, <1>4

-----------------------------------------------------------------------------
LEMMA SnapshotInvInit == ASSUME Init, TypeOK PROVE SnapshotInv
<1>1. Pending = << >> /\ Waiting = 0
  BY DEF Init, IdleWorker, Pending, Waiting
<1>2. Known(members) = {} /\ ~Reading /\ \A n \in Nodes : worker.read[n] = Absent
  BY DEF Init, IdleWorker, Empty, Known, Reading
<1> QED
  BY <1>1, <1>2 DEF SnapshotInv

\* Steps that leave the pipeline alone, or only clear _members.
LEMMA SnapshotInvFrame ==
  ASSUME SnapshotInv, UNCHANGED <<nodes, queue, worker>>,
         members' = members \/ members' = Empty
  PROVE  SnapshotInv'
<1>1. Pending' = Pending
  BY DEF Pending
<1>2. (\A i : SnapshotAt(i)' = SnapshotAt(i)) /\ Waiting' = Waiting
  BY <1>1, SnapshotFrame
<1>3. Known(members') \subseteq Known(members)
  BY DEF Known, Empty
<1> QED
  BY <1>1, <1>2, <1>3 DEF SnapshotInv, Reading, Known

LEMMA SnapshotInvObserve ==
  ASSUME TypeOK, SnapshotInv, NEW children \in SUBSET Nodes, OnSetChanged(children),
         UNCHANGED <<members, worker>>
  PROVE  SnapshotInv'
<1>1. /\ Waiting \in Nat /\ Waiting' = Waiting + 1
      /\ \A i : i = Waiting + 1 => SnapshotAt(i)' = children
      /\ \A i \in 1 .. Waiting : Pending'[i] = Pending[i]
      /\ Pending'[Waiting + 1] = [new |-> children \ nodes, removed |-> nodes \ children]
      /\ \A i \in 0 .. Waiting : SnapshotAt(i)' = SnapshotAt(i)
      /\ members' = members /\ worker' = worker
  BY SnapshotObserved
<1>2. ASSUME NEW i \in 1 .. Waiting + 1
      PROVE  /\ Pending'[i].new \subseteq SnapshotAt(i)'
             /\ Pending'[i].removed \cap SnapshotAt(i)' = {}
  <2>1. CASE i \in 1 .. Waiting
    <3>1. i \in 0 .. Waiting /\ Pending'[i] = Pending[i]
      BY <1>1, <2>1
    <3>2. SnapshotAt(i)' = SnapshotAt(i)
      BY <1>1, <3>1
    <3> QED
      BY <2>1, <3>1, <3>2 DEF SnapshotInv
  <2>2. CASE i = Waiting + 1
    BY <1>1, <2>2
  <2> QED
    BY <1>1, <2>1, <2>2
<1>3. SnapshotAt(0)' = SnapshotAt(0)
  <2>1. 0 \in 0 .. Waiting
    BY <1>1
  <2> QED
    BY <1>1, <2>1
<1>4. Known(members)' \subseteq SnapshotAt(0)'
  BY <1>1, <1>3 DEF SnapshotInv, Known
<1> QED
  BY <1>1, <1>2, <1>4 DEF SnapshotInv, Reading

LEMMA SnapshotInvTake == ASSUME TypeOK, SnapshotInv, WorkerTake PROVE SnapshotInv'
<1>1. Pending' = Pending /\ nodes' = nodes /\ members' = members
  BY PendingTaken DEF WorkerTake
<1>2. (\A i : SnapshotAt(i)' = SnapshotAt(i)) /\ Waiting' = Waiting
  BY <1>1, SnapshotFrame
<1>3. Reading' /\ worker'.todo = worker'.work.new /\ worker'.read = Empty
  BY DEF WorkerTake, Reading
<1> QED
  BY <1>1, <1>2, <1>3 DEF SnapshotInv, Known, Empty

LEMMA SnapshotInvRead ==
  ASSUME TypeOK, SnapshotInv, NEW n \in Nodes, WorkerRead(n) PROVE SnapshotInv'
<1>1. PICK answer \in {zk[n], Absent} : worker' = ReadNode(worker, n, answer)
  BY DEF WorkerRead
<1>2. /\ worker'.pc = worker.pc /\ worker'.work = worker.work
      /\ worker'.todo = worker.todo \ {n}
      /\ worker'.read = [worker.read EXCEPT ![n] = answer]
  BY <1>1 DEF ReadNode, TypeOK, Worker
<1>3. Reading /\ n \in worker.todo /\ UNCHANGED <<nodes, members, queue>>
  BY DEF WorkerRead, Reading
<1>4. \A m \in Nodes : worker'.read[m] # Absent => m = n \/ worker.read[m] # Absent
  BY <1>2 DEF TypeOK, Worker, Table
<1>5. Pending' = Pending
  BY <1>2, <1>3 DEF Pending
<1>6. (\A i : SnapshotAt(i)' = SnapshotAt(i)) /\ Waiting' = Waiting
  BY <1>3, <1>5, SnapshotFrame
<1> QED
  BY <1>2, <1>3, <1>4, <1>5, <1>6 DEF SnapshotInv, Reading, Known

\* What the worker does to the members is what its difference says.
LEMMA NotifyFollows ==
  ASSUME TypeOK, SnapshotInv, WorkerNotify
  PROVE  /\ Known(members') \subseteq SnapshotAt(1)
         /\ \A n \in Known(members) \cap SnapshotAt(1) : members'[n] = members[n]
<1>1. /\ Reading /\ worker.work = Pending[1] /\ Waiting \in Nat \ {0}
      /\ members' = [n \in Nodes |-> IF n \in worker.work.removed THEN Absent ELSE Updated[n]]
  BY SnapshotReflected DEF WorkerNotify, Reading
<1>2. 1 \in 1 .. Waiting /\ 0 \in 0 .. Waiting /\ 0 < Waiting /\ 0 + 1 = 1
  BY <1>1
<1>3. /\ worker.work.new \subseteq SnapshotAt(1)
      /\ worker.work.removed \cap SnapshotAt(1) = {}
  BY <1>1, <1>2 DEF SnapshotInv
<1>4. ASSUME NEW n \in Nodes
      PROVE  n \in SnapshotAt(0) <=> IF n \in worker.work.new \cup worker.work.removed
                                     THEN n \in worker.work.removed ELSE n \in SnapshotAt(1)
  BY <1>1, <1>2, SnapshotBefore
<1>5. \A n \in Nodes : worker.read[n] # Absent => n \in worker.work.new
  BY DEF SnapshotInv
<1>6. \A n \in Nodes : members[n] # Absent => n \in SnapshotAt(0)
  BY DEF SnapshotInv, Known
<1>7. ASSUME NEW n \in Nodes, members'[n] # Absent PROVE n \in SnapshotAt(1)
  <2>1. n \notin worker.work.removed /\ (worker.read[n] # Absent \/ members[n] # Absent)
    BY <1>1, <1>7 DEF Updated
  <2> QED
    BY <1>3, <1>4, <1>5, <1>6, <2>1
<1>8. ASSUME NEW n \in Nodes, members[n] # Absent, n \in SnapshotAt(1)
      PROVE  members'[n] = members[n]
  <2>1. n \notin worker.work.removed /\ n \notin worker.work.new
    BY <1>3, <1>4, <1>6, <1>8
  <2> QED
    BY <1>1, <1>5, <2>1 DEF Updated
<1> QED
  BY <1>7, <1>8 DEF Known

LEMMA SnapshotInvNotify == ASSUME TypeOK, SnapshotInv, WorkerNotify PROVE SnapshotInv'
<1>1. Waiting \in Nat \ {0} /\ Waiting' = Waiting - 1
  BY SnapshotReflected
<1>2. \A i \in 1 .. Waiting - 1 : i \in 0 .. Waiting - 1 /\ i + 1 \in 1 .. Waiting
  BY <1>1
<1>3. \A i \in 1 .. Waiting' : /\ Pending'[i].new \subseteq SnapshotAt(i)'
                               /\ Pending'[i].removed \cap SnapshotAt(i)' = {}
  BY <1>1, <1>2, SnapshotReflected DEF SnapshotInv
<1>4. SnapshotAt(0)' = SnapshotAt(1)
  <2>1. 0 \in 0 .. Waiting - 1 /\ 0 + 1 = 1
    BY <1>1
  <2> QED
    BY <2>1, SnapshotReflected
<1>5. Known(members') \subseteq SnapshotAt(0)'
  BY <1>4, NotifyFollows
<1>6. ~Reading' /\ \A n \in Nodes : worker'.read[n] = Absent
  BY DEF WorkerNotify, IdleWorker, Empty, Reading
<1> QED
  BY <1>3, <1>5, <1>6 DEF SnapshotInv, Known

\* What a step does to the pipeline: nothing, or clear _members, or one of the
\* steps of the watch and the worker.
LEMMA PipelineStep ==
  ASSUME TypeOK, [Next]_vars
  PROVE  \/ /\ UNCHANGED <<nodes, queue, worker>>
            /\ members' = members \/ members' = Empty
         \/ \E children \in SUBSET Nodes :
              OnSetChanged(children) /\ UNCHANGED <<members, worker>>
         \/ WorkerTake
         \/ \E n \in Nodes : WorkerRead(n)
         \/ WorkerNotify
<1> USE DEF zkVars, watchVars, setVars, sourceVars
<1>1. CASE Environment
  BY <1>1 DEF Environment, CreatePath, DeletePath, AddNode, RemoveNode
<1>2. CASE RunnerStep
  <2>1. CASE ChildCall /\ runner.found
    <3>1. OnSetChanged(runner.children \cap Accepted) /\ UNCHANGED <<members, worker>>
      BY <2>1 DEF ChildCall
    <3>2. runner.children \cap Accepted \in SUBSET Nodes
      BY DEF TypeOK, Runner
    <3> QED
      BY <3>1, <3>2
  <2>2. CASE ~(ChildCall /\ runner.found)
    BY <1>2, <2>2 DEF RunnerStep, DataGet, PathGone, PathStillWatched, BeginWatch,
                      OpenGet, ChildGet, ChildCall
  <2> QED
    BY <2>1, <2>2
<1>3. CASE WorkerStep
  BY <1>3 DEF WorkerStep
<1>4. CASE ListerStep \/ Stop
  BY <1>4 DEF ListerStep, Stop, ListerList, ListerRead, StartAdds, StopRemoves
<1>5. CASE UNCHANGED vars
  BY <1>5 DEF vars
<1> QED
  BY <1>1, <1>2, <1>3, <1>4, <1>5 DEF Next

LEMMA SnapshotInvStep == ASSUME TypeOK, SnapshotInv, [Next]_vars PROVE SnapshotInv'
BY PipelineStep, SnapshotInvFrame, SnapshotInvObserve, SnapshotInvTake, SnapshotInvRead,
   SnapshotInvNotify

-----------------------------------------------------------------------------
(* Every step is a step of the view, or none.                              *)

Snapshots == [i \in 1 .. Waiting |-> SnapshotAt(i)]

LEMMA SnapshotsType ==
  ASSUME TypeOK PROVE Snapshots \in Seq(SUBSET Nodes) /\ Len(Snapshots) = Waiting
<1>1. Waiting \in Nat
  BY PendingType
<1>2. \A i \in 1 .. Waiting : SnapshotAt(i) \in SUBSET Nodes
  BY DEF SnapshotAt
<1> QED
  BY <1>1, <1>2 DEF Snapshots

LEMMA ViewObserves ==
  ASSUME TypeOK, TypeOK', NEW children \in SUBSET Nodes, OnSetChanged(children),
         UNCHANGED <<members, worker>>
  PROVE  Snapshots' = Append(Snapshots, children)
<1>1. /\ Waiting \in Nat /\ Waiting' = Waiting + 1
      /\ \A i : i = Waiting + 1 => SnapshotAt(i)' = children
      /\ \A i \in 0 .. Waiting : SnapshotAt(i)' = SnapshotAt(i)
  BY SnapshotObserved
<1>2. Snapshots \in Seq(SUBSET Nodes) /\ Len(Snapshots) = Waiting
  BY SnapshotsType
<1>3. Snapshots' = [i \in 1 .. Waiting + 1 |-> SnapshotAt(i)']
  BY <1>1 DEF Snapshots
<1>4. \A i \in 1 .. Waiting + 1 : SnapshotAt(i)' \in SUBSET Nodes
  BY DEF SnapshotAt
<1>5. Snapshots' \in Seq(SUBSET Nodes) /\ Len(Snapshots') = Waiting + 1
  BY <1>1, <1>3, <1>4
<1>6. /\ Append(Snapshots, children) \in Seq(SUBSET Nodes)
      /\ Len(Append(Snapshots, children)) = Waiting + 1
      /\ Append(Snapshots, children)[Waiting + 1] = children
      /\ \A i \in 1 .. Waiting : Append(Snapshots, children)[i] = Snapshots[i]
  BY <1>1, <1>2
<1>7. ASSUME NEW i \in 1 .. Waiting + 1
      PROVE  Snapshots'[i] = Append(Snapshots, children)[i]
  <2>1. CASE i = Waiting + 1
    BY <1>1, <1>3, <1>6, <2>1
  <2>2. CASE i # Waiting + 1
    <3>1. i \in 0 .. Waiting /\ i \in 1 .. Waiting
      BY <1>1, <2>2
    <3>2. Snapshots[i] = SnapshotAt(i) /\ SnapshotAt(i)' = SnapshotAt(i)
      BY <1>1, <3>1 DEF Snapshots
    <3> QED
      BY <1>3, <1>6, <3>1, <3>2
  <2> QED
    BY <2>1, <2>2
<1> QED
  BY <1>5, <1>6, <1>7, SeqEqual

LEMMA ViewReflects ==
  ASSUME TypeOK, WorkerNotify
  PROVE  /\ Snapshots # << >> /\ Head(Snapshots) = SnapshotAt(1)
         /\ Snapshots' = Tail(Snapshots)
<1>1. /\ Snapshots \in Seq(SUBSET Nodes) /\ Len(Snapshots) = Waiting
      /\ Waiting \in Nat \ {0} /\ Waiting' = Waiting - 1
      /\ \A i \in 0 .. Waiting - 1 : SnapshotAt(i)' = SnapshotAt(i + 1)
  BY SnapshotsType, SnapshotReflected
<1>2. 1 \in 1 .. Waiting
  BY <1>1
<1>3. Snapshots # << >> /\ Head(Snapshots) = Snapshots[1]
  BY <1>1
<1>4. Snapshots[1] = SnapshotAt(1)
  BY <1>2 DEF Snapshots
<1>5. Snapshots' = [i \in 1 .. Waiting - 1 |-> SnapshotAt(i)']
  BY <1>1 DEF Snapshots
<1>6. \A i \in 1 .. Waiting - 1 : SnapshotAt(i)' \in SUBSET Nodes
  BY DEF SnapshotAt
<1>7. Snapshots' \in Seq(SUBSET Nodes) /\ Len(Snapshots') = Waiting - 1
  BY <1>1, <1>5, <1>6
<1>8. /\ Tail(Snapshots) \in Seq(SUBSET Nodes) /\ Len(Tail(Snapshots)) = Waiting - 1
      /\ \A i \in 1 .. Waiting - 1 : Tail(Snapshots)[i] = Snapshots[i + 1]
  BY <1>1, <1>3
<1>9. ASSUME NEW i \in 1 .. Waiting - 1 PROVE Snapshots'[i] = Tail(Snapshots)[i]
  <2>1. i \in 0 .. Waiting - 1 /\ i + 1 \in 1 .. Waiting
    BY <1>1
  <2>2. Snapshots[i + 1] = SnapshotAt(i + 1)
    BY <2>1 DEF Snapshots
  <2> QED
    BY <1>1, <1>5, <1>8, <2>1, <2>2
<1> QED
  BY <1>3, <1>4, <1>7, <1>8, <1>9, SeqEqual

LEMMA ViewStep ==
  ASSUME TypeOK, TypeOK', SnapshotInv, [Next]_vars
  PROVE  [View!Next]_(View!viewVars)
<1>2. CASE UNCHANGED <<nodes, Pending>> /\ (members' = members \/ members' = Empty)
  <2>1. Snapshots' = Snapshots
    BY <1>2, SnapshotFrame DEF Snapshots
  <2> QED
    BY <1>2, <2>1 DEF View!Next, View!PathLost, View!viewVars, Empty, Snapshots, Waiting
<1>3. ASSUME NEW children \in SUBSET Nodes, OnSetChanged(children), UNCHANGED <<members, worker>>
      PROVE  View!Next
  <2>1. Snapshots' = Append(Snapshots, children)
    BY <1>3, ViewObserves
  <2> QED
    BY <1>3, <2>1 DEF View!Next, View!Observe, Snapshots, Waiting
<1>4. CASE WorkerTake
  BY <1>2, <1>4, PendingTaken DEF WorkerTake
<1>5. ASSUME NEW n \in Nodes, WorkerRead(n) PROVE UNCHANGED <<nodes, members, Pending>>
  BY <1>5 DEF WorkerRead, ReadNode, Pending, TypeOK, Worker
<1>6. CASE WorkerNotify
  <2>1. /\ Snapshots # << >> /\ Head(Snapshots) = SnapshotAt(1)
        /\ Snapshots' = Tail(Snapshots)
    BY <1>6, ViewReflects
  <2>2. /\ \A n \in Nodes : n \notin SnapshotAt(1) => members'[n] = Absent
        /\ \A n \in Nodes : members[n] # Absent /\ n \in SnapshotAt(1) => members'[n] = members[n]
    BY <1>6, NotifyFollows DEF Known
  <2>3. members' \in [Nodes -> Endpoints \cup {Absent}]
    BY DEF TypeOK, Table, MaybeEndpoint
  <2>4. View!Reflect
    BY <2>1, <2>2, <2>3 DEF View!Reflect, View!InView, Snapshots, Waiting
  <2> QED
    BY <2>4 DEF View!Next
<1> QED
  BY <1>2, <1>3, <1>4, <1>5, <1>6, PipelineStep DEF Pending

\* For any nodes and however the path comes and goes: what the watch, the queue of
\* differences and the worker (serverset.py _on_set_changed, _notification_worker)
\* do to _members is a step of MembershipView or none - the members follow the
\* snapshots of the children, one at a time and in order.
THEOREM ViewFollows == Spec => MembersFollowSnapshots
<1>1. Init => SnapshotInv /\ View!Init
  <2> SUFFICES ASSUME Init PROVE SnapshotInv /\ View!Init
    OBVIOUS
  <2>1. SnapshotInv
    BY InitType, SnapshotInvInit
  <2>2. Pending = << >>
    BY DEF Init, IdleWorker, Pending
  <2>3. [i \in 1 .. Len(Pending) |-> SnapshotAt(i)] = << >>
    BY <2>2
  <2> QED
    BY <2>1, <2>3 DEF View!Init, Init, Empty
<1>2. TypeOK /\ SnapshotInv /\ [Next]_vars => SnapshotInv'
  BY SnapshotInvStep
<1>3. TypeOK /\ TypeOK' /\ SnapshotInv /\ [Next]_vars => [View!Next]_(View!viewVars)
  BY ViewStep
<1> QED
  BY <1>1, <1>2, <1>3, TypeCorrect, PTL DEF Spec, MembersFollowSnapshots, View!Spec

-----------------------------------------------------------------------------
(* The callbacks of one difference, one after another.                     *)

\* Every set of natural numbers that is not empty has a least element.
LEMMA LeastNat ==
  ASSUME NEW T \in SUBSET Nat, T # {}
  PROVE  \E n \in T : \A m \in T : n <= m
<1> DEFINE U == {1 .. n : n \in T}
<1>1. U \subseteq FiniteSubsetsOf(Nat) /\ U # {}
  <2>1. ASSUME NEW n \in T PROVE 1 .. n \in FiniteSubsetsOf(Nat)
    <3>1. n \in Int /\ 1 \in Int /\ 1 .. n \in SUBSET Nat
      OBVIOUS
    <3>2. IsFiniteSet(1 .. n)
      BY <3>1, FS_Interval
    <3> QED
      BY <3>1, <3>2 DEF FiniteSubsetsOf
  <2> QED
    BY <2>1
<1>2. PICK u \in U : \A v \in U : ~(<<v, u>> \in StrictSubsetOrdering(Nat))
  <2> HIDE DEF U
  <2> QED
    BY <1>1, FS_StrictSubsetOrderingWellFounded, WFMin
<1>3. PICK n \in T : u = 1 .. n
  BY <1>2
<1>4. ASSUME NEW m \in T PROVE n <= m
  <2> SUFFICES ASSUME m < n PROVE FALSE
    OBVIOUS
  <2>1. 1 .. m \in U /\ 1 .. m \subseteq 1 .. n /\ n \in 1 .. n /\ n \notin 1 .. m
    OBVIOUS
  <2>2. 1 .. m \subseteq Nat /\ 1 .. n \subseteq Nat
    OBVIOUS
  <2> QED
    BY <1>2, <1>3, <2>1, <2>2 DEF StrictSubsetOrdering
<1> QED
  BY <1>4

\* Induction over the natural numbers, for a set.
LEMMA NatSetInduction ==
  ASSUME NEW T, 0 \in T, \A n \in Nat : n \in T => n + 1 \in T
  PROVE  Nat \subseteq T
<1> SUFFICES ASSUME Nat \ T # {} PROVE FALSE
  OBVIOUS
<1>1. PICK n \in Nat \ T : \A m \in Nat \ T : n <= m
  BY LeastNat
<1>2. n # 0 /\ n - 1 \in Nat /\ ~(n <= n - 1)
  BY <1>1
<1>3. n - 1 \in T
  BY <1>1, <1>2
<1> QED
  BY <1>1, <1>2, <1>3

\* A set of positions that is not empty has a greatest one.
LEMMA MaxOfPositions ==
  ASSUME NEW m \in Nat, NEW s \in SUBSET (1 .. m), s # {}
  PROVE  Max(s) \in s /\ \A x \in s : x <= Max(s)
<1> DEFINE Above == {k \in Nat : \A x \in s : x <= k}
<1>1. m \in Above
  OBVIOUS
<1>2. PICK k \in Above : \A j \in Above : k <= j
  <2> HIDE DEF Above
  <2>1. Above \in SUBSET Nat
    BY DEF Above
  <2> QED
    BY <1>1, <2>1, LeastNat
<1>3. k \in s
  <2> SUFFICES ASSUME k \notin s PROVE FALSE
    OBVIOUS
  <2>1. \A x \in s : x <= k - 1 /\ 1 <= x
    BY <1>2
  <2>2. k - 1 \in Nat
    <3>1. PICK x \in s : TRUE
      OBVIOUS
    <3>2. x \in Nat /\ 1 <= x /\ x <= k - 1 /\ k \in Nat
      BY <1>2, <2>1, <3>1
    <3> QED
      BY <3>2
  <2> QED
    BY <1>2, <2>1, <2>2
<1>4. \A x \in s : x \in Nat /\ k >= x
  BY <1>2
<1>5. \E k1 \in s : \A x \in s : k1 >= x
  BY <1>3, <1>4
<1>6. Max(s) \in s /\ \A x \in s : Max(s) >= x
  BY <1>5 DEF Max
<1> QED
  BY <1>4, <1>6

\* A callback: on_join or on_leave.
Called(joins, s, n) == IF joins THEN OnNodeJoin(s, n) ELSE OnNodeLeave(s, n)

\* What FoldLeft takes for the states after the callbacks at a set of positions,
\* when it is asked for positions up to m.
After(joins, base, seq, g, m) ==
  \A s \in SUBSET DOMAIN seq : s \subseteq 1 .. m =>
    g[s] = IF s = {} THEN base ELSE Called(joins, g[s \ {Max(s)}], seq[Max(s)])

LEMMA AfterExists ==
  ASSUME NEW joins, NEW base, NEW seq \in Seq(Nodes), NEW l \in Nat
  PROVE  \E g : g = [s \in SUBSET DOMAIN seq |-> g[s]] /\ After(joins, base, seq, g, l)
<1> DEFINE Solved == {m \in Nat : \E g : /\ g = [s \in SUBSET DOMAIN seq |-> g[s]]
                                          /\ After(joins, base, seq, g, m)}
<1>1. 0 \in Solved
  <2> DEFINE g == [s \in SUBSET DOMAIN seq |-> base]
  <2>1. 1 .. 0 = {}
    OBVIOUS
  <2>2. ASSUME NEW s \in SUBSET DOMAIN seq PROVE g[s] = base
    OBVIOUS
  <2>3. After(joins, base, seq, g, 0)
    <3> HIDE DEF g
    <3> QED
      BY <2>1, <2>2 DEF After
  <2>4. g = [s \in SUBSET DOMAIN seq |-> g[s]]
    OBVIOUS
  <2> HIDE DEF g
  <2> QED
    BY <2>3, <2>4
<1>2. ASSUME NEW m \in Nat, m \in Solved PROVE m + 1 \in Solved
  <2>1. PICK g : g = [s \in SUBSET DOMAIN seq |-> g[s]] /\ After(joins, base, seq, g, m)
    BY <1>2
  <2> DEFINE h == [s \in SUBSET DOMAIN seq |->
                     IF s = {} THEN base ELSE Called(joins, g[s \ {Max(s)}], seq[Max(s)])]
  <2>2. ASSUME NEW s \in SUBSET DOMAIN seq, s \subseteq 1 .. m PROVE h[s] = g[s]
    BY <2>1, <2>2 DEF After
  <2>3. ASSUME NEW s \in SUBSET DOMAIN seq, s \subseteq 1 .. m + 1, s # {}
        PROVE  h[s] = Called(joins, h[s \ {Max(s)}], seq[Max(s)])
    <3>1. Max(s) \in s /\ \A x \in s : x <= Max(s)
      BY <2>3, MaxOfPositions
    <3>2. s \ {Max(s)} \in SUBSET DOMAIN seq /\ s \ {Max(s)} \subseteq 1 .. m
      BY <2>3, <3>1
    <3>3. h[s \ {Max(s)}] = g[s \ {Max(s)}]
      BY <2>2, <3>2
    <3> QED
      BY <2>3, <3>3
  <2>4. h[{}] = base
    OBVIOUS
  <2>5. After(joins, base, seq, h, m + 1)
    <3> HIDE DEF h
    <3> QED
      BY <2>3, <2>4 DEF After
  <2>6. h = [s \in SUBSET DOMAIN seq |-> h[s]]
    OBVIOUS
  <2> HIDE DEF h
  <2> QED
    BY <2>5, <2>6
<1>3. Nat \subseteq Solved
  <2> HIDE DEF Solved
  <2> QED
    BY <1>1, <1>2, NatSetInduction
<1> QED
  BY <1>3

\* A run of callbacks: the states before the first, between any two and after the
\* last.
Run(joins, base, seq, run) ==
  /\ run[0] = base
  /\ \A i \in 0 .. Len(seq) - 1 : run[i + 1] = Called(joins, run[i], seq[i + 1])

LEMMA RunOf ==
  ASSUME NEW joins, NEW base, NEW seq \in Seq(Nodes), NEW g,
         After(joins, base, seq, g, Len(seq))
  PROVE  \E run : Run(joins, base, seq, run) /\ run[Len(seq)] = g[DOMAIN seq]
<1> DEFINE run == [i \in 0 .. Len(seq) |-> g[1 .. i]]
<1>1. Len(seq) \in Nat /\ DOMAIN seq = 1 .. Len(seq) /\ 1 .. 0 = {}
  OBVIOUS
<1>2. run[0] = base
  <2>1. run[0] = g[{}]
    BY <1>1
  <2>2. {} \in SUBSET DOMAIN seq /\ {} \subseteq 1 .. Len(seq)
    OBVIOUS
  <2> HIDE DEF run
  <2> QED
    BY <2>1, <2>2 DEF After
<1>3. ASSUME NEW i \in 0 .. Len(seq) - 1 PROVE run[i + 1] = Called(joins, run[i], seq[i + 1])
  <2> DEFINE s == 1 .. i + 1
  <2>1. i \in Nat /\ i + 1 \in Nat /\ i + 1 \in s /\ \A x \in s : x <= i + 1
    BY <1>1
  <2>2. s \in SUBSET DOMAIN seq /\ s \subseteq 1 .. Len(seq) /\ s # {}
    <3>1. ASSUME NEW x \in s PROVE x \in 1 .. Len(seq)
      <4>1. i + 1 <= Len(seq) /\ x \in 1 .. i + 1
        BY <1>1
      <4> QED
        BY <1>1, <2>1, <4>1
    <3> HIDE DEF s
    <3> QED
      BY <1>1, <2>1, <3>1
  <2>3. Max(s) = i + 1
    <3>1. s \in SUBSET (1 .. i + 1)
      OBVIOUS
    <3>2. Max(s) \in s /\ \A x \in s : x <= Max(s)
      <4> HIDE DEF s
      <4> QED
        BY <2>1, <2>2, <3>1, MaxOfPositions
    <3>3. Max(s) \in Nat
      BY <3>2
    <3>4. Max(s) <= i + 1 /\ i + 1 <= Max(s)
      BY <2>1, <3>2
    <3> HIDE DEF s
    <3> QED
      BY <2>1, <3>3, <3>4
  <2>4. s \ {i + 1} = 1 .. i
    BY <2>1
  <2>5. run[i + 1] = g[s] /\ run[i] = g[1 .. i]
    <3>1. i \in 0 .. Len(seq) /\ i + 1 \in 0 .. Len(seq)
      <4> HIDE DEF run, s
      <4> QED
        BY <1>1
    <3> QED
      BY <3>1
  <2>6. g[s] = Called(joins, g[s \ {Max(s)}], seq[Max(s)])
    <3> HIDE DEF s, run
    <3> QED
      BY <2>2 DEF After
  <2> HIDE DEF run, s
  <2> QED
    BY <2>3, <2>4, <2>5, <2>6
<1>4. run[Len(seq)] = g[DOMAIN seq]
  BY <1>1
<1> HIDE DEF run
<1> QED
  BY <1>2, <1>3, <1>4 DEF Run

\* The fold over the nodes that leave, and the one over those that join, are runs.
LEMMA LeavesRun ==
  ASSUME NEW base, NEW seq \in Seq(Nodes)
  PROVE  \E run : Run(FALSE, base, seq, run) /\ run[Len(seq)] = FoldLeft(OnNodeLeave, base, seq)
<1> DEFINE Solves(g) == g = [s \in SUBSET DOMAIN seq |->
               IF s = {} THEN base ELSE OnNodeLeave(g[s \ {Max(s)}], seq[Max(s)])]
<1>1. \E g : Solves(g)
  <2>1. Len(seq) \in Nat /\ DOMAIN seq = 1 .. Len(seq)
    OBVIOUS
  <2>2. PICK g : g = [s \in SUBSET DOMAIN seq |-> g[s]] /\ After(FALSE, base, seq, g, Len(seq))
    BY <2>1, AfterExists
  <2>3. \A s \in SUBSET DOMAIN seq :
          g[s] = IF s = {} THEN base ELSE OnNodeLeave(g[s \ {Max(s)}], seq[Max(s)])
    BY <2>1, <2>2 DEF After, Called
  <2> QED
    BY <2>2, <2>3
<1>2. FoldLeft(OnNodeLeave, base, seq) = (CHOOSE g : Solves(g))[DOMAIN seq]
  BY DEF FoldLeft, MapThenFoldSet
<1>3. PICK g : g = (CHOOSE h : Solves(h)) /\ Solves(g)
  BY <1>1
<1>4. After(FALSE, base, seq, g, Len(seq))
  <2>1. \A s \in SUBSET DOMAIN seq :
          g[s] = IF s = {} THEN base ELSE OnNodeLeave(g[s \ {Max(s)}], seq[Max(s)])
    BY <1>3
  <2> QED
    BY <2>1 DEF After, Called
<1>5. PICK run : Run(FALSE, base, seq, run) /\ run[Len(seq)] = g[DOMAIN seq]
  BY <1>4, RunOf
<1> QED
  BY <1>2, <1>3, <1>5

LEMMA JoinsRun ==
  ASSUME NEW base, NEW seq \in Seq(Nodes)
  PROVE  \E run : Run(TRUE, base, seq, run) /\ run[Len(seq)] = FoldLeft(OnNodeJoin, base, seq)
<1> DEFINE Solves(g) == g = [s \in SUBSET DOMAIN seq |->
               IF s = {} THEN base ELSE OnNodeJoin(g[s \ {Max(s)}], seq[Max(s)])]
<1>1. \E g : Solves(g)
  <2>1. Len(seq) \in Nat /\ DOMAIN seq = 1 .. Len(seq)
    OBVIOUS
  <2>2. PICK g : g = [s \in SUBSET DOMAIN seq |-> g[s]] /\ After(TRUE, base, seq, g, Len(seq))
    BY <2>1, AfterExists
  <2>3. \A s \in SUBSET DOMAIN seq :
          g[s] = IF s = {} THEN base ELSE OnNodeJoin(g[s \ {Max(s)}], seq[Max(s)])
    BY <2>1, <2>2 DEF After, Called
  <2> QED
    BY <2>2, <2>3
<1>2. FoldLeft(OnNodeJoin, base, seq) = (CHOOSE g : Solves(g))[DOMAIN seq]
  BY DEF FoldLeft, MapThenFoldSet
<1>3. PICK g : g = (CHOOSE h : Solves(h)) /\ Solves(g)
  BY <1>1
<1>4. After(TRUE, base, seq, g, Len(seq))
  <2>1. \A s \in SUBSET DOMAIN seq :
          g[s] = IF s = {} THEN base ELSE OnNodeJoin(g[s \ {Max(s)}], seq[Max(s)])
    BY <1>3
  <2> QED
    BY <2>1 DEF After, Called
<1>5. PICK run : Run(TRUE, base, seq, run) /\ run[Len(seq)] = g[DOMAIN seq]
  BY <1>4, RunOf
<1> QED
  BY <1>2, <1>3, <1>5

-----------------------------------------------------------------------------
(* What a callback of the Mesos source does.                               *)

\* A table that is not empty has a lowest node, and that makes a leader.
LEMMA LowestOf ==
  ASSUME NEW t \in Table, Known(t) # {}
  PROVE  /\ Lowest(t) \in Known(t) /\ \A k \in Known(t) : Lowest(t) <= k
         /\ GetLeader(t) \in Leader
<1>1. Known(t) \in SUBSET Nat
  BY MesosAssumption DEF MesosAssumption, Known
<1>2. \E n \in Known(t) : \A k \in Known(t) : n <= k
  BY <1>1, LeastNat
<1>3. Lowest(t) \in Known(t) /\ \A k \in Known(t) : Lowest(t) <= k
  BY <1>2 DEF Lowest
<1>4. t[Lowest(t)] \in Endpoints /\ Lowest(t) \in Nodes
  BY <1>3 DEF Known, Table, MaybeEndpoint
<1> QED
  BY <1>3, <1>4 DEF GetLeader, Leader

LEMMA LowestIs ==
  ASSUME NEW t \in Table, NEW n \in Known(t), \A k \in Known(t) : n <= k
  PROVE  Lowest(t) = n
<1>1. Known(t) \in SUBSET Nat
  BY MesosAssumption DEF MesosAssumption, Known
<1>2. Lowest(t) \in Known(t) /\ Lowest(t) <= n /\ n <= Lowest(t)
  BY LowestOf
<1> QED
  BY <1>1, <1>2

\* Nobody but the leader is served.
Sole(s) == s \in Source /\ s.served \subseteq {s.leader.endpoint}

\* As long as there are members, the lowest is the leader and served.
Leads(s) ==
  Known(s.joined) # {} => s.leader = GetLeader(s.joined) /\ s.served = {s.leader.endpoint}

LEMMA NoLeaderType ==
  /\ NoLeader \notin Leader /\ NoLeader.node = Absent /\ NoLeader.endpoint = Absent
  /\ \A l \in Leader : l.endpoint \in Endpoints /\ l.node \in Nodes
BY ServerSetAssumption DEF NoLeader, Leader, ServerSetAssumption

\* A member more or less.
LEMMA JoinedType ==
  ASSUME NEW s \in Source, NEW n \in Nodes, NEW e \in MaybeEndpoint
  PROVE  LET m == [s EXCEPT !.joined[n] = e]
         IN  /\ m \in Source /\ m.joined = [s.joined EXCEPT ![n] = e]
             /\ m.leader = s.leader /\ m.served = s.served
BY DEF Source, Table

LEMMA ServedType ==
  ASSUME NEW s \in Source, NEW es \in SUBSET Endpoints
  PROVE  LET m == [s EXCEPT !.served = es]
         IN  m \in Source /\ m.joined = s.joined /\ m.leader = s.leader /\ m.served = es
BY DEF Source

LEMMA NotifyIs ==
  ASSUME NEW s, Sole(s)
  PROVE  LET m == MaybeNotifyLeaderChange(s)
         IN  /\ Sole(m) /\ m.joined = s.joined
             /\ Known(s.joined) = {} => m.leader = s.leader /\ m.served = {}
             /\ Known(s.joined) # {} =>
                  IF Lowest(s.joined) = s.leader.node
                  THEN m.leader = s.leader /\ m.served = s.served
                  ELSE m.leader = GetLeader(s.joined) /\ m.served = {m.leader.endpoint}
<1> DEFINE m == MaybeNotifyLeaderChange(s)
<1>1. s \in Source /\ s.joined \in Table /\ s.served \in SUBSET Endpoints /\ Without(s) = {}
  BY DEF Sole, Source, Without
<1>2. CASE Known(s.joined) = {}
  <2>1. m = [s EXCEPT !.served = {}]
    BY <1>1, <1>2 DEF MaybeNotifyLeaderChange
  <2>2. m \in Source /\ m.joined = s.joined /\ m.leader = s.leader /\ m.served = {}
    BY <1>1, <2>1, ServedType
  <2> QED
    BY <1>2, <2>2 DEF Sole
<1>3. CASE Known(s.joined) # {} /\ Lowest(s.joined) = s.leader.node
  BY <1>1, <1>3 DEF MaybeNotifyLeaderChange
<1>4. CASE Known(s.joined) # {} /\ Lowest(s.joined) # s.leader.node
  <2> DEFINE l == GetLeader(s.joined)
  <2>1. l \in Leader
    BY <1>1, <1>4, LowestOf
  <2>2. {l.endpoint} \in SUBSET Endpoints
    BY <2>1, NoLeaderType
  <2>3. m = [s EXCEPT !.leader = l, !.served = {l.endpoint}]
    BY <1>1, <1>4 DEF MaybeNotifyLeaderChange
  <2> HIDE DEF l, m
  <2>4. m \in Source /\ m.joined = s.joined /\ m.leader = l /\ m.served = {l.endpoint}
    <3>1. s \in Source
      BY <1>1
    <3> QED
      BY ONLY <2>1, <2>2, <2>3, <3>1 DEF Source
  <2> QED
    BY <1>4, <2>4 DEF Sole, m, l
<1> QED
  BY <1>2, <1>3, <1>4

\* on_leave: the next in line leads.
LEMMA LeaveIs ==
  ASSUME NEW s, Sole(s), NEW n \in Nodes
  PROVE  LET m == OnNodeLeave(s, n)
         IN  /\ Sole(m) /\ m.joined = [s.joined EXCEPT ![n] = Absent]
             /\ Leads(s) /\ n \in Known(s.joined) =>
                  Leads(m) /\ m.leader.node \in Known(s.joined)
                           /\ m.leader = [node |-> m.leader.node, endpoint |-> s.joined[m.leader.node]]
<1> DEFINE r == [s EXCEPT !.joined[n] = Absent]
           m == OnNodeLeave(s, n)
<1>1. s \in Source /\ s.joined \in Table /\ Absent \in MaybeEndpoint
  BY DEF Sole, Source, MaybeEndpoint
<1>2. /\ r \in Source /\ r.joined = [s.joined EXCEPT ![n] = Absent]
      /\ r.leader = s.leader /\ r.served = s.served
  BY <1>1, JoinedType
<1>3. m = MaybeNotifyLeaderChange(r)
  BY DEF OnNodeLeave
<1> HIDE DEF r, m
<1>4. Sole(r)
  BY <1>2 DEF Sole
<1>5. /\ Sole(m) /\ m.joined = r.joined
      /\ Known(r.joined) = {} => m.leader = r.leader /\ m.served = {}
      /\ Known(r.joined) # {} =>
           IF Lowest(r.joined) = r.leader.node
           THEN m.leader = r.leader /\ m.served = r.served
           ELSE m.leader = GetLeader(r.joined) /\ m.served = {m.leader.endpoint}
  BY <1>3, <1>4, NotifyIs
<1>6. r.joined \in Table /\ Known(r.joined) = Known(s.joined) \ {n}
      /\ \A k \in Known(r.joined) : r.joined[k] = s.joined[k]
  BY <1>1, <1>2 DEF Source, Known, Table
<1>7. ASSUME Leads(s), n \in Known(s.joined)
      PROVE  Leads(m) /\ m.leader.node \in Known(s.joined)
                      /\ m.leader = [node |-> m.leader.node, endpoint |-> s.joined[m.leader.node]]
  <2>1. /\ s.leader = GetLeader(s.joined) /\ s.served = {s.leader.endpoint}
        /\ Lowest(s.joined) \in Known(s.joined) /\ s.leader.node = Lowest(s.joined)
        /\ s.leader.endpoint = s.joined[Lowest(s.joined)]
    BY <1>1, <1>7, LowestOf DEF Leads, GetLeader
  <2>2. CASE Known(r.joined) = {}
    BY <1>2, <1>5, <2>1, <2>2 DEF Leads, GetLeader
  <2>3. CASE Known(r.joined) # {} /\ Lowest(r.joined) = r.leader.node
    <3>1. Lowest(r.joined) \in Known(r.joined) /\ Lowest(r.joined) = Lowest(s.joined)
      BY <1>2, <1>6, <2>1, <2>3, LowestOf
    <3>2. GetLeader(r.joined) = GetLeader(s.joined)
      BY <1>6, <3>1 DEF GetLeader
    <3>3. m.leader = s.leader /\ m.served = s.served
      BY <1>2, <1>5, <2>3
    <3> QED
      BY <1>5, <2>1, <3>2, <3>3 DEF Leads, GetLeader
  <2>4. CASE Known(r.joined) # {} /\ Lowest(r.joined) # r.leader.node
    <3>1. Lowest(r.joined) \in Known(r.joined)
      BY <1>6, <2>4, LowestOf
    <3>2. m.leader = GetLeader(r.joined) /\ m.served = {m.leader.endpoint}
      BY <1>5, <2>4
    <3>3. m.leader.node = Lowest(r.joined) /\ m.leader.endpoint = s.joined[Lowest(r.joined)]
      BY <1>6, <3>1, <3>2 DEF GetLeader
    <3> QED
      BY <1>5, <1>6, <3>1, <3>2, <3>3 DEF Leads, GetLeader
  <2> QED
    BY <2>2, <2>3, <2>4
<1> QED
  BY <1>2, <1>5, <1>7 DEF m

\* on_join: the lowest of the members leads, unless the node was the leader before and
\* is not served any more, or is with another endpoint.
LEMMA JoinIs ==
  ASSUME NEW s, Sole(s), NEW n \in Nodes, Updated[n] \in Endpoints
  PROVE  LET m == OnNodeJoin(s, n)
         IN  /\ Sole(m) /\ m.joined = [s.joined EXCEPT ![n] = Updated[n]]
             /\ /\ Leads(s) /\ n \notin Known(s.joined)
                /\ s.leader.node = n /\ Known(s.joined) = {}
                     => s.served = {s.leader.endpoint} /\ s.leader.endpoint = Updated[n]
                => Leads(m)
<1> DEFINE r == [s EXCEPT !.joined[n] = Updated[n]]
           m == OnNodeJoin(s, n)
<1>1. s \in Source /\ s.joined \in Table /\ Updated[n] \in MaybeEndpoint
  BY DEF Sole, Source, MaybeEndpoint
<1>2. /\ r \in Source /\ r.joined = [s.joined EXCEPT ![n] = Updated[n]]
      /\ r.leader = s.leader /\ r.served = s.served
  BY <1>1, JoinedType
<1>3. m = MaybeNotifyLeaderChange(r)
  BY DEF OnNodeJoin
<1> HIDE DEF r, m
<1>4. Sole(r)
  BY <1>2 DEF Sole
<1>5. /\ Sole(m) /\ m.joined = r.joined
      /\ Known(r.joined) # {} =>
           IF Lowest(r.joined) = r.leader.node
           THEN m.leader = r.leader /\ m.served = r.served
           ELSE m.leader = GetLeader(r.joined) /\ m.served = {m.leader.endpoint}
  BY <1>3, <1>4, NotifyIs
<1>6. r.joined \in Table /\ Known(r.joined) = Known(s.joined) \cup {n}
      /\ r.joined[n] = Updated[n]
      /\ \A k \in Known(s.joined) : k # n => r.joined[k] = s.joined[k]
  BY <1>1, <1>2, ServerSetAssumption DEF Source, Known, Table, ServerSetAssumption
<1>7. ASSUME Leads(s), n \notin Known(s.joined),
             s.leader.node = n /\ Known(s.joined) = {}
               => s.served = {s.leader.endpoint} /\ s.leader.endpoint = Updated[n]
      PROVE  Leads(m)
  <2>1. Known(r.joined) # {} /\ Lowest(r.joined) \in Known(r.joined)
    BY <1>6, LowestOf
  <2>2. CASE Lowest(r.joined) # r.leader.node
    BY <1>5, <2>1, <2>2 DEF Leads
  <2>3. CASE Lowest(r.joined) = r.leader.node /\ Known(s.joined) # {}
    <3>1. /\ s.leader = GetLeader(s.joined) /\ s.served = {s.leader.endpoint}
          /\ Lowest(s.joined) \in Known(s.joined) /\ s.leader.node = Lowest(s.joined)
      BY <1>1, <1>7, <2>3, LowestOf DEF Leads, GetLeader
    <3>2. Lowest(r.joined) = Lowest(s.joined)
      BY <1>2, <2>3, <3>1
    <3>3. GetLeader(r.joined) = GetLeader(s.joined)
      BY <1>6, <1>7, <3>1, <3>2 DEF GetLeader
    <3> QED
      BY <1>2, <1>5, <2>1, <2>3, <3>1, <3>3 DEF Leads
  <2>4. CASE Lowest(r.joined) = r.leader.node /\ Known(s.joined) = {}
    <3>1. Lowest(r.joined) = n /\ s.leader.node = n
      BY <1>2, <1>6, <2>1, <2>4
    <3>2. s.served = {s.leader.endpoint} /\ s.leader.endpoint = r.joined[n]
      BY <1>6, <1>7, <2>4, <3>1
    <3>3. s.leader \in Leader
      BY <1>1, <3>1, NoLeaderType, <3>2, <1>6, ServerSetAssumption DEF Source, ServerSetAssumption
    <3>4. s.leader = GetLeader(r.joined)
      BY <3>1, <3>2, <3>3 DEF GetLeader, Leader
    <3> QED
      BY <1>2, <1>5, <2>1, <2>4, <3>2, <3>4 DEF Leads
  <2> QED
    BY <2>2, <2>3, <2>4
<1> QED
  BY <1>2, <1>5, <1>7 DEF m

\* The nodes of the first i callbacks.
UpTo(seq, i) == {seq[k] : k \in 1 .. i}

\* An order of a set of nodes has each of them once.
LEMMA OrderOf ==
  ASSUME NEW S \in SUBSET Nodes, NEW seq \in SetToSeqs(S)
  PROVE  /\ seq \in Seq(Nodes) /\ UpTo(seq, Len(seq)) = S
         /\ \A i \in 0 .. Len(seq) - 1 : seq[i + 1] \in S \ UpTo(seq, i)
<1>1. IsFiniteSet(S)
  BY MesosAssumption, FS_Subset DEF MesosAssumption
<1> DEFINE c == Cardinality(S)
<1>2. c \in Nat
  BY <1>1, FS_CardinalityType
<1>3. /\ seq \in [1 .. c -> S]
      /\ \A i, j \in 1 .. c : i # j => seq[i] # seq[j]
  BY DEF SetToSeqs
<1>4. seq \in Seq(Nodes) /\ Len(seq) = c
  <2> HIDE DEF c
  <2> QED
    BY <1>2, <1>3
<1>5. seq \in Injection(1 .. c, S)
  BY <1>3 DEF Injection, IsInjective
<1>6. IsFiniteSet(1 .. c) /\ Cardinality(1 .. c) = c
  <2> HIDE DEF c
  <2>1. 1 \in Int /\ c \in Int /\ (1 > c => c = 0) /\ c - 1 + 1 = c
    BY <1>2
  <2> QED
    BY <2>1, FS_Interval
<1>7. seq \in Surjection(1 .. c, S)
  BY <1>1, <1>5, <1>6, FS_Injection
<1>8. UpTo(seq, Len(seq)) = S
  BY <1>3, <1>4, <1>7 DEF UpTo, Surjection
<1>9. ASSUME NEW i \in 0 .. Len(seq) - 1 PROVE seq[i + 1] \in S \ UpTo(seq, i)
  <2> HIDE DEF c
  <2>1. i + 1 \in 1 .. c /\ \A k \in 1 .. i : k \in 1 .. c /\ k # i + 1
    BY <1>2, <1>4
  <2> QED
    BY <1>3, <2>1 DEF UpTo
<1> QED
  BY <1>4, <1>8, <1>9

LEMMA UpToNext ==
  ASSUME NEW seq, NEW i \in Nat
  PROVE  UpTo(seq, 0) = {} /\ UpTo(seq, i + 1) = UpTo(seq, i) \cup {seq[i + 1]}
<1>1. 1 .. 0 = {} /\ 1 .. i + 1 = (1 .. i) \cup {i + 1}
  OBVIOUS
<1> QED
  BY <1>1 DEF UpTo

\* What all the on_leave callbacks of a difference make of a state b.
Leaves(b, S, m) ==
  /\ Sole(m)
  /\ m.joined = [n \in Nodes |-> IF n \in S THEN Absent ELSE b.joined[n]]
  /\ Leads(b) => /\ Leads(m)
                 /\ \/ m = b
                    \/ /\ m.leader.node \in Known(b.joined)
                       /\ m.leader = [node |-> m.leader.node, endpoint |-> b.joined[m.leader.node]]

LEMMA LeavesEach ==
  ASSUME NEW b, Sole(b), NEW S \in SUBSET Known(b.joined), NEW seq \in SetToSeqs(S)
  PROVE  Leaves(b, S, FoldLeft(OnNodeLeave, b, seq))
<1>0. S \in SUBSET Nodes
  BY DEF Known
<1>1. /\ seq \in Seq(Nodes) /\ UpTo(seq, Len(seq)) = S /\ Len(seq) \in Nat
      /\ \A i \in 0 .. Len(seq) - 1 : seq[i + 1] \in S \ UpTo(seq, i)
  BY <1>0, OrderOf
<1>2. PICK run : Run(FALSE, b, seq, run) /\ run[Len(seq)] = FoldLeft(OnNodeLeave, b, seq)
  BY <1>1, LeavesRun
<1> DEFINE Good == {i \in Nat : i <= Len(seq) => Leaves(b, UpTo(seq, i), run[i])}
<1>3. 0 \in Good
  <2>1. run[0] = b /\ UpTo(seq, 0) = {} /\ b.joined \in [Nodes -> MaybeEndpoint]
    BY <1>2, UpToNext DEF Run, Sole, Source, Table
  <2>2. b.joined = [n \in Nodes |-> IF n \in {} THEN Absent ELSE b.joined[n]]
    BY <2>1
  <2> QED
    BY <2>1, <2>2 DEF Leaves
<1>4. ASSUME NEW i \in Nat, i \in Good PROVE i + 1 \in Good
  <2> SUFFICES ASSUME i + 1 <= Len(seq) PROVE Leaves(b, UpTo(seq, i + 1), run[i + 1])
    OBVIOUS
  <2> DEFINE n == seq[i + 1]
             s == run[i]
             m == run[i + 1]
  <2>1. i \in 0 .. Len(seq) - 1 /\ i <= Len(seq)
    BY <1>1
  <2>2. Leaves(b, UpTo(seq, i), s) /\ n \in S \ UpTo(seq, i) /\ m = OnNodeLeave(s, n)
    BY <1>1, <1>2, <1>4, <2>1 DEF Run, Called
  <2>3. UpTo(seq, i + 1) = UpTo(seq, i) \cup {n}
    BY UpToNext
  <2> HIDE DEF n, s, m
  <2>4. Sole(s) /\ n \in Nodes /\ n \in Known(b.joined) /\ n \in Known(s.joined)
    BY <2>2 DEF Leaves, Known
  <2>5. /\ Sole(m) /\ m.joined = [s.joined EXCEPT ![n] = Absent]
        /\ Leads(s) => Leads(m) /\ m.leader.node \in Known(s.joined)
             /\ m.leader = [node |-> m.leader.node, endpoint |-> s.joined[m.leader.node]]
    BY <2>2, <2>4, LeaveIs
  <2>6. m.joined = [k \in Nodes |-> IF k \in UpTo(seq, i + 1) THEN Absent ELSE b.joined[k]]
    BY <2>2, <2>3, <2>4, <2>5 DEF Leaves
  <2>7. ASSUME NEW k \in Known(s.joined) PROVE k \in Known(b.joined) /\ s.joined[k] = b.joined[k]
    BY <2>2 DEF Leaves, Known
  <2>8. Leaves(b, UpTo(seq, i + 1), m)
    BY <2>2, <2>5, <2>6, <2>7 DEF Leaves
  <2> QED
    BY <2>8 DEF m
<1>5. Nat \subseteq Good
  <2> HIDE DEF Good
  <2> QED
    BY <1>3, <1>4, NatSetInduction
<1> QED
  BY <1>1, <1>2, <1>5

\* What all the on_join callbacks of a difference make of a state b.  Ready: none of
\* those that join is a member, or was the leader before, but for one that start has
\* made the leader.
Ready(b, S) ==
  \A n \in S :
    /\ n \notin Known(b.joined)
    /\ b.leader.node = n => b.served = {b.leader.endpoint} /\ b.leader.endpoint = Updated[n]

Joins(b, S, m) ==
  /\ Sole(m)
  /\ m.joined = [n \in Nodes |-> IF n \in S THEN Updated[n] ELSE b.joined[n]]
  /\ Leads(b) /\ Ready(b, S) =>
                 /\ Leads(m)
                 /\ Known(m.joined) = {} => m.leader = b.leader /\ m.served = b.served

LEMMA JoinsEach ==
  ASSUME NEW b, Sole(b), NEW S \in SUBSET Known(Updated), TypeOK, NEW seq \in SetToSeqs(S)
  PROVE  Joins(b, S, FoldLeft(OnNodeJoin, b, seq))
<1>0. S \in SUBSET Nodes /\ \A n \in S : Updated[n] \in Endpoints
  BY UpdatedType DEF Known, Table, MaybeEndpoint
<1>1. /\ seq \in Seq(Nodes) /\ UpTo(seq, Len(seq)) = S /\ Len(seq) \in Nat
      /\ \A i \in 0 .. Len(seq) - 1 : seq[i + 1] \in S \ UpTo(seq, i)
  <2>1. S \in SUBSET Nodes
    BY <1>0
  <2>2. /\ seq \in Seq(Nodes) /\ UpTo(seq, Len(seq)) = S
        /\ \A i \in 0 .. Len(seq) - 1 : seq[i + 1] \in S \ UpTo(seq, i)
    BY ONLY <2>1, seq \in SetToSeqs(S), OrderOf
  <2> QED
    BY ONLY <2>2
<1>2. PICK run : Run(TRUE, b, seq, run) /\ run[Len(seq)] = FoldLeft(OnNodeJoin, b, seq)
  BY <1>1, JoinsRun
<1> DEFINE Good == {i \in Nat : i <= Len(seq) => Joins(b, UpTo(seq, i), run[i])}
<1>3. 0 \in Good
  <2>1. run[0] = b /\ UpTo(seq, 0) = {} /\ b.joined \in [Nodes -> MaybeEndpoint]
    BY <1>2, UpToNext DEF Run, Sole, Source, Table
  <2>2. b.joined = [n \in Nodes |-> IF n \in {} THEN Updated[n] ELSE b.joined[n]]
    BY <2>1
  <2> QED
    BY <2>1, <2>2 DEF Joins
<1>4. ASSUME NEW i \in Nat, i \in Good PROVE i + 1 \in Good
  <2> SUFFICES ASSUME i + 1 <= Len(seq) PROVE Joins(b, UpTo(seq, i + 1), run[i + 1])
    OBVIOUS
  <2> DEFINE n == seq[i + 1]
             s == run[i]
             m == run[i + 1]
  <2>1. i \in 0 .. Len(seq) - 1 /\ i <= Len(seq)
    BY <1>1
  <2>2. Joins(b, UpTo(seq, i), s) /\ n \in S \ UpTo(seq, i) /\ m = OnNodeJoin(s, n)
    BY <1>1, <1>2, <1>4, <2>1 DEF Run, Called
  <2>3. UpTo(seq, i + 1) = UpTo(seq, i) \cup {n}
    BY UpToNext
  <2> HIDE DEF n, s, m
  <2>4. Sole(s) /\ n \in Nodes /\ Updated[n] \in Endpoints
    BY <1>0, <2>2 DEF Joins
  <2>5. /\ Sole(m) /\ m.joined = [s.joined EXCEPT ![n] = Updated[n]]
        /\ /\ Leads(s) /\ n \notin Known(s.joined)
           /\ s.leader.node = n /\ Known(s.joined) = {}
                => s.served = {s.leader.endpoint} /\ s.leader.endpoint = Updated[n]
           => Leads(m)
    BY <2>2, <2>4, JoinIs
  <2>6. m.joined = [k \in Nodes |-> IF k \in UpTo(seq, i + 1) THEN Updated[k] ELSE b.joined[k]]
    BY <2>2, <2>3, <2>4, <2>5 DEF Joins
  <2>7. m.joined[n] = Updated[n] /\ Known(m.joined) # {}
    <3>1. m.joined[n] = Updated[n] /\ Updated[n] # Absent
      BY <2>3, <2>4, <2>6, ServerSetAssumption DEF ServerSetAssumption
    <3> QED
      BY <2>4, <3>1 DEF Known
  <2>8. ASSUME Leads(b), Ready(b, UpTo(seq, i + 1)) PROVE Leads(m)
    <3>1. /\ Leads(s) /\ (Known(s.joined) = {} => s.leader = b.leader /\ s.served = b.served)
          /\ n \notin Known(s.joined)
      BY <2>2, <2>3, <2>4, <2>8 DEF Joins, Ready, Known
    <3> QED
      BY <2>2, <2>3, <2>5, <2>8, <3>1 DEF Ready
  <2>9. Joins(b, UpTo(seq, i + 1), m)
    BY <2>5, <2>6, <2>7, <2>8 DEF Joins
  <2> QED
    BY <2>9 DEF m
<1>5. Nat \subseteq Good
  <2> HIDE DEF Good
  <2> QED
    BY <1>3, <1>4, NatSetInduction
<1> QED
  BY <1>1, <1>2, <1>5

\* What the callbacks of one difference make of the source's state.
Follows(b, m) ==
  /\ Leads(m)
  /\ Known(m.joined) = {} =>
       \/ m.leader = b.leader /\ m.served = b.served
       \/ /\ m.leader.node \in Known(b.joined)
          /\ m.leader = [node |-> m.leader.node, endpoint |-> b.joined[m.leader.node]]

LEMMA Announced ==
  ASSUME TypeOK, Sole(source), NEW L \in SUBSET Known(source.joined),
         NEW J \in SUBSET Known(Updated), Announce(L, J)
  PROVE  /\ Sole(source)'
         /\ source'.joined = [n \in Nodes |-> IF n \in J THEN Updated[n]
                                             ELSE IF n \in L THEN Absent ELSE source.joined[n]]
         /\ Leads(source) /\ Ready(source, J) => Follows(source, source')
<1>1. PICK leaves \in SetToSeqs(L), joins \in SetToSeqs(J) :
        source' = FoldLeft(OnNodeJoin, FoldLeft(OnNodeLeave, source, leaves), joins)
  BY DEF Announce
<1> DEFINE b == FoldLeft(OnNodeLeave, source, leaves)
<1>2. Leaves(source, L, b)
  BY LeavesEach
<1>3. source' = FoldLeft(OnNodeJoin, b, joins)
  BY <1>1
<1> HIDE DEF b
<1>4. Sole(b)
  BY <1>2 DEF Leaves
<1>5. Joins(b, J, source')
  BY <1>3, <1>4, JoinsEach
<1>6. source'.joined = [n \in Nodes |-> IF n \in J THEN Updated[n]
                                       ELSE IF n \in L THEN Absent ELSE source.joined[n]]
  BY <1>2, <1>5 DEF Leaves, Joins
<1>7. ASSUME Leads(source), Ready(source, J) PROVE Follows(source, source')
  <2>1. Leads(b)
    BY <1>2, <1>7 DEF Leaves
  <2>2. Ready(b, J)
    BY <1>2, <1>7 DEF Leaves, Ready, Known
  <2> QED
    BY <1>2, <1>5, <1>7, <2>1, <2>2 DEF Leaves, Joins, Follows
<1> QED
  BY <1>5, <1>6, <1>7 DEF Joins, Sole

-----------------------------------------------------------------------------
(* A node joins once, as long as the path is not created again.            *)

\* n cannot be found new among the children any more: either it is among those
\* remembered, or it was there and is gone.
Seen(n) == n \in nodes \/ (n \in issued /\ zk[n] = Absent /\ n \notin runner.children)

\* n is about to be read, and to join.
Ahead(n) == n \in worker.work.new \/ \E i \in DOMAIN queue : n \in queue[i].new

\* n will not join any more.
Over(n) == Seen(n) /\ ~Ahead(n)

LEMMA NewType ==
  ASSUME TypeOK
  PROVE  worker.work.new \subseteq Nodes /\ \A i \in DOMAIN queue : queue[i].new \subseteq Nodes
<1>1. queue \in Seq(Work) /\ worker.work \in Work
  BY DEF TypeOK, Worker
<1>2. \A i \in DOMAIN queue : queue[i] \in Work
  BY <1>1
<1> QED
  BY <1>1, <1>2 DEF Work

SeenInv ==
  /\ paths = 0 => path = 0 /\ issued = {}
  /\ nodes \subseteq issued \cap Accepted /\ runner.children \subseteq issued
  /\ Known(zk) \subseteq issued
  /\ runner.pc = "childCall" /\ runner.found => \A n \in nodes \ runner.children : zk[n] = Absent

LEMMA SeenInvStep ==
  ASSUME TypeOK, SeenInv, paths' <= 1, [Next]_vars
  PROVE  SeenInv' /\ \A n \in Nodes : Seen(n) => Seen(n)'
<1> USE DEF zkVars, watchVars, setVars, sourceVars
<1>1. CASE CreatePath
  <2>1. paths \in Nat /\ paths = 0 /\ issued = {} /\ issued' = {} /\ paths' = 1
    BY <1>1, ServerSetAssumption DEF CreatePath, SeenInv, TypeOK, ServerSetAssumption
  <2>2. UNCHANGED <<zk, runner, nodes>>
    BY <1>1 DEF CreatePath
  <2> QED
    BY <2>1, <2>2 DEF SeenInv, Seen, Known
<1>2. CASE DeletePath
  BY <1>2 DEF DeletePath, SeenInv, Seen, Known
<1>3. ASSUME NEW n \in Nodes, NEW e \in MayServe[n], AddNode(n, e)
      PROVE  SeenInv' /\ \A k \in Nodes : Seen(k) => Seen(k)'
  <2>1. /\ path # 0 /\ n \notin issued /\ issued' = issued \cup {n}
        /\ zk \in Table /\ zk' = [zk EXCEPT ![n] = e]
        /\ UNCHANGED <<path, paths, runner, nodes>>
    BY <1>3 DEF AddNode, TypeOK
  <2>2. \A k \in Nodes : k # n => zk'[k] = zk[k]
    BY <2>1 DEF Table
  <2>3. Known(zk') \subseteq Known(zk) \cup {n} /\ nodes \subseteq Nodes
    BY <2>2 DEF Known, TypeOK
  <2>4. ASSUME NEW k \in Nodes, Seen(k) PROVE Seen(k)'
    BY <2>1, <2>2, <2>4 DEF SeenInv, Seen
  <2>5. \A k \in nodes : k # n /\ zk'[k] = zk[k]
    BY <2>1, <2>2, <2>3 DEF SeenInv
  <2>6. SeenInv'
    BY <2>1, <2>3, <2>5 DEF SeenInv
  <2> QED
    BY <2>4, <2>6
<1>4. ASSUME NEW n \in Nodes, RemoveNode(n)
      PROVE  SeenInv' /\ \A k \in Nodes : Seen(k) => Seen(k)'
  <2>1. /\ zk \in Table /\ zk' = [zk EXCEPT ![n] = Absent]
        /\ UNCHANGED <<path, paths, issued, runner, nodes>>
    BY <1>4 DEF RemoveNode, TypeOK
  <2>2. \A k \in Nodes : zk'[k] \in {zk[k], Absent}
    BY <2>1 DEF Table
  <2>3. Known(zk') \subseteq Known(zk) /\ nodes \subseteq Nodes
    BY <2>2 DEF Known, TypeOK
  <2> QED
    BY <2>1, <2>2, <2>3 DEF SeenInv, Seen
<1>5. ASSUME UNCHANGED <<zkVars, nodes>>, runner' = runner \/ (runner'.children = {} /\ runner'.pc # "childCall")
      PROVE  SeenInv' /\ \A k \in Nodes : Seen(k) => Seen(k)'
  BY <1>5 DEF SeenInv, Seen, Known
<1>6. ASSUME NEW w, NEW o, ListChildren(w, o), UNCHANGED <<zkVars, nodes>>
      PROVE  SeenInv' /\ \A k \in Nodes : Seen(k) => Seen(k)'
  <2>1. runner'.children = Known(zk) /\ nodes \subseteq Nodes
    BY <1>6 DEF ListChildren, TypeOK
  <2> QED
    BY <1>6, <2>1 DEF SeenInv, Seen, Known
<1>7. CASE ChildCall
  <2>1. /\ runner.pc = "childCall" /\ runner'.children = {} /\ runner'.pc # "childCall"
        /\ UNCHANGED <<path, paths, zk, issued>>
        /\ IF runner.found THEN nodes' = runner.children \cap Accepted ELSE nodes' = nodes
    BY <1>7 DEF ChildCall, Finish, IdleRunner, OnSetChanged
  <2>2. SeenInv'
    BY <2>1 DEF SeenInv, Known
  <2>3. ASSUME NEW k \in Nodes, Seen(k) PROVE Seen(k)'
    BY <2>1, <2>3 DEF SeenInv, Seen
  <2> QED
    BY <2>2, <2>3
<1>8. CASE DataGet \/ PathGone \/ PathStillWatched \/ BeginWatch
  <2>1. UNCHANGED <<zkVars, nodes>> /\ runner'.children = {} /\ runner'.pc # "childCall"
    <3>1. CASE DataGet
      BY <3>1 DEF DataGet, IdleRunner
    <3>2. CASE PathGone \/ PathStillWatched
      BY <3>2 DEF PathGone, PathStillWatched, Finish, IdleRunner
    <3>3. CASE BeginWatch
      BY <3>3 DEF BeginWatch, IdleRunner
    <3> QED
      BY <1>8, <3>1, <3>2, <3>3
  <2> QED
    BY <1>5, <2>1
<1>9. CASE OpenGet
  BY <1>6, <1>9 DEF OpenGet
<1>10. ASSUME NEW w \in 1 .. opened, ChildGet(w)
       PROVE  SeenInv' /\ \A k \in Nodes : Seen(k) => Seen(k)'
  BY <1>6, <1>10 DEF ChildGet
<1>11. CASE WorkerStep \/ ListerStep \/ Stop \/ UNCHANGED vars
  <2>1. UNCHANGED <<zkVars, nodes, runner>>
    BY <1>11 DEF WorkerStep, WorkerTake, WorkerRead, WorkerNotify, ListerStep, ListerList,
                 ListerRead, StartAdds, StopRemoves, Stop, vars
  <2> QED
    BY <1>5, <2>1
<1> QED
  BY <1>1, <1>2, <1>3, <1>4, <1>7, <1>8, <1>9, <1>10, <1>11 DEF Next, Environment, RunnerStep

\* Whatever is ahead was seen, and is ahead once; a member does not join again.
OnceInv ==
  /\ worker.pc = "idle" => worker = IdleWorker
  /\ \A n \in worker.work.new : Seen(n) /\ n \notin Known(members)
  /\ \A i \in DOMAIN queue : \A n \in queue[i].new :
       /\ Seen(n) /\ n \notin Known(members) /\ n \notin worker.work.new
       /\ \A k \in DOMAIN queue : n \in queue[k].new => i = k
  /\ \A n \in Known(members) : Seen(n)

LEMMA OnceFrame ==
  ASSUME TypeOK, OnceInv, \A n \in Nodes : Seen(n) => Seen(n)',
         UNCHANGED <<queue, worker>> \/ (UNCHANGED queue /\ worker.pc # "idle" /\ worker'.pc # "idle"
                                           /\ worker'.work = worker.work),
         members' = members \/ members' = Empty
  PROVE  OnceInv' /\ \A n \in Nodes : Over(n) => Over(n)'
<1>1. worker.work.new \subseteq Nodes /\ \A i \in DOMAIN queue : queue[i].new \subseteq Nodes
  BY NewType
<1>2. worker'.work = worker.work /\ queue' = queue /\ Known(members') \subseteq Known(members)
  BY DEF Known, Empty
<1>3. Known(members) \subseteq Nodes
  BY DEF Known
<1>4. worker'.pc = "idle" => worker' = worker
  OBVIOUS
<1> QED
  BY <1>1, <1>2, <1>3, <1>4 DEF OnceInv, Over, Ahead

LEMMA OnceChanged ==
  ASSUME TypeOK, OnceInv, NEW children \in SUBSET Nodes, OnSetChanged(children),
         \A n \in Nodes : Seen(n) => Seen(n)', \A n \in children \ nodes : ~Seen(n),
         UNCHANGED <<worker, members>>
  PROVE  OnceInv' /\ \A n \in Nodes : Over(n) => Over(n)'
<1> DEFINE item == [new |-> children \ nodes, removed |-> nodes \ children]
<1>1. /\ queue \in Seq(Work) /\ item \in Work /\ queue' = Append(queue, item)
      /\ nodes' = children
  BY DEF TypeOK, Work, OnSetChanged
<1>2. /\ Len(queue) \in Nat
      /\ DOMAIN queue = 1 .. Len(queue) /\ DOMAIN queue' = 1 .. Len(queue) + 1
      /\ \A i \in DOMAIN queue : queue'[i] = queue[i]
      /\ queue'[Len(queue) + 1] = item
  BY <1>1
<1>3. worker.work.new \subseteq Nodes /\ \A i \in DOMAIN queue : queue[i].new \subseteq Nodes
  BY NewType
<1>4. ASSUME NEW n \in children \ nodes PROVE /\ Seen(n)' /\ n \notin Known(members) /\ ~Ahead(n)
  BY <1>1 DEF Seen, OnceInv, Ahead
<1>5. item.new = children \ nodes
  OBVIOUS
<1> HIDE DEF item
<1>6. ASSUME NEW i \in DOMAIN queue', NEW n \in queue'[i].new
      PROVE  /\ Seen(n)' /\ n \notin Known(members) /\ n \notin worker.work.new
             /\ \A k \in DOMAIN queue' : n \in queue'[k].new => i = k
  <2>1. CASE i \in DOMAIN queue
    <3>1. n \in queue[i].new /\ n \in Nodes /\ Ahead(n)
      BY <1>2, <1>3, <1>6, <2>1 DEF Ahead
    <3>2. n \notin item.new
      BY <1>4, <1>5, <3>1
    <3> QED
      BY <1>2, <2>1, <3>1, <3>2 DEF OnceInv
  <2>2. CASE i = Len(queue) + 1
    <3>1. n \in children \ nodes
      BY <1>2, <1>5, <1>6, <2>2
    <3>2. Seen(n)' /\ n \notin Known(members) /\ ~Ahead(n)
      BY <1>4, <3>1
    <3> QED
      BY <1>2, <2>2, <3>2 DEF Ahead
  <2> QED
    BY <1>2, <2>1, <2>2
<1>7. OnceInv'
  BY <1>3, <1>6 DEF OnceInv, Known
<1>8. ASSUME NEW n \in Nodes, Over(n) PROVE Over(n)'
  <2>1. n \notin item.new
    BY <1>5, <1>8 DEF Over
  <2> QED
    BY <1>2, <1>8, <2>1 DEF Over, Ahead
<1> QED
  BY <1>7, <1>8

LEMMA OnceTake ==
  ASSUME TypeOK, OnceInv, WorkerTake, \A n \in Nodes : Seen(n) => Seen(n)'
  PROVE  OnceInv' /\ \A n \in Nodes : Over(n) => Over(n)'
<1>1. /\ queue \in Seq(Work) /\ queue # << >> /\ queue' = Tail(queue)
      /\ worker' = [pc |-> "reading", work |-> Head(queue), todo |-> Head(queue).new, read |-> Empty]
      /\ members' = members
  BY DEF WorkerTake, TypeOK, setVars
<1>2. /\ Len(queue) \in Nat /\ Len(queue) >= 1 /\ Head(queue) = queue[1] /\ 1 \in DOMAIN queue
      /\ DOMAIN queue = 1 .. Len(queue) /\ DOMAIN queue' = 1 .. Len(queue) - 1
      /\ \A i \in DOMAIN queue' : queue'[i] = queue[i + 1] /\ i + 1 \in DOMAIN queue /\ i + 1 # 1
  BY <1>1
<1>3. \A i \in DOMAIN queue : queue[i].new \subseteq Nodes
  BY NewType
<1>4. worker'.work.new = queue[1].new /\ worker'.pc # "idle"
  BY <1>1, <1>2
<1>5. ASSUME NEW i \in DOMAIN queue', NEW n \in queue'[i].new
      PROVE  /\ Seen(n)' /\ n \notin Known(members) /\ n \notin worker'.work.new
             /\ \A k \in DOMAIN queue' : n \in queue'[k].new => i = k
  <2>1. i + 1 \in DOMAIN queue /\ n \in queue[i + 1].new /\ i + 1 # 1 /\ n \in Nodes
    BY <1>2, <1>3, <1>5
  <2>2. Seen(n) /\ n \notin Known(members) /\ \A k \in DOMAIN queue : n \in queue[k].new => i + 1 = k
    BY <2>1 DEF OnceInv
  <2>3. n \notin queue[1].new
    BY <1>2, <2>1, <2>2
  <2>4. ASSUME NEW k \in DOMAIN queue', n \in queue'[k].new PROVE i = k
    <3>1. i + 1 = k + 1 /\ i \in Nat /\ k \in Nat
      BY <1>2, <2>2, <2>4
    <3> QED
      BY <3>1
  <2> QED
    BY <1>4, <2>1, <2>2, <2>3, <2>4
<1>6. \A n \in queue[1].new : Seen(n)' /\ n \notin Known(members)
  BY <1>2, <1>3 DEF OnceInv
<1>7. \A n \in Known(members) : Seen(n)'
  BY DEF OnceInv, Known
<1>8. OnceInv'
  BY <1>1, <1>4, <1>5, <1>6, <1>7 DEF OnceInv
<1>9. ASSUME NEW n \in Nodes, Over(n) PROVE Over(n)'
  BY <1>2, <1>4, <1>9 DEF Over, Ahead
<1> QED
  BY <1>8, <1>9

\* What has been read joins, and is over with.
LEMMA OnceNotify ==
  ASSUME TypeOK, OrphanInv, OnceInv, WorkerNotify, \A n \in Nodes : Seen(n) => Seen(n)'
  PROVE  OnceInv' /\ \A n \in Nodes : Over(n) => Over(n)'
<1>1. /\ worker' = IdleWorker /\ queue' = queue
      /\ members' = [n \in Nodes |-> IF n \in worker.work.removed THEN Absent ELSE Updated[n]]
  BY DEF WorkerNotify
<1>2. worker'.work.new = {}
  BY <1>1 DEF IdleWorker, NoWork
<1>3. worker.work.new \subseteq Nodes /\ \A i \in DOMAIN queue : queue[i].new \subseteq Nodes
  BY NewType
<1>4. ASSUME NEW n \in Known(members') PROVE n \in Nodes /\ (n \in Known(members) \/ n \in worker.work.new)
  BY <1>1 DEF Known, Updated, OrphanInv
<1>5. \A i \in DOMAIN queue : \A n \in queue[i].new : n \notin Known(members')
  BY <1>4 DEF OnceInv
<1>6. \A n \in Known(members') : Seen(n)'
  BY <1>4 DEF OnceInv
<1>7. OnceInv'
  BY <1>1, <1>2, <1>3, <1>5, <1>6 DEF OnceInv
<1>8. ASSUME NEW n \in Nodes, Over(n) PROVE Over(n)'
  BY <1>1, <1>2, <1>8 DEF Over, Ahead
<1> QED
  BY <1>7, <1>8

LEMMA OnceStep ==
  ASSUME TypeOK, OrphanInv, SeenInv, OnceInv, paths' <= 1, [Next]_vars
  PROVE  OnceInv' /\ \A n \in Nodes : Over(n) => Over(n)'
<1> USE DEF zkVars, watchVars, setVars, sourceVars
<1>1. \A n \in Nodes : Seen(n) => Seen(n)'
  BY SeenInvStep
<1>2. CASE ChildCall /\ runner.found
  <2> DEFINE children == runner.children \cap Accepted
  <2>1. children \in SUBSET Nodes /\ OnSetChanged(children) /\ UNCHANGED <<worker, members>>
    BY <1>2 DEF ChildCall, TypeOK, Runner
  <2>2. \A n \in children \ nodes : ~Seen(n)
    BY DEF Seen
  <2> HIDE DEF children
  <2> QED
    BY <1>1, <2>1, <2>2, OnceChanged
<1>3. CASE WorkerTake
  BY <1>1, <1>3, OnceTake
<1>4. CASE WorkerNotify
  BY <1>1, <1>4, OnceNotify
<1>5. ASSUME NEW n \in Nodes, WorkerRead(n) PROVE OnceInv' /\ \A k \in Nodes : Over(k) => Over(k)'
  <2>1. UNCHANGED <<queue, members>> /\ worker.pc = "reading" /\ worker'.pc = worker.pc
          /\ worker'.work = worker.work
    BY <1>5 DEF WorkerRead, ReadNode, TypeOK, Worker
  <2> QED
    BY <1>1, <2>1, OnceFrame
<1>6. CASE Environment \/ ListerStep \/ Stop \/ UNCHANGED vars
  <2>1. UNCHANGED <<queue, worker, members>>
    BY <1>6 DEF Environment, CreatePath, DeletePath, AddNode, RemoveNode, ListerStep, ListerList,
                ListerRead, StartAdds, StopRemoves, Stop, vars
  <2> QED
    BY <1>1, <2>1, OnceFrame
<1>7. CASE RunnerStep /\ ~(ChildCall /\ runner.found)
  <2>1. UNCHANGED <<queue, worker>> /\ (members' = members \/ members' = Empty)
    BY <1>7 DEF RunnerStep, DataGet, PathGone, PathStillWatched, BeginWatch, OpenGet, ChildGet,
                ChildCall
  <2> QED
    BY <1>1, <2>1, OnceFrame
<1> QED
  BY <1>2, <1>3, <1>4, <1>5, <1>6, <1>7 DEF Next, RunnerStep, WorkerStep

-----------------------------------------------------------------------------
(* The data of a node does not change, as long as the path is not created  *)
(* again: whatever was read of it is what it names, or named.              *)

Faithful(t) == \A n \in Known(t) : n \in issued /\ zk[n] \in {t[n], Absent}

DataInv == Faithful(members) /\ Faithful(worker.read) /\ Faithful(lister.read)

LEMMA DataKept ==
  ASSUME TypeOK, SeenInv, paths' <= 1, [Next]_vars
  PROVE  /\ \A n \in issued : n \in issued' /\ zk'[n] \in {zk[n], Absent}
         /\ \A n \in Nodes : /\ worker'.read[n] \in {worker.read[n], zk[n], Absent}
                             /\ lister'.read[n] \in {lister.read[n], zk[n], Absent}
<1> USE DEF zkVars, watchVars, setVars, sourceVars
<1>0. zk \in Table /\ issued \subseteq Nodes /\ worker.read \in Table /\ lister.read \in Table
  BY DEF TypeOK, Worker, Lister
<1>1. CASE CreatePath
  <2>1. issued = {} /\ UNCHANGED <<worker, lister>>
    BY <1>1, ServerSetAssumption DEF CreatePath, SeenInv, TypeOK, ServerSetAssumption
  <2> QED
    BY <2>1
<1>2. CASE DeletePath
  BY <1>2 DEF DeletePath
<1>3. ASSUME NEW n \in Nodes, NEW e \in MayServe[n], AddNode(n, e)
      PROVE  /\ \A k \in issued : k \in issued' /\ zk'[k] \in {zk[k], Absent}
             /\ UNCHANGED <<worker, lister>>
  BY <1>0, <1>3 DEF AddNode, Table
<1>4. ASSUME NEW n \in Nodes, RemoveNode(n)
      PROVE  /\ \A k \in issued : k \in issued' /\ zk'[k] \in {zk[k], Absent}
             /\ UNCHANGED <<worker, lister>>
  BY <1>0, <1>4 DEF RemoveNode, Table
<1>5. CASE RunnerStep
  <2>1. UNCHANGED <<zk, issued, worker>>
    BY <1>5 DEF RunnerStep, DataGet, PathGone, PathStillWatched, BeginWatch, OpenGet, ChildGet,
                ChildCall
  <2>2. lister' = lister \/ lister' = [lister EXCEPT !.pc = "list"]
    BY <1>5 DEF RunnerStep, DataGet, PathGone, PathStillWatched, BeginWatch, OpenGet, ChildGet,
                ChildCall, Finish
  <2>3. lister'.read = lister.read
    BY <2>2 DEF TypeOK, Lister
  <2> QED
    BY <2>1, <2>3
<1>6. CASE WorkerTake \/ WorkerNotify
  <2>1. UNCHANGED <<zk, issued, lister>> /\ worker'.read = Empty
    BY <1>6 DEF WorkerTake, WorkerNotify, IdleWorker
  <2> QED
    BY <2>1 DEF Empty
<1>7. ASSUME NEW n \in Nodes, WorkerRead(n)
      PROVE  /\ UNCHANGED <<zk, issued, lister>>
             /\ \A k \in Nodes : worker'.read[k] \in {worker.read[k], zk[k], Absent}
  <2>1. PICK answer \in {zk[n], Absent} : worker' = ReadNode(worker, n, answer)
    BY <1>7 DEF WorkerRead
  <2>2. worker'.read = [worker.read EXCEPT ![n] = answer]
    BY <2>1 DEF ReadNode, TypeOK, Worker
  <2> QED
    BY <1>0, <1>7, <2>1, <2>2 DEF WorkerRead, Table
<1>8. ASSUME NEW n \in Nodes, ListerRead(n)
      PROVE  /\ UNCHANGED <<zk, issued, worker>>
             /\ \A k \in Nodes : lister'.read[k] \in {lister.read[k], zk[k], Absent}
  <2>1. PICK answer \in {zk[n], Absent} : lister' = ReadNode(lister, n, answer)
    BY <1>8 DEF ListerRead
  <2>2. lister'.read = [lister.read EXCEPT ![n] = answer]
    BY <2>1 DEF ReadNode, TypeOK, Lister
  <2> QED
    BY <1>0, <1>8, <2>1, <2>2 DEF ListerRead, Table
<1>9. CASE ListerList \/ StartAdds \/ StopRemoves
  <2>1. UNCHANGED <<zk, issued, worker>> /\ lister'.read = Empty
    BY <1>9 DEF ListerList, StartAdds, StopRemoves, TypeOK, Lister
  <2> QED
    BY <2>1 DEF Empty
<1>10. CASE Stop
  <2>1. UNCHANGED <<zk, issued, worker>> /\ lister'.read = lister.read
    BY <1>10 DEF Stop, TypeOK, Lister
  <2> QED
    BY <2>1
<1>11. CASE UNCHANGED vars
  BY <1>11 DEF vars
<1> QED
  BY <1>1, <1>2, <1>3, <1>4, <1>5, <1>6, <1>7, <1>8, <1>9, <1>10, <1>11
     DEF Next, Environment, WorkerStep, ListerStep

LEMMA FaithfulKept ==
  ASSUME TypeOK, SeenInv, paths' <= 1, [Next]_vars,
         NEW t \in Table, NEW u \in Table, Faithful(t),
         \A n \in Nodes : u[n] \in {t[n], zk[n], Absent}
  PROVE  \A n \in Known(u) : n \in issued' /\ zk'[n] \in {u[n], Absent}
<1> TAKE n \in Known(u)
<1>1. n \in Nodes /\ u[n] # Absent /\ u[n] \in {t[n], zk[n]}
  BY DEF Known
<1>2. n \in issued /\ zk[n] \in {u[n], Absent}
  BY <1>1 DEF Faithful, SeenInv, Known
<1> QED
  BY <1>2, DataKept

LEMMA DataInvStep ==
  ASSUME TypeOK, SeenInv, DataInv, paths' <= 1, [Next]_vars
  PROVE  DataInv'
<1>1. TypeOK'
  BY EnvironmentType, RunnerType, WorkerType, ListerType, StutterType DEF Next
<1>2. /\ members \in Table /\ worker.read \in Table /\ lister.read \in Table
      /\ members' \in Table /\ worker'.read \in Table /\ lister'.read \in Table
  BY <1>1 DEF TypeOK, Worker, Lister
<1>3. Faithful(worker.read)' /\ Faithful(lister.read)'
  BY <1>2, DataKept, FaithfulKept DEF DataInv, Faithful
<1>4. Faithful(members)'
  <2>1. CASE \A n \in Nodes : members'[n] \in {members[n], Absent}
    BY <1>2, <2>1, FaithfulKept DEF DataInv, Faithful
  <2>2. CASE WorkerNotify
    <3>1. /\ UNCHANGED <<zk, issued>>
          /\ \A n \in Nodes : members'[n] \in {members[n], worker.read[n], Absent}
      BY <2>2 DEF WorkerNotify, Updated, zkVars
    <3> QED
      BY <3>1 DEF DataInv, Faithful, Known
  <2>3. CASE ~WorkerNotify
    <3>1. members' = members \/ members' = Empty
      BY <2>3 DEF Next, vars, Environment, CreatePath, DeletePath, AddNode, RemoveNode, RunnerStep,
         DataGet, PathGone, PathStillWatched, BeginWatch, OpenGet, ChildGet, ChildCall, WorkerStep,
         WorkerTake, WorkerRead, ListerStep, ListerList, ListerRead, StartAdds, StopRemoves, Stop,
         setVars
    <3> QED
      BY <2>1, <3>1 DEF Empty
  <2> QED
    BY <2>2, <2>3
<1> QED
  BY <1>3, <1>4 DEF DataInv

-----------------------------------------------------------------------------
(* No two are served together: this holds however often the path is        *)
(* created.                                                                *)

\* _members of the source is _members of its ServerSet; nobody but the leader is
\* served, and nobody before start has added him.
SoleInv ==
  /\ Sole(source) /\ source.joined = members
  /\ lister.pc \notin {"running", "stopped"} =>
       ~lister.stopping /\ source.leader = NoLeader /\ source.served = {}

SourceInv == TypeOK /\ OrphanInv /\ StartInv /\ SoleInv

LEMMA SourceInvInit == ASSUME MesosInit PROVE SourceInv
<1>1. TypeOK /\ OrphanInv /\ StartInv
  BY InitType, OrphanInvInit DEF MesosInit, Init, StartInv, IdleRunner, IdleWorker
<1>2. Sole(source)
  BY IdleTypes DEF MesosInit, Sole, Source
<1>3. SoleInv
  BY <1>2 DEF MesosInit, Init, SoleInv
<1> QED
  BY <1>1, <1>3 DEF SourceInv

\* The path is gone: all members leave.
LEMMA PathGoneAnnounces ==
  ASSUME SourceInv, MesosPathGone
  PROVE  /\ Sole(source)' /\ source'.joined = members' /\ Known(members') = {}
         /\ Leads(source) => Follows(source, source')
<1>1. members' = Empty /\ TypeOK /\ Sole(source) /\ source.joined = members /\ members \in Table
  BY DEF MesosPathGone, PathGone, SourceInv, SoleInv, TypeOK
<1> DEFINE L == Known(members)
           J == {}
<1>2. /\ L \in SUBSET Known(source.joined) /\ J \in SUBSET Known(Updated)
      /\ Announce(L, J) /\ Ready(source, J)
  BY <1>1 DEF MesosPathGone, Ready
<1>3. /\ Sole(source)'
      /\ source'.joined = [n \in Nodes |-> IF n \in J THEN Updated[n]
                                          ELSE IF n \in L THEN Absent ELSE source.joined[n]]
      /\ Leads(source) => Follows(source, source')
  <2> HIDE DEF L, J
  <2> QED
    BY <1>1, <1>2, Announced
<1>4. source'.joined = Empty
  BY <1>1, <1>3 DEF Known, Empty, Table
<1> QED
  BY <1>1, <1>3, <1>4 DEF Known, Empty

\* A difference is announced.
LEMMA NotifyAnnounces ==
  ASSUME SourceInv, MesosWorkerNotify
  PROVE  /\ Sole(source)' /\ source'.joined = members'
         /\ Leads(source) /\ Ready(source, Known(worker.read)) => Follows(source, source')
         /\ \A n \in Known(worker.read) :
              n \in Nodes /\ n \in worker.work.new /\ Updated[n] = worker.read[n]
<1> DEFINE L == worker.work.removed \cap Known(Updated)
           J == Known(worker.read)
<1>1. /\ Announce(L, J) /\ worker.pc # "idle"
      /\ members' = [n \in Nodes |-> IF n \in worker.work.removed THEN Absent ELSE Updated[n]]
  BY DEF MesosWorkerNotify, WorkerNotify
<1>2. TypeOK /\ Sole(source) /\ source.joined = members /\ members \in Table
  BY DEF SourceInv, SoleInv, TypeOK
<1>3. ASSUME NEW n \in J
      PROVE  /\ n \in Nodes /\ n \in worker.work.new /\ n \notin worker.work.removed
             /\ Updated[n] = worker.read[n] /\ worker.read[n] # Absent
  BY <1>1 DEF SourceInv, OrphanInv, Known, Updated, Reading
<1>4. ASSUME NEW n \in L PROVE n \in Known(members)
  <2>1. n \in Nodes /\ n \notin J
    BY <1>3 DEF Known
  <2> QED
    BY <2>1 DEF Known, Updated
<1>5. L \in SUBSET Known(source.joined) /\ J \in SUBSET Known(Updated)
  <2>1. J \subseteq Known(Updated)
    BY <1>3 DEF Known
  <2> QED
    BY <1>2, <1>4, <2>1
<1>6. /\ Sole(source)'
      /\ source'.joined = [n \in Nodes |-> IF n \in J THEN Updated[n]
                                          ELSE IF n \in L THEN Absent ELSE source.joined[n]]
      /\ Leads(source) /\ Ready(source, J) => Follows(source, source')
  <2> HIDE DEF L, J
  <2> QED
    BY <1>1, <1>2, <1>5, Announced
<1>7. ASSUME NEW n \in Nodes
      PROVE  (IF n \in J THEN Updated[n] ELSE IF n \in L THEN Absent ELSE source.joined[n])
               = (IF n \in worker.work.removed THEN Absent ELSE Updated[n])
  BY <1>2, <1>3 DEF Known, Updated
<1>8. source'.joined = members'
  <2> HIDE DEF L, J
  <2> QED
    BY <1>1, <1>6, <1>7
<1> QED
  BY <1>3, <1>6, <1>8

\* start adds the lowest it listed, and there was nobody before.
LEMMA StartMakesLeader ==
  ASSUME SourceInv, MesosStartAdds
  PROVE  /\ Sole(source)' /\ source'.joined = source.joined /\ members' = members
         /\ members = Empty /\ Known(members) = {} /\ worker.pc = "idle"
         /\ \/ source'.leader = NoLeader
            \/ /\ source'.leader \in Leader /\ source'.served = {source'.leader.endpoint}
               /\ source'.leader.node \in Known(lister.read)
               /\ source'.leader.endpoint = lister.read[source'.leader.node]
<1>1. /\ lister.pc = "read" /\ ~lister.stopping /\ members' = members
  BY DEF MesosStartAdds, StartAdds, setVars
<1>2. /\ Sole(source) /\ source.joined = members /\ members = Empty /\ worker.pc = "idle"
      /\ source.leader = NoLeader /\ source.served = {} /\ Known(members) = {}
  BY <1>1 DEF SourceInv, SoleInv, StartInv, Known, Empty
<1>3. CASE Known(lister.read) = {}
  <2>1. source' = source
    BY <1>3 DEF MesosStartAdds
  <2> QED
    BY <1>1, <1>2, <2>1 DEF Sole
<1>4. CASE Known(lister.read) # {}
  <2> DEFINE l == GetLeader(lister.read)
  <2>1. /\ l \in Leader /\ l.node \in Known(lister.read) /\ l.endpoint = lister.read[l.node]
    BY <1>4, LowestOf DEF SourceInv, TypeOK, Lister, GetLeader
  <2>2. source' = [source EXCEPT !.leader = l, !.served = {l.endpoint}]
    BY <1>2, <1>4 DEF MesosStartAdds
  <2>3. source \in Source /\ {l.endpoint} \in SUBSET Endpoints
    BY <1>2, <2>1, NoLeaderType DEF Sole
  <2> HIDE DEF l
  <2>4. /\ source' \in Source /\ source'.joined = source.joined /\ source'.leader = l
        /\ source'.served = {l.endpoint}
    BY ONLY <2>1, <2>2, <2>3 DEF Source
  <2> QED
    BY <1>1, <1>2, <2>1, <2>4 DEF Sole
<1> QED
  BY <1>3, <1>4

\* What every step of MesosMaster but stop is for ServerSet.
LEMMA MesosSteps ==
  ASSUME MesosNext, ~MesosStop
  PROVE  /\ [Next]_vars
         /\ \/ MesosPathGone
            \/ MesosWorkerNotify
            \/ MesosStartAdds
            \/ /\ Environment \/ RunnerStep \/ WorkerTake \/ ListerList
                  \/ (\E n \in Nodes : WorkerRead(n) \/ ListerRead(n))
               /\ UNCHANGED <<source, members>>
<1> USE DEF zkVars, setVars
<1>1. CASE MesosEnvironment
  <2>1. Environment /\ UNCHANGED source
    BY <1>1 DEF MesosEnvironment, Registers, Environment
  <2> QED
    BY <2>1 DEF Next, Environment, CreatePath, DeletePath, AddNode, RemoveNode
<1>2. CASE MesosRunnerStep
  <2>1. CASE MesosPathGone
    BY <2>1 DEF MesosPathGone, Next, RunnerStep
  <2>2. CASE ~MesosPathGone
    <3>1. RunnerStep /\ UNCHANGED <<source, members>>
      BY <1>2, <2>2 DEF MesosRunnerStep, RunnerStep, DataGet, PathStillWatched, BeginWatch, OpenGet,
         ChildGet, ChildCall
    <3> QED
      BY <3>1 DEF Next
  <2> QED
    BY <2>1, <2>2
<1>3. CASE MesosWorkerStep
  <2>1. WorkerStep
    BY <1>3 DEF MesosWorkerStep, MesosWorkerNotify, WorkerStep
  <2>2. MesosWorkerNotify \/ ((WorkerTake \/ \E n \in Nodes : WorkerRead(n)) /\ UNCHANGED <<source, members>>)
    BY <1>3 DEF MesosWorkerStep, WorkerTake, WorkerRead
  <2> QED
    BY <2>1, <2>2 DEF Next
<1>4. CASE MesosListerStep
  <2>1. ListerStep
    BY <1>4 DEF MesosListerStep, MesosStartAdds, ListerStep
  <2>2. MesosStartAdds \/ ((ListerList \/ \E n \in Nodes : ListerRead(n)) /\ UNCHANGED <<source, members>>)
    BY <1>4 DEF MesosListerStep, ListerList, ListerRead
  <2> QED
    BY <2>1, <2>2 DEF Next
<1> QED
  BY <1>1, <1>2, <1>3, <1>4 DEF MesosNext

\* Nobody but start gets on before it has added what it listed, and stop is final.
LEMMA ListerSteps ==
  ASSUME TypeOK, MesosNext, ~MesosStop, ~MesosStartAdds
  PROVE  /\ lister'.stopping = lister.stopping
         /\ lister'.pc \notin {"running", "stopped"} => lister.pc \notin {"running", "stopped"}
<1>1. CASE Environment \/ WorkerTake \/ WorkerNotify \/ \E n \in Nodes : WorkerRead(n)
  BY <1>1 DEF Environment, CreatePath, DeletePath, AddNode, RemoveNode, WorkerTake, WorkerNotify,
     WorkerRead, sourceVars
<1>2. CASE RunnerStep
  BY <1>2 DEF RunnerStep, DataGet, PathGone, PathStillWatched, BeginWatch, OpenGet, ChildGet,
     ChildCall, Finish, sourceVars, TypeOK, Lister
<1>3. CASE ListerList \/ \E n \in Nodes : ListerRead(n)
  BY <1>3 DEF ListerList, ListerRead, ReadNode, TypeOK, Lister
<1> QED
  BY <1>1, <1>2, <1>3, MesosSteps DEF MesosPathGone, MesosWorkerNotify, RunnerStep

\* stop takes the leader away, and nothing else changes.
LEMMA StopFrame ==
  ASSUME SourceInv, MesosStop
  PROVE  /\ SourceInv' /\ UNCHANGED <<zkVars, watchVars, setVars>>
         /\ lister'.stopping /\ lister'.read = lister.read
<1>1. /\ UNCHANGED <<zkVars, watchVars, setVars, errors, endpoints>> /\ lister.pc = "running"
      /\ lister' = [lister EXCEPT !.pc = "stopped", !.stopping = TRUE]
      /\ source' = [source EXCEPT !.served = Without(source)]
  BY DEF MesosStop
<1>2. lister' \in Lister /\ lister'.pc = "stopped" /\ lister'.stopping /\ lister'.read = lister.read
  BY <1>1 DEF SourceInv, TypeOK, Lister
<1>3. TypeOK'
  BY <1>1, <1>2 DEF SourceInv, TypeOK, zkVars, watchVars, setVars
<1>4. OrphanInv'
  BY <1>1, OrphanInvFrame DEF SourceInv, setVars
<1>5. StartInv'
  BY <1>2 DEF StartInv
<1>6. Sole(source) /\ source.joined = members
  BY DEF SourceInv, SoleInv
<1>7. Without(source) \in SUBSET Endpoints /\ Without(source) = {}
  BY <1>6 DEF Sole, Source, Without
<1>8. source' \in Source /\ source'.joined = source.joined /\ source'.served = {}
  BY <1>1, <1>6, <1>7, ServedType DEF Sole
<1>9. SoleInv'
  BY <1>1, <1>2, <1>6, <1>8 DEF SoleInv, Sole, setVars
<1> QED
  BY <1>1, <1>2, <1>3, <1>4, <1>5, <1>9 DEF SourceInv

LEMMA SourceInvStep == ASSUME SourceInv, [MesosNext]_mesosVars PROVE SourceInv'
<1>1. CASE MesosStop
  BY <1>1, StopFrame
<1>2. ASSUME [Next]_vars, SoleInv' PROVE SourceInv'
  <2>1. TypeOK'
    BY <1>2, EnvironmentType, RunnerType, WorkerType, ListerType, StutterType DEF Next, SourceInv
  <2> QED
    BY <1>2, <2>1, OrphanInvStep, StartInvStep DEF SourceInv
<1>3. CASE MesosNext /\ ~MesosStop
  <2>1. [Next]_vars
    BY <1>3, MesosSteps
  <2>2. CASE MesosStartAdds
    <3>1. lister'.pc = "running"
      BY <2>2 DEF MesosStartAdds, StartAdds, SourceInv, TypeOK, Lister
    <3>2. SoleInv'
      BY <2>2, <3>1, StartMakesLeader DEF SourceInv, SoleInv
    <3> QED
      BY <1>2, <2>1, <3>2
  <2>3. CASE ~MesosStartAdds
    <3>1. /\ lister'.stopping = lister.stopping
          /\ lister'.pc \notin {"running", "stopped"} => lister.pc \notin {"running", "stopped"}
      BY <1>3, <2>3, ListerSteps DEF SourceInv
    <3>2. ASSUME lister'.pc \notin {"running", "stopped"}
          PROVE  /\ ~lister.stopping /\ source.leader = NoLeader /\ source.served = {}
                 /\ Known(members) = {} /\ source.joined = members /\ worker.pc = "idle"
      BY <3>1, <3>2 DEF SourceInv, SoleInv, StartInv, Known, Empty
    <3>3. CASE MesosPathGone
      <4>1. ASSUME lister'.pc \notin {"running", "stopped"}
            PROVE  source'.leader = NoLeader /\ source'.served = {}
        <5>1. Leads(source) /\ Known(source.joined) = {}
          BY <3>2, <4>1 DEF Leads
        <5>2. Follows(source, source') /\ Known(source'.joined) = {}
          BY <3>3, <5>1, PathGoneAnnounces
        <5> QED
          BY <3>2, <4>1, <5>1, <5>2 DEF Follows
      <4>2. SoleInv'
        BY <3>1, <3>2, <3>3, <4>1, PathGoneAnnounces DEF SoleInv
      <4> QED
        BY <1>2, <2>1, <4>2
    <3>4. CASE MesosWorkerNotify
      <4>1. worker.pc # "idle"
        BY <3>4 DEF MesosWorkerNotify, WorkerNotify
      <4>2. SoleInv'
        BY <3>2, <3>4, <4>1, NotifyAnnounces DEF SoleInv
      <4> QED
        BY <1>2, <2>1, <4>2
    <3>5. CASE UNCHANGED <<source, members>>
      <4>1. SoleInv'
        BY <3>1, <3>2, <3>5 DEF SoleInv, SourceInv, Sole
      <4> QED
        BY <1>2, <2>1, <4>1
    <3> QED
      BY <1>3, <2>3, <3>3, <3>4, <3>5, MesosSteps
  <2> QED
    BY <2>2, <2>3
<1>4. CASE UNCHANGED mesosVars
  <2>1. UNCHANGED vars /\ UNCHANGED <<source, members, lister>>
    BY <1>4 DEF mesosVars, vars, setVars, sourceVars
  <2>2. SoleInv'
    BY <2>1 DEF SourceInv, SoleInv, Sole
  <2> QED
    BY <1>2, <2>1, <2>2
<1> QED
  BY <1>1, <1>3, <1>4

\* The types of MesosMaster hold however often the path is created, for any nodes.
THEOREM MesosTypeCorrect == MesosSpec => []MesosTypeOK
<1>1. SourceInv => MesosTypeOK
  BY DEF SourceInv, SoleInv, Sole, MesosTypeOK
<1> QED
  BY <1>1, SourceInvInit, SourceInvStep, PTL DEF MesosSpec

\* However often the path is created, and whatever start listed, the source never
\* serves two masters at a time.
THEOREM NeverTwoServed == MesosSpec => [](\A e, f \in source.served : e = f)
<1>1. SourceInv => \A e, f \in source.served : e = f
  BY DEF SourceInv, SoleInv, Sole
<1> QED
  BY <1>1, SourceInvInit, SourceInvStep, PTL DEF MesosSpec

-----------------------------------------------------------------------------
(* The leader: until stop, and as long as the path is not created again,   *)
(* the lowest of the members.  A leader who has left (nobody is served     *)
(* then, and there are no members) must not join again: the leader would   *)
(* not change, and he would not be served.                                 *)

\* What is known of a leader, who may not have joined yet, is true.
Knows(l) ==
  /\ l.node \in issued /\ zk[l.node] \in {l.endpoint, Absent}
  /\ worker.read[l.node] \in {l.endpoint, Absent}

LeaderInv ==
  ~lister.stopping =>
    /\ Leads(source)
    /\ source.leader # NoLeader =>
         Knows(source.leader) /\ (source.served = {} => Over(source.leader.node))

MesosInv == SourceInv /\ SeenInv /\ OnceInv /\ DataInv /\ LeaderInv

LEMMA MesosInvInit == ASSUME MesosInit PROVE MesosInv
<1>1. SeenInv
  BY DEF MesosInit, Init, SeenInv, IdleRunner
<1>2. OnceInv
  BY DEF MesosInit, Init, OnceInv, IdleWorker, NoWork, Known, Empty
<1>3. DataInv
  BY DEF MesosInit, Init, DataInv, Faithful, IdleWorker, Known, Empty
<1>4. LeaderInv
  BY DEF MesosInit, LeaderInv, Leads, Known, Empty
<1> QED
  BY <1>1, <1>2, <1>3, <1>4, SourceInvInit DEF MesosInv

\* What is known of a leader stays true, and so does that he will not join any more.
LEMMA KnowsKept ==
  ASSUME MesosInv, paths' <= 1, [Next]_vars, NEW l \in Leader, Knows(l)
  PROVE  Knows(l)' /\ (Over(l.node) => Over(l.node)')
<1>1. l.node \in Nodes
  BY NoLeaderType
<1>2. Over(l.node) => Over(l.node)'
  BY <1>1, OnceStep DEF MesosInv, SourceInv
<1>3. Knows(l)'
  BY <1>1, DataKept DEF MesosInv, SourceInv, Knows
<1> QED
  BY <1>2, <1>3

\* What is known of a member who is no member any more.
LEMMA MemberKnown ==
  ASSUME MesosInv, NEW n \in Known(members)
  PROVE  Over(n) /\ Knows([node |-> n, endpoint |-> members[n]])
<1>1. Over(n) /\ n \in Nodes
  BY DEF MesosInv, OnceInv, Over, Ahead, Known
<1>2. worker.read[n] = Absent
  BY <1>1 DEF MesosInv, SourceInv, OrphanInv, Over, Ahead
<1>3. n \in issued /\ zk[n] \in {members[n], Absent}
  BY DEF MesosInv, DataInv, Faithful
<1> QED
  BY <1>1, <1>2, <1>3 DEF Knows

\* Steps that call nobody.
LEMMA LeaderInvFrame ==
  ASSUME MesosInv, paths' <= 1, [Next]_vars, UNCHANGED source,
         lister'.stopping = lister.stopping
  PROVE  LeaderInv'
<1>1. ASSUME source.leader # NoLeader, ~lister.stopping
      PROVE  Knows(source.leader)' /\ (source.served = {} => Over(source.leader.node)')
  <2>1. PICK l \in Leader : l = source.leader
    BY <1>1 DEF MesosInv, SourceInv, SoleInv, Sole, Source
  <2>2. Knows(l) /\ (source.served = {} => Over(l.node))
    BY <1>1, <2>1 DEF MesosInv, LeaderInv
  <2>3. Knows(l)' /\ (source.served = {} => Over(l.node)')
    BY <2>2, KnowsKept
  <2> QED
    BY <2>1, <2>3 DEF Knows, Over, Seen, Ahead
<1> QED
  BY <1>1 DEF MesosInv, LeaderInv, Leads

\* After the callbacks of a difference that leaves no member, the leader is who he was,
\* or one that was a member.
LEMMA LeaderLeft ==
  ASSUME MesosInv, paths' <= 1, [Next]_vars, ~lister.stopping, Sole(source)',
         Follows(source, source'), Known(source'.joined) = {}, source'.leader # NoLeader
  PROVE  Knows(source.leader)' /\ (source'.served = {} => Over(source.leader.node)')
<1>1. PICK l \in Leader : l = source'.leader
  BY DEF Sole, Source
<1>2. Knows(l) /\ (source'.served = {} => Over(l.node))
  <2>1. CASE source'.leader = source.leader /\ source'.served = source.served
    BY <1>1, <2>1 DEF MesosInv, LeaderInv
  <2>2. CASE l.node \in Known(members) /\ l = [node |-> l.node, endpoint |-> members[l.node]]
    BY <2>2, MemberKnown
  <2> QED
    BY <1>1, <2>1, <2>2 DEF Follows, MesosInv, SourceInv, SoleInv
<1>3. Knows(l)' /\ (source'.served = {} => Over(l.node)')
  BY <1>2, KnowsKept
<1> QED
  BY <1>1, <1>3 DEF Knows, Over, Seen, Ahead

LEMMA LeaderInvPathGone ==
  ASSUME MesosInv, paths' <= 1, MesosPathGone
  PROVE  LeaderInv'
<1>1. [Next]_vars
  BY DEF MesosPathGone, Next, RunnerStep
<1>2. lister'.stopping = lister.stopping
  BY DEF MesosPathGone, PathGone, Finish, MesosInv, SourceInv, TypeOK, Lister
<1>3. /\ Sole(source)' /\ Known(source'.joined) = {}
      /\ Leads(source) => Follows(source, source')
  BY PathGoneAnnounces DEF MesosInv
<1>4. ASSUME ~lister.stopping PROVE Follows(source, source')
  BY <1>3, <1>4 DEF MesosInv, LeaderInv
<1>5. ASSUME ~lister.stopping PROVE Leads(source)'
  BY <1>3 DEF Leads
<1> QED
  BY <1>1, <1>2, <1>3, <1>4, <1>5, LeaderLeft DEF LeaderInv

\* Who joins was no member and is not a leader who left.
LEMMA JoinersReady ==
  ASSUME MesosInv, ~lister.stopping, MesosWorkerNotify
  PROVE  Ready(source, Known(worker.read))
<1> SUFFICES ASSUME NEW n \in Known(worker.read)
             PROVE  /\ n \notin Known(source.joined)
                    /\ source.leader.node = n
                         => source.served = {source.leader.endpoint} /\ source.leader.endpoint = Updated[n]
  BY DEF Ready
<1>1. n \in Nodes /\ n \in worker.work.new /\ Updated[n] = worker.read[n] /\ worker.read[n] # Absent
  BY NotifyAnnounces DEF MesosInv, Known
<1>2. n \notin Known(source.joined) /\ Ahead(n)
  BY <1>1 DEF MesosInv, SourceInv, SoleInv, OnceInv, Ahead
<1>3. ASSUME source.leader.node = n
      PROVE  source.served = {source.leader.endpoint} /\ source.leader.endpoint = Updated[n]
  <2>1. source.leader # NoLeader
    BY <1>1, <1>3, NoLeaderType, MesosAssumption DEF MesosAssumption
  <2>2. Knows(source.leader) /\ source.served # {}
    BY <1>2, <1>3, <2>1 DEF MesosInv, LeaderInv, Over
  <2>3. source.served \subseteq {source.leader.endpoint}
    BY DEF MesosInv, SourceInv, SoleInv, Sole
  <2> QED
    BY <1>1, <1>3, <2>2, <2>3 DEF Knows
<1> QED
  BY <1>2, <1>3

LEMMA LeaderInvNotify ==
  ASSUME MesosInv, paths' <= 1, MesosWorkerNotify
  PROVE  LeaderInv'
<1>1. [Next]_vars /\ lister' = lister /\ worker'.read = Empty
  BY DEF MesosWorkerNotify, WorkerNotify, Next, WorkerStep, IdleWorker
<1>2. /\ Sole(source)' /\ source'.joined = members'
      /\ ~lister.stopping => Follows(source, source')
  <2>1. ~lister.stopping => Leads(source)
    BY DEF MesosInv, LeaderInv
  <2> QED
    BY <2>1, NotifyAnnounces, JoinersReady DEF MesosInv
<1>3. ~lister.stopping => Leads(source)'
  BY <1>2 DEF Follows, Leads
<1>4. ASSUME ~lister.stopping, Known(members') # {}
      PROVE  Knows(source.leader)' /\ source'.served # {}
  <2>1. source'.leader = GetLeader(members') /\ source'.served # {} /\ members' \in Table
    BY <1>2, <1>4 DEF Follows, Leads, Sole, Source
  <2>2. PICK l \in Leader : /\ l = source'.leader /\ l.node \in Known(members')
                            /\ l.endpoint = members'[l.node]
    BY <1>4, <2>1, LowestOf DEF GetLeader
  <2>3. DataInv'
    BY <1>1, DataInvStep DEF MesosInv, SourceInv
  <2>4. l.node \in issued' /\ zk'[l.node] \in {l.endpoint, Absent}
    BY <2>2, <2>3 DEF DataInv, Faithful
  <2>5. worker'.read[l.node] = Absent
    BY <1>1, NoLeaderType DEF Empty
  <2> QED
    BY <2>1, <2>2, <2>4, <2>5 DEF Knows
<1> QED
  BY <1>1, <1>2, <1>3, <1>4, LeaderLeft DEF LeaderInv

LEMMA LeaderInvStart ==
  ASSUME MesosInv, paths' <= 1, MesosStartAdds
  PROVE  LeaderInv'
<1>1. [Next]_vars
  BY DEF MesosStartAdds, Next, ListerStep
<1>2. /\ source'.joined = Empty /\ Known(source'.joined) = {} /\ worker.pc = "idle"
      /\ \/ source'.leader = NoLeader
         \/ /\ source'.leader \in Leader /\ source'.served = {source'.leader.endpoint}
            /\ source'.leader.node \in Known(lister.read)
            /\ source'.leader.endpoint = lister.read[source'.leader.node]
  BY StartMakesLeader DEF MesosInv, SourceInv, SoleInv
<1>3. ASSUME source'.leader # NoLeader PROVE Knows(source.leader)' /\ source'.served # {}
  <2>1. PICK l \in Leader : l = source'.leader
    BY <1>2, <1>3
  <2>2. l.node \in issued /\ zk[l.node] \in {l.endpoint, Absent}
    BY <1>2, <1>3, <2>1 DEF MesosInv, DataInv, Faithful
  <2>3. worker.read[l.node] = Absent
    BY <1>2, NoLeaderType DEF MesosInv, SourceInv, OrphanInv, Reading
  <2>4. Knows(l)'
    BY <1>1, <2>2, <2>3, KnowsKept DEF Knows
  <2> QED
    BY <1>2, <1>3, <2>1, <2>4 DEF Knows
<1> QED
  BY <1>2, <1>3 DEF LeaderInv, Leads

LEMMA MesosInvStep ==
  ASSUME MesosInv, paths' <= 1, [MesosNext]_mesosVars
  PROVE  MesosInv'
<1>1. SourceInv'
  BY SourceInvStep DEF MesosInv
<1>2. CASE MesosStop
  <2>1. UNCHANGED <<zkVars, watchVars, setVars>> /\ lister'.stopping /\ lister'.read = lister.read
    BY <1>2, StopFrame DEF MesosInv
  <2>2. SeenInv' /\ OnceInv' /\ DataInv' /\ LeaderInv'
    BY <2>1 DEF MesosInv, SeenInv, OnceInv, DataInv, LeaderInv, Faithful, Seen, zkVars, watchVars,
       setVars
  <2> QED
    BY <1>1, <2>2 DEF MesosInv
<1>3. ASSUME [Next]_vars, LeaderInv' PROVE MesosInv'
  BY <1>1, <1>3, SeenInvStep, OnceStep, DataInvStep DEF MesosInv, SourceInv
<1>4. CASE MesosNext /\ ~MesosStop
  <2>1. [Next]_vars
    BY <1>4, MesosSteps
  <2>2. CASE MesosPathGone
    BY <1>3, <2>1, <2>2, LeaderInvPathGone
  <2>3. CASE MesosWorkerNotify
    BY <1>3, <2>1, <2>3, LeaderInvNotify
  <2>4. CASE MesosStartAdds
    BY <1>3, <2>1, <2>4, LeaderInvStart
  <2>5. CASE UNCHANGED source /\ ~MesosStartAdds
    <3>1. lister'.stopping = lister.stopping
      BY <1>4, <2>5, ListerSteps DEF MesosInv, SourceInv
    <3> QED
      BY <1>3, <2>1, <2>5, <3>1, LeaderInvFrame
  <2> QED
    BY <1>4, <2>2, <2>3, <2>4, <2>5, MesosSteps
<1>5. CASE UNCHANGED mesosVars
  <2>1. UNCHANGED vars /\ UNCHANGED <<source, lister>>
    BY <1>5 DEF mesosVars, vars, sourceVars
  <2> QED
    BY <1>3, <2>1, LeaderInvFrame
<1> QED
  BY <1>2, <1>4, <1>5

LEMMA MesosInvImplies == ASSUME MesosInv PROVE LeaderServed
<1>1. Sole(source) /\ source.joined = members
  BY DEF MesosInv, SourceInv, SoleInv
<1>2. ~lister.stopping => Leads(source)
  BY DEF MesosInv, LeaderInv
<1> QED
  BY <1>1, <1>2 DEF Sole, Leads, GetLeader, LeaderServed

\* The path is only ever created again.
LEMMA PathsGrow == ASSUME TypeOK, [MesosNext]_mesosVars, NEW k \in Nat, paths' <= k PROVE paths <= k
<1>1. paths \in Nat
  BY ServerSetAssumption DEF TypeOK, ServerSetAssumption
<1>2. [Next]_vars => paths' = paths \/ paths' = paths + 1
  <2> USE DEF zkVars
  <2>1. CASE Environment
    BY <2>1 DEF Environment, CreatePath, DeletePath, AddNode, RemoveNode
  <2>2. CASE RunnerStep
    BY <2>2 DEF RunnerStep, DataGet, PathGone, PathStillWatched, BeginWatch, OpenGet, ChildGet,
       ChildCall, ListChildren, Finish
  <2>3. CASE WorkerStep
    BY <2>3 DEF WorkerStep, WorkerTake, WorkerRead, WorkerNotify
  <2>4. CASE ListerStep
    BY <2>4 DEF ListerStep, ListerList, ListerRead, StartAdds, StopRemoves
  <2>5. CASE Stop \/ UNCHANGED vars
    BY <2>5 DEF Stop, vars
  <2> QED
    BY <2>1, <2>2, <2>3, <2>4, <2>5 DEF Next
<1>3. CASE MesosStop
  BY <1>3 DEF MesosStop, zkVars
<1>4. CASE UNCHANGED mesosVars
  BY <1>4 DEF mesosVars, vars, zkVars
<1> QED
  BY <1>1, <1>2, <1>3, <1>4, MesosSteps

\* Until the path is created a second time: whenever there are members and the source
\* is not stopped, exactly the one with the lowest name is served, in whatever order
\* the callbacks of a difference come, and whatever start has listed (mesos.py:54).
THEOREM LowestServed == MesosSpec => [](paths <= 1 => LeaderServed)
<1> DEFINE Inv == SourceInv /\ (paths <= 1 => MesosInv)
<1>1. MesosInit => Inv
  BY MesosInvInit, SourceInvInit
<1>2. Inv /\ [MesosNext]_mesosVars => Inv'
  <2> SUFFICES ASSUME Inv, [MesosNext]_mesosVars, paths' <= 1 PROVE MesosInv'
    BY SourceInvStep
  <2>1. paths <= 1
    BY PathsGrow DEF SourceInv
  <2> QED
    BY <2>1, MesosInvStep
<1>3. Inv => (paths <= 1 => LeaderServed)
  BY MesosInvImplies
<1> QED
  BY <1>1, <1>2, <1>3, PTL DEF MesosSpec
=============================================================================
