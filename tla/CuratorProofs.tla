--------------------------- MODULE CuratorProofs ---------------------------
(* Theorems about Curator, for any nodes, data and bounds. *)
EXTENDS Curator, TLAPS

LEMMA EmptyType == Empty \in Table /\ IdleWorker \in Worker
BY DEF Empty, Table, IdleWorker, Worker, Work

LEMMA ServedByType ==
  ASSUME NEW table \in Table, NEW ns PROVE ServedBy(table, ns) \in SUBSET Endpoints
BY DEF ServedBy, Known, Table

\* A difference put at the end of the queue.
LEMMA ListChildrenType ==
  ASSUME TypeOK, NEW others \in Nat, ListChildren(others)
  PROVE  armed' \in Nat /\ fired' \in Nat /\ nodes' \in SUBSET Nodes /\ queue' \in Seq(Work)
<1>1. armed' \in Nat /\ fired' \in Nat
  BY DEF ListChildren, TypeOK
<1>2. CASE path = 0
  BY <1>1, <1>2 DEF ListChildren, TypeOK
<1>3. CASE path # 0
  <2> DEFINE children == {n \in Accepted : zk[n] # Absent}
  <2>1. children \in SUBSET Nodes
    BY CuratorAssumption DEF CuratorAssumption
  <2>2. [new |-> children \ nodes, removed |-> nodes \ children] \in Work
    BY <2>1 DEF TypeOK, Work
  <2>3. nodes' = children
          /\ queue' = Append(queue, [new |-> children \ nodes, removed |-> nodes \ children])
    BY <1>3 DEF ListChildren
  <2>4. queue \in Seq(Work)
    BY DEF TypeOK
  <2>5. queue' \in Seq(Work)
    BY <2>2, <2>3, <2>4
  <2> QED
    BY <1>1, <2>1, <2>3, <2>5
<1> QED
  BY <1>2, <1>3

-----------------------------------------------------------------------------
(* Type correctness, one step per action.                                  *)

LEMMA InitType == ASSUME Init PROVE TypeOK
<1> USE CuratorAssumption, EmptyType
<1>1. path \in 0 .. MaxPaths /\ paths \in 0 .. MaxPaths
  <2>1. paths = path /\ path \in {0, 1} /\ path <= MaxPaths
    BY DEF Init
  <2> QED
    BY <2>1 DEF Init, CuratorAssumption
<1>2. 0 \in 0 .. MaxPaths /\ 0 \in 0 .. MaxJoins
  BY DEF CuratorAssumption
<1>3. lister \in Lister
  BY DEF Init, Lister
<1>4. queue \in Seq(Work)
  BY DEF Init
<1>5. zk \in [Nodes -> MaybeData] /\ members \in Table /\ worker \in Worker
  BY DEF Init
<1> QED
  BY <1>1, <1>2, <1>3, <1>4, <1>5 DEF Init, TypeOK

LEMMA EnvironmentType == ASSUME TypeOK, Environment PROVE TypeOK'
<1> USE CuratorAssumption DEF setVars, sourceVars, historyVars
<1>1. CASE CreatePath
  BY <1>1 DEF CreatePath, FireData, TypeOK
<1>2. CASE DeletePath
  BY <1>2 DEF DeletePath, FireData, FireChildren, TypeOK, CuratorAssumption
<1>3. ASSUME NEW n \in Nodes, NEW data \in MayServe[n], Register(n, data) PROVE TypeOK'
  <2>1. zk' \in [Nodes -> MaybeData]
    BY <1>3 DEF Register, TypeOK, MaybeData, CuratorAssumption
  <2> QED
    BY <1>3, <2>1 DEF Register, FireChildren, TypeOK, CuratorAssumption
<1>4. ASSUME NEW n \in Nodes, Unregister(n) PROVE TypeOK'
  <2>1. zk' \in [Nodes -> MaybeData]
    BY <1>4 DEF Unregister, TypeOK, MaybeData
  <2> QED
    BY <1>4, <2>1 DEF Unregister, FireChildren, TypeOK
<1> QED
  BY <1>1, <1>2, <1>3, <1>4 DEF Environment

LEMMA RunnerType == ASSUME TypeOK, RunnerStep PROVE TypeOK'
<1> USE CuratorAssumption, EmptyType DEF zkVars, setVars, sourceVars, historyVars
<1>1. ASSUME Finish PROVE lister' \in Lister /\ runner' = "idle"
  BY <1>1 DEF Finish, TypeOK, Lister
<1>2. CASE DataGet
  BY <1>2 DEF DataGet, TypeOK
<1>3. CASE PathGone
  BY <1>1, <1>3 DEF PathGone, TypeOK
<1>4. CASE BeginWatch
  BY <1>1, <1>4 DEF BeginWatch, TypeOK
<1>5. CASE OpenWatch
  BY <1>1, <1>5, ListChildrenType DEF OpenWatch, TypeOK
<1>6. CASE ChildrenChanged
  <2>1. fired - 1 \in Nat
    BY <1>6 DEF ChildrenChanged, TypeOK
  <2> QED
    BY <1>6, <2>1, ListChildrenType DEF ChildrenChanged, TypeOK
<1> QED
  BY <1>2, <1>3, <1>4, <1>5, <1>6 DEF RunnerStep

\* What is read of a node that is not malformed.
LEMMA ReadsType ==
  ASSUME TypeOK, NEW n \in Nodes, Reads(n, zk[n]) PROVE zk[n] \in Endpoints \cup {Absent}
BY DEF Reads, TypeOK, MaybeData

LEMMA UpdatedType == ASSUME TypeOK PROVE Updated \in Table
BY DEF TypeOK, Updated, Worker, Table

LEMMA WorkerType == ASSUME TypeOK, WorkerStep PROVE TypeOK'
<1> USE CuratorAssumption, EmptyType DEF zkVars, watchVars, sourceVars, historyVars
<1>1. CASE WorkerTake
  <2>1. queue \in Seq(Work) /\ queue # << >>
    BY <1>1 DEF WorkerTake, TypeOK
  <2>2. Head(queue) \in Work /\ Tail(queue) \in Seq(Work)
    BY <2>1
  <2>3. worker' \in Worker
    BY <1>1, <2>2 DEF WorkerTake, Worker, Work
  <2> QED
    BY <1>1, <2>2, <2>3 DEF WorkerTake, TypeOK
<1>2. ASSUME NEW n \in Nodes, WorkerRead(n) PROVE TypeOK'
  <2>1. worker' = [worker EXCEPT !.todo = worker.todo \ {n},
                                 !.read = [worker.read EXCEPT ![n] = zk[n]]]
    BY <1>2 DEF WorkerRead, TypeOK, Worker
  <2>2. [worker.read EXCEPT ![n] = zk[n]] \in Table
    BY <1>2, ReadsType DEF WorkerRead, TypeOK, Worker, Table
  <2>3. worker' \in Worker
    BY <2>1, <2>2 DEF TypeOK, Worker
  <2> QED
    BY <1>2, <2>3 DEF WorkerRead, TypeOK
<1>3. ASSUME NEW n \in Nodes, WorkerGivesUp(n) PROVE TypeOK'
  <2>1. lost' \in SUBSET Nodes /\ skipped' \in SUBSET Nodes
    BY <1>3 DEF WorkerGivesUp, TypeOK, Worker, Work, Known
  <2> QED
    BY <1>3, <2>1 DEF WorkerGivesUp, TypeOK
<1>4. CASE WorkerNotify
  <2>1. members' \in Table
    BY <1>4, UpdatedType DEF WorkerNotify, Table
  <2>2. endpoints' \in SUBSET Endpoints
    BY <1>4, ServedByType DEF WorkerNotify, TypeOK, Worker
  <2>3. lost' \in SUBSET Nodes /\ skipped' \in SUBSET Nodes
    BY <1>4 DEF WorkerNotify, TypeOK, Worker, Work
  <2> QED
    BY <1>4, <2>1, <2>2, <2>3 DEF WorkerNotify, TypeOK
<1> QED
  BY <1>1, <1>2, <1>3, <1>4 DEF WorkerStep

LEMMA ListerType == ASSUME TypeOK, ListerStep \/ Stop PROVE TypeOK'
<1> USE CuratorAssumption, EmptyType DEF zkVars, watchVars, setVars, historyVars
<1>1. CASE ListerList
  BY <1>1 DEF ListerList, TypeOK, Lister, CuratorAssumption
<1>2. ASSUME NEW n \in Nodes, ListerRead(n) PROVE TypeOK'
  <2>1. lister' = [lister EXCEPT !.todo = lister.todo \ {n},
                                 !.read = [lister.read EXCEPT ![n] = zk[n]]]
    BY <1>2 DEF ListerRead, TypeOK, Lister
  <2>2. [lister.read EXCEPT ![n] = zk[n]] \in Table
    BY <1>2, ReadsType DEF ListerRead, TypeOK, Lister, Table
  <2>3. lister' \in Lister
    BY <2>1, <2>2 DEF TypeOK, Lister
  <2> QED
    BY <1>2, <2>3 DEF ListerRead, TypeOK
<1>3. ASSUME NEW n \in Nodes, ListerRaises(n) PROVE TypeOK'
  BY <1>3 DEF ListerRaises, TypeOK, Lister
<1>4. CASE ListerDone
  <2>1. endpoints' \in SUBSET Endpoints
    BY <1>4, ServedByType DEF ListerDone, TypeOK, Lister
  <2> QED
    BY <1>4, <2>1 DEF ListerDone, TypeOK, Lister
<1>5. CASE Stop
  BY <1>5 DEF Stop, TypeOK, Lister
<1> QED
  BY <1>1, <1>2, <1>3, <1>4, <1>5 DEF ListerStep

\* In every reachable state of Curator, every variable holds a value the code
\* could hold.
THEOREM CuratorTypeCorrect == Spec => []TypeOK
<1>1. Init => TypeOK
  BY InitType
<1>2. TypeOK /\ UNCHANGED vars => TypeOK'
  BY DEF vars, zkVars, watchVars, setVars, sourceVars, historyVars, TypeOK
<1>3. TypeOK /\ [Next]_vars => TypeOK'
  BY <1>2, EnvironmentType, RunnerType, WorkerType, ListerType DEF Next
<1> QED
  BY <1>1, <1>3, PTL DEF Spec

-----------------------------------------------------------------------------
(* Orphans.  OrphansWereGivenUp speaks of members only; to be inductive it *)
(* needs the same promise for what can still become one: the instances of  *)
(* the worker's difference and of those queued, which must have their      *)
(* leave queued behind them unless the watch still sees them.              *)

\* A leave of n is queued after position k.
LeavesAfter(n, k) == \E i \in DOMAIN queue : i > k /\ n \in queue[i].removed

OrphanInv ==
  /\ \A n \in Nodes : members[n] # Absent =>
       \/ n \in nodes \/ n \in lost
       \/ worker.busy /\ n \in worker.work.removed
       \/ LeavesAfter(n, 0)
  /\ worker.busy => \A n \in worker.work.new :
       n \notin worker.work.removed /\ (n \in nodes \/ LeavesAfter(n, 0))
  /\ \A k \in DOMAIN queue : \A n \in queue[k].new :
       n \notin queue[k].removed /\ (n \in nodes \/ LeavesAfter(n, k))
  /\ \A n \in Nodes : worker.read[n] # Absent => worker.busy /\ n \in worker.work.new
  /\ worker.busy => worker.todo \subseteq worker.work.new

LEMMA OrphanInvInit == ASSUME Init PROVE OrphanInv
BY DEF Init, OrphanInv, IdleWorker, Empty

\* Steps that leave the pipeline alone, or only clear _members.
LEMMA OrphanInvFrame ==
  ASSUME OrphanInv, UNCHANGED <<nodes, queue, worker, lost>>,
         members' = members \/ members' = Empty
  PROVE  OrphanInv'
BY DEF OrphanInv, LeavesAfter, Empty

\* A list of children: what left is queued behind everything else.
LEMMA OrphanInvListed ==
  ASSUME TypeOK, OrphanInv, NEW others \in Nat, ListChildren(others), path # 0,
         UNCHANGED <<members, worker, lost>>
  PROVE  OrphanInv'
<1> DEFINE children == {n \in Accepted : zk[n] # Absent}
           item == [new |-> children \ nodes, removed |-> nodes \ children]
<1>1. /\ queue \in Seq(Work) /\ item \in Work /\ queue' = Append(queue, item)
      /\ nodes' = children
  BY CuratorAssumption DEF TypeOK, Work, ListChildren, CuratorAssumption
<1>2. /\ Len(queue) \in Nat
      /\ DOMAIN queue = 1 .. Len(queue) /\ DOMAIN queue' = 1 .. Len(queue) + 1
      /\ \A i \in DOMAIN queue : queue'[i] = queue[i]
      /\ queue'[Len(queue) + 1] = item
  BY <1>1
<1>3. ASSUME NEW n, NEW k \in 0 .. Len(queue), n \in nodes \/ LeavesAfter(n, k)
      PROVE  n \in nodes' \/ LeavesAfter(n, k)'
  <2>1. CASE LeavesAfter(n, k)
    BY <1>2, <2>1 DEF LeavesAfter
  <2>2. CASE n \in nodes /\ n \notin children
    <3>1. n \in queue'[Len(queue) + 1].removed
      BY <1>2, <2>2
    <3>2. Len(queue) + 1 \in DOMAIN queue' /\ Len(queue) + 1 > k
      BY <1>2
    <3> QED
      BY <3>1, <3>2 DEF LeavesAfter
  <2>3. CASE n \in children
    BY <1>1, <2>3
  <2> QED
    BY <1>3, <2>1, <2>2, <2>3
<1>4. 0 \in 0 .. Len(queue) /\ \A k \in DOMAIN queue : k \in 0 .. Len(queue)
  BY <1>2
<1>5. ASSUME NEW n \in Nodes, members'[n] # Absent
      PROVE  n \in nodes' \/ n \in lost' \/ (worker'.busy /\ n \in worker'.work.removed)
               \/ LeavesAfter(n, 0)'
  BY <1>3, <1>4, <1>5 DEF OrphanInv
<1>6. ASSUME worker'.busy, NEW n \in worker'.work.new
      PROVE  n \notin worker'.work.removed /\ (n \in nodes' \/ LeavesAfter(n, 0)')
  BY <1>3, <1>4, <1>6 DEF OrphanInv
<1>7. ASSUME NEW k \in DOMAIN queue', NEW n \in queue'[k].new
      PROVE  n \notin queue'[k].removed /\ (n \in nodes' \/ LeavesAfter(n, k)')
  <2>1. CASE k \in DOMAIN queue
    BY <1>2, <1>3, <1>4, <2>1 DEF OrphanInv
  <2>2. CASE k = Len(queue) + 1
    BY <1>1, <1>2, <2>2
  <2> QED
    BY <1>2, <2>1, <2>2
<1> QED
  BY <1>5, <1>6, <1>7 DEF OrphanInv

\* The worker takes the head of the queue: the positions behind it move up.
LEMMA OrphanInvTake == ASSUME TypeOK, OrphanInv, WorkerTake PROVE OrphanInv'
<1>1. /\ queue \in Seq(Work) /\ queue # << >> /\ queue' = Tail(queue)
      /\ ~worker.busy /\ worker' = [busy |-> TRUE, work |-> Head(queue),
                                    todo |-> Head(queue).new, read |-> Empty]
      /\ UNCHANGED <<nodes, members, lost>>
  BY DEF WorkerTake, TypeOK, historyVars
<1>2. /\ Len(queue) \in Nat /\ Len(queue) >= 1 /\ Head(queue) = queue[1]
      /\ DOMAIN queue = 1 .. Len(queue) /\ DOMAIN queue' = 1 .. Len(queue) - 1
      /\ \A i \in DOMAIN queue' : queue'[i] = queue[i + 1]
  BY <1>1
<1>3. ASSUME NEW n, NEW k \in 1 .. Len(queue), LeavesAfter(n, k)
      PROVE  LeavesAfter(n, k - 1)'
  <2>1. PICK i \in DOMAIN queue : i > k /\ n \in queue[i].removed
    BY <1>3 DEF LeavesAfter
  <2>2. i - 1 \in DOMAIN queue' /\ i - 1 > k - 1 /\ queue'[i - 1] = queue[i]
    BY <1>2, <2>1
  <2> QED
    BY <2>1, <2>2 DEF LeavesAfter
<1>4. ASSUME NEW n \in Nodes, members'[n] # Absent
      PROVE  n \in nodes' \/ n \in lost' \/ (worker'.busy /\ n \in worker'.work.removed)
               \/ LeavesAfter(n, 0)'
  <2>1. n \in nodes \/ n \in lost \/ LeavesAfter(n, 0)
    BY <1>1, <1>4 DEF OrphanInv
  <2>2. CASE LeavesAfter(n, 0)
    <3>1. PICK i \in DOMAIN queue : i > 0 /\ n \in queue[i].removed
      BY <2>2 DEF LeavesAfter
    <3>2. CASE i = 1
      BY <1>1, <1>2, <3>1, <3>2
    <3>3. CASE i > 1
      <4>1. LeavesAfter(n, 1)
        BY <3>1, <3>3 DEF LeavesAfter
      <4>2. 1 \in 1 .. Len(queue) /\ 1 - 1 = 0
        BY <1>2
      <4> QED
        BY <1>3, <4>1, <4>2
    <3> QED
      BY <1>2, <3>1, <3>2, <3>3
  <2> QED
    BY <1>1, <2>1, <2>2
<1>5. ASSUME NEW n \in Head(queue).new
      PROVE  n \notin Head(queue).removed /\ (n \in nodes' \/ LeavesAfter(n, 0)')
  <2>1. n \notin queue[1].removed /\ (n \in nodes \/ LeavesAfter(n, 1))
    BY <1>2, <1>5 DEF OrphanInv
  <2>2. 1 \in 1 .. Len(queue) /\ 1 - 1 = 0
    BY <1>2
  <2> QED
    BY <1>1, <1>2, <1>3, <2>1, <2>2
<1>6. ASSUME NEW k \in DOMAIN queue', NEW n \in queue'[k].new
      PROVE  n \notin queue'[k].removed /\ (n \in nodes' \/ LeavesAfter(n, k)')
  <2>1. k + 1 \in DOMAIN queue /\ queue'[k] = queue[k + 1] /\ k + 1 - 1 = k
    BY <1>2
  <2>2. n \notin queue[k + 1].removed /\ (n \in nodes \/ LeavesAfter(n, k + 1))
    BY <1>6, <2>1 DEF OrphanInv
  <2> QED
    BY <1>1, <1>2, <1>3, <2>1, <2>2
<1>7. \A n \in Nodes : worker'.read[n] = Absent
  BY <1>1 DEF Empty
<1> QED
  BY <1>1, <1>4, <1>5, <1>6, <1>7 DEF OrphanInv

\* The worker reads one of the instances of its difference.
LEMMA OrphanInvRead ==
  ASSUME TypeOK, OrphanInv, NEW n \in Nodes, WorkerRead(n) PROVE OrphanInv'
<1>1. /\ worker'.busy = worker.busy /\ worker'.work = worker.work
      /\ worker'.todo = worker.todo \ {n}
      /\ worker'.read = [worker.read EXCEPT ![n] = zk[n]]
  BY DEF WorkerRead, TypeOK, Worker
<1>2. worker.busy /\ n \in worker.todo /\ UNCHANGED <<nodes, members, queue, lost>>
  BY DEF WorkerRead, historyVars
<1>3. \A m \in Nodes : worker'.read[m] # Absent => m = n \/ worker.read[m] # Absent
  BY <1>1 DEF TypeOK, Worker, Table
<1> QED
  BY <1>1, <1>2, <1>3 DEF OrphanInv, LeavesAfter

\* The difference is given up: the members it would have removed are lost.
LEMMA OrphanInvGivesUp ==
  ASSUME TypeOK, OrphanInv, NEW n \in Nodes, WorkerGivesUp(n) PROVE OrphanInv'
<1>1. /\ worker' = IdleWorker /\ UNCHANGED <<nodes, members, queue>>
      /\ lost' = lost \cup (worker.work.removed \cap Known(members))
  BY DEF WorkerGivesUp
<1>2. ~worker'.busy /\ \A m \in Nodes : worker'.read[m] = Absent
  BY <1>1 DEF IdleWorker, Empty
<1>3. ASSUME NEW m \in Nodes, members'[m] # Absent
      PROVE  m \in nodes' \/ m \in lost' \/ LeavesAfter(m, 0)'
  BY <1>1, <1>3 DEF OrphanInv, LeavesAfter, Known
<1> QED
  BY <1>1, <1>2, <1>3 DEF OrphanInv, LeavesAfter

\* The difference is done: those it removes are no members any more, and those
\* read for it are, as promised, seen by the watch or about to leave.
LEMMA OrphanInvNotify == ASSUME TypeOK, OrphanInv, WorkerNotify PROVE OrphanInv'
<1>1. /\ worker.busy /\ worker' = IdleWorker /\ UNCHANGED <<nodes, queue>>
      /\ members' = [n \in Nodes |-> IF n \in worker.work.removed THEN Absent ELSE Updated[n]]
      /\ lost' = lost \ (worker.work.removed \cup Known(worker.read))
  BY DEF WorkerNotify
<1>2. ~worker'.busy /\ \A n \in Nodes : worker'.read[n] = Absent
  BY <1>1 DEF IdleWorker, Empty
<1>3. ASSUME NEW n \in Nodes, members'[n] # Absent
      PROVE  n \in nodes' \/ n \in lost' \/ LeavesAfter(n, 0)'
  <2>1. n \notin worker.work.removed /\ (worker.read[n] # Absent \/ members[n] # Absent)
    BY <1>1, <1>3 DEF Updated
  <2>2. CASE worker.read[n] # Absent
    BY <1>1, <2>2 DEF OrphanInv, LeavesAfter
  <2>3. CASE worker.read[n] = Absent
    BY <1>1, <2>1, <2>3 DEF OrphanInv, LeavesAfter, Known
  <2> QED
    BY <2>2, <2>3
<1> QED
  BY <1>1, <1>2, <1>3 DEF OrphanInv, LeavesAfter

LEMMA OrphanInvStep == ASSUME TypeOK, OrphanInv, [Next]_vars PROVE OrphanInv'
<1> USE DEF zkVars, watchVars, setVars, sourceVars, historyVars
<1>1. CASE Environment
  <2>1. UNCHANGED <<nodes, members, queue, worker, lost>>
    BY <1>1 DEF Environment, CreatePath, DeletePath, Register, Unregister
  <2> QED
    BY <2>1, OrphanInvFrame
<1>2. CASE DataGet \/ PathGone \/ BeginWatch
  <2>1. UNCHANGED <<nodes, queue, worker, lost>> /\ (members' = members \/ members' = Empty)
    BY <1>2 DEF DataGet, PathGone, BeginWatch
  <2> QED
    BY <2>1, OrphanInvFrame
<1>3. CASE OpenWatch \/ ChildrenChanged
  <2>1. PICK others \in Nat : ListChildren(others)
    BY <1>3 DEF OpenWatch, ChildrenChanged, TypeOK
  <2>2. UNCHANGED <<members, worker, lost>>
    BY <1>3 DEF OpenWatch, ChildrenChanged
  <2>3. CASE path = 0
    BY <2>1, <2>2, <2>3, OrphanInvFrame DEF ListChildren
  <2> QED
    BY <2>1, <2>2, <2>3, OrphanInvListed
<1>4. CASE WorkerStep
  BY <1>4, OrphanInvTake, OrphanInvRead, OrphanInvGivesUp, OrphanInvNotify DEF WorkerStep
<1>5. CASE ListerStep \/ Stop
  <2>1. UNCHANGED <<nodes, members, queue, worker, lost>>
    BY <1>5 DEF ListerStep, Stop, ListerList, ListerRead, ListerRaises, ListerDone
  <2> QED
    BY <2>1, OrphanInvFrame
<1>6. CASE UNCHANGED vars
  <2>1. UNCHANGED <<nodes, members, queue, worker, lost>>
    BY <1>6 DEF vars
  <2> QED
    BY <2>1, OrphanInvFrame
<1> QED
  BY <1>1, <1>2, <1>3, <1>4, <1>5, <1>6 DEF Next, RunnerStep

LEMMA OrphanInvImplies == ASSUME TypeOK, OrphanInv PROVE OrphansWereGivenUp
<1> SUFFICES ASSUME NEW n \in Known(members), n \notin nodes, n \notin lost
             PROVE  \E i \in DOMAIN Pending : n \in Pending[i].removed
  BY DEF OrphansWereGivenUp
<1>0. n \in Nodes /\ members[n] # Absent /\ queue \in Seq(Work) /\ worker.work \in Work
  BY DEF Known, TypeOK, Worker
<1>1. CASE worker.busy
  <2>1. Pending = <<worker.work>> \o queue
    BY <1>1 DEF Pending
  <2>2. /\ DOMAIN queue = 1 .. Len(queue) /\ DOMAIN Pending = 1 .. Len(queue) + 1
        /\ Len(queue) \in Nat
        /\ Pending[1] = worker.work /\ \A i \in DOMAIN queue : Pending[i + 1] = queue[i]
    BY <1>0, <2>1
  <2>3. CASE n \in worker.work.removed
    BY <2>2, <2>3
  <2>4. CASE LeavesAfter(n, 0)
    <3>1. PICK i \in DOMAIN queue : n \in queue[i].removed
      BY <2>4 DEF LeavesAfter
    <3>2. i + 1 \in DOMAIN Pending /\ n \in Pending[i + 1].removed
      BY <2>2, <3>1
    <3> QED
      BY <3>2
  <2> QED
    BY <1>0, <1>1, <2>3, <2>4 DEF OrphanInv
<1>2. CASE ~worker.busy
  <2>1. Pending = queue
    BY <1>0, <1>2 DEF Pending
  <2> QED
    BY <1>0, <1>2, <2>1 DEF OrphanInv, LeavesAfter
<1> QED
  BY <1>1, <1>2

\* For any instances and however they come, go and fail to be read: a member the
\* watch no longer sees has its leave queued or in the worker's hands, unless the
\* worker gave that leave up.
THEOREM OrphansGivenUp == Spec => []OrphansWereGivenUp
<1>1. Init => OrphanInv
  BY OrphanInvInit
<1>2. TypeOK /\ OrphanInv /\ [Next]_vars => OrphanInv'
  BY OrphanInvStep
<1>3. TypeOK /\ OrphanInv => OrphansWereGivenUp
  BY OrphanInvImplies
<1> QED
  BY <1>1, <1>2, <1>3, CuratorTypeCorrect, PTL DEF Spec
-----------------------------------------------------------------------------
(* MemberServed: no node's leave removes the endpoint of another.          *)

\* What is known of a node is what its data may say.
OwnEndpoint(table) == \A n \in Nodes : table[n] # Absent => table[n] \in MayServe[n]

ServedInv ==
  /\ OwnEndpoint(zk) /\ OwnEndpoint(members) /\ OwnEndpoint(worker.read)
  /\ ~lister.stopping => \A n \in Nodes : members[n] # Absent => members[n] \in endpoints

DisjointEndpoints ==
  \A m, n \in Nodes : m # n => MayServe[m] \cap MayServe[n] \cap Endpoints = {}

LEMMA ServedInvInit == ASSUME Init PROVE ServedInv
BY DEF Init, ServedInv, OwnEndpoint, IdleWorker, Empty

LEMMA ServedInvEnvironment == ASSUME TypeOK, ServedInv, Environment PROVE ServedInv'
<1> USE DEF setVars, sourceVars
<1>1. UNCHANGED <<members, worker, lister, endpoints>>
  BY DEF Environment, CreatePath, DeletePath, Register, Unregister
<1>2. OwnEndpoint(zk')
  BY DEF Environment, CreatePath, DeletePath, Register, Unregister, TypeOK,
         ServedInv, OwnEndpoint
<1> QED
  BY <1>1, <1>2 DEF ServedInv, OwnEndpoint

LEMMA ServedInvRunner == ASSUME TypeOK, ServedInv, RunnerStep PROVE ServedInv'
<1> USE DEF zkVars, setVars, sourceVars
<1>1. zk' = zk /\ worker' = worker
  BY DEF RunnerStep, DataGet, PathGone, BeginWatch, OpenWatch, ChildrenChanged
<1>2. lister'.stopping = lister.stopping
  BY DEF RunnerStep, DataGet, PathGone, BeginWatch, OpenWatch, ChildrenChanged, Finish,
         TypeOK, Lister
<1>3. members' = Empty \/ (members' = members /\ endpoints' = endpoints)
  BY DEF RunnerStep, DataGet, PathGone, BeginWatch, OpenWatch, ChildrenChanged
<1> QED
  BY <1>1, <1>2, <1>3 DEF ServedInv, OwnEndpoint, Empty

LEMMA ServedInvNotify ==
  ASSUME TypeOK, ServedInv, DisjointEndpoints, WorkerNotify PROVE ServedInv'
<1>1. /\ worker' = IdleWorker /\ UNCHANGED <<zk, lister>>
      /\ members' = [n \in Nodes |-> IF n \in worker.work.removed THEN Absent ELSE Updated[n]]
      /\ endpoints' = (endpoints \ ServedBy(Updated, worker.work.removed))
                        \cup ServedBy(worker.read, Nodes)
  BY DEF WorkerNotify, zkVars
<1>2. OwnEndpoint(Updated) /\ Updated \in Table
  BY UpdatedType DEF ServedInv, OwnEndpoint, Updated
<1>3. OwnEndpoint(zk') /\ OwnEndpoint(members') /\ OwnEndpoint(worker'.read)
  BY <1>1, <1>2 DEF ServedInv, OwnEndpoint, IdleWorker, Empty
<1>4. ASSUME ~lister.stopping, NEW n \in Nodes, members'[n] # Absent
      PROVE  members'[n] \in endpoints'
  <2>1. n \notin worker.work.removed /\ members'[n] = Updated[n] /\ Updated[n] # Absent
    BY <1>1, <1>4
  <2>2. CASE worker.read[n] # Absent
    BY <1>1, <2>1, <2>2 DEF Updated, ServedBy, Known
  <2>3. CASE worker.read[n] = Absent
    <3>1. Updated[n] = members[n] /\ members[n] \in endpoints
      BY <1>4, <2>1, <2>3 DEF Updated, ServedInv
    <3>2. ASSUME NEW m \in worker.work.removed \cap Known(Updated) PROVE Updated[m] # Updated[n]
      <4>1. m \in Nodes /\ m # n /\ Updated[m] # Absent
        BY <2>1, <3>2 DEF Known
      <4>2. Updated[m] \in MayServe[m] \cap Endpoints /\ Updated[n] \in MayServe[n] \cap Endpoints
        BY <1>2, <2>1, <4>1 DEF OwnEndpoint, Table
      <4> QED
        BY <4>1, <4>2 DEF DisjointEndpoints
    <3>3. Updated[n] \notin ServedBy(Updated, worker.work.removed)
      BY <3>2 DEF ServedBy
    <3> QED
      BY <1>1, <2>1, <3>1, <3>3
  <2> QED
    BY <2>2, <2>3
<1> QED
  BY <1>1, <1>3, <1>4 DEF ServedInv

LEMMA ServedInvWorker ==
  ASSUME TypeOK, ServedInv, DisjointEndpoints, WorkerStep PROVE ServedInv'
<1> USE DEF zkVars, watchVars, sourceVars
<1>1. CASE WorkerTake
  <2>1. worker'.read = Empty /\ UNCHANGED <<zk, members, lister, endpoints>>
    BY <1>1 DEF WorkerTake
  <2> QED
    BY <2>1 DEF ServedInv, OwnEndpoint, Empty
<1>2. ASSUME NEW n \in Nodes, WorkerRead(n) PROVE ServedInv'
  <2>1. worker'.read = [worker.read EXCEPT ![n] = zk[n]]
    BY <1>2 DEF WorkerRead, TypeOK, Worker
  <2>2. OwnEndpoint(worker'.read)
    BY <2>1 DEF ServedInv, OwnEndpoint, TypeOK, Worker, Table
  <2>3. UNCHANGED <<zk, members, lister, endpoints>>
    BY <1>2 DEF WorkerRead
  <2> QED
    BY <2>2, <2>3 DEF ServedInv, OwnEndpoint
<1>3. ASSUME NEW n \in Nodes, WorkerGivesUp(n) PROVE ServedInv'
  <2>1. worker'.read = Empty /\ UNCHANGED <<zk, members, lister, endpoints>>
    BY <1>3 DEF WorkerGivesUp, IdleWorker
  <2> QED
    BY <2>1 DEF ServedInv, OwnEndpoint, Empty
<1>4. CASE WorkerNotify
  BY <1>4, ServedInvNotify
<1> QED
  BY <1>1, <1>2, <1>3, <1>4 DEF WorkerStep

LEMMA ServedInvLister == ASSUME TypeOK, ServedInv, ListerStep \/ Stop PROVE ServedInv'
<1> USE DEF zkVars, watchVars, setVars
<1>1. UNCHANGED <<zk, members, worker>>
  BY DEF ListerStep, Stop, ListerList, ListerRead, ListerRaises, ListerDone
<1>2. ~lister'.stopping => ~lister.stopping /\ endpoints \subseteq endpoints'
  BY DEF ListerStep, Stop, ListerList, ListerRead, ListerRaises, ListerDone, TypeOK, Lister
<1> QED
  BY <1>1, <1>2 DEF ServedInv, OwnEndpoint

LEMMA ServedInvStep ==
  ASSUME TypeOK, ServedInv, DisjointEndpoints, [Next]_vars PROVE ServedInv'
<1>1. CASE UNCHANGED vars
  BY <1>1 DEF vars, zkVars, setVars, sourceVars, ServedInv, OwnEndpoint
<1> QED
  BY <1>1, ServedInvEnvironment, ServedInvRunner, ServedInvWorker, ServedInvLister DEF Next

\* If no two instances can name the same host and port, every member's endpoint
\* is served until stop, also after a start that raised or a difference that was
\* given up.
THEOREM MembersServed ==
  ASSUME DisjointEndpoints PROVE Spec => []MemberServed
<1>1. Init => ServedInv
  BY ServedInvInit
<1>2. TypeOK /\ ServedInv /\ [Next]_vars => ServedInv'
  BY ServedInvStep
<1>3. ServedInv => MemberServed
  BY DEF ServedInv, MemberServed, Known
<1> QED
  BY <1>1, <1>2, <1>3, CuratorTypeCorrect, PTL DEF Spec
=============================================================================
