------------------------- MODULE RegistrationProofs -------------------------
(* Theorems about Registration, for any hosts, names and bounds, and about *)
(* AzureRegistration, for any jobs, balancers and pools.                   *)
EXTENDS Registration, AzureRegistration, TLAPS

LEMMA CountType == ASSUME TypeOK PROVE Count \in Nat /\ 1 <= Count /\ Count <= MaxNames
BY RegistrationAssumption DEF TypeOK, Count, RegistrationAssumption

LEMMA IdleTypes == Down \in Task /\ IdleSync \in Sync
BY RegistrationAssumption DEF RegistrationAssumption, Down, Task, IdleSync, Sync, Names

-----------------------------------------------------------------------------
(* Type correctness, one step per action.                                  *)

LEMMA InitType == ASSUME Init PROVE TypeOK
BY IdleTypes, RegistrationAssumption DEF Init, TypeOK, RegistrationAssumption, Names

\* Registering and deregistering keep the type of the registry.
LEMMA RegisteredType ==
  ASSUME TypeOK, NEW n \in Names, NEW h \in Hosts, Registers(n, h) \/ Deregisters(n, h)
  PROVE  registered' \in [Names -> SUBSET Hosts]
BY DEF TypeOK, Registers, Deregisters

\* What a step makes of the task of one host.
LEMMA TaskType ==
  ASSUME TypeOK, NEW h \in Hosts, NEW t \in Task, task' = [task EXCEPT ![h] = t]
  PROVE  task' \in [Hosts -> Task]
BY DEF TypeOK

LEMMA TaskStepType ==
  ASSUME TypeOK, NEW h \in Hosts, TaskStep(h) PROVE TypeOK'
<1> USE RegistrationAssumption DEF RegistrationAssumption, bounds
<1>0. task[h] \in Task
  BY DEF TypeOK
<1>1. CASE Look(h)
  <2>1. task' \in [Hosts -> Task]
    BY <1>0, <1>1 DEF Look, TypeOK, Task
  <2> QED
    BY <1>1, <2>1 DEF Look, TypeOK
<1>2. CASE Act(h)
  <2>1. task[h].next \in Names /\ task[h].next + 1 \in 1 .. MaxNames + 1
    <3>1. task[h].next \in Nat /\ 1 <= task[h].next /\ task[h].next <= Count
      <4>1. Turning(h)
        BY <1>2 DEF Act, Acting
      <4>2. task[h].next \in 1 .. MaxNames + 1
        BY <1>0 DEF Task
      <4> QED
        BY <4>1, <4>2 DEF Turning
    <3>2. Count \in Nat /\ Count <= MaxNames
      BY CountType
    <3> QED
      BY <3>1, <3>2 DEF Names
  <2>2. task' = [task EXCEPT ![h] = [task[h] EXCEPT !.next = task[h].next + 1,
                                                    !.seen = "nothing yet"]]
    BY <1>2 DEF Act, TypeOK
  <2>3. [task[h] EXCEPT !.next = task[h].next + 1, !.seen = "nothing yet"] \in Task
    BY <1>0, <2>1 DEF Task
  <2>4. task' \in [Hosts -> Task]
    BY <2>2, <2>3, TaskType
  <2>5. registered' \in [Names -> SUBSET Hosts]
    BY <1>2, <2>1, RegisteredType DEF Act, TypeOK
  <2> QED
    BY <1>2, <2>4, <2>5 DEF Act, TypeOK
<1>3. CASE Added(h)
  <2>1. task' \in [Hosts -> Task]
    BY <1>0, <1>3 DEF Added, TypeOK, Task
  <2>2. <<"remove", "stop updates", "stop metrics">> \in Seq(Handler)
    BY DEF Handler
  <2>3. handlers' \in [Hosts -> Seq(Handler)]
    BY <1>3, <2>2 DEF Added, TypeOK
  <2> QED
    BY <1>3, <2>1, <2>3 DEF Added, TypeOK
<1>4. CASE Removed(h)
  <2>1. task' \in [Hosts -> Task]
    BY <1>0, <1>4 DEF Removed, TypeOK, Task
  <2> QED
    BY <1>4, <2>1 DEF Removed, TypeOK
<1>5. CASE Killed(h)
  BY <1>5, IdleTypes DEF Killed, TypeOK
<1>6. CASE Expires(h)
  BY <1>6 DEF Expires, TypeOK
<1> QED
  BY <1>1, <1>2, <1>3, <1>4, <1>5, <1>6 DEF TaskStep

LEMMA FaultType ==
  ASSUME TypeOK, NEW h \in Hosts, Fault(h)
  PROVE  faults' \in 0 .. MaxFaults /\ blamed' \in SUBSET Hosts
BY RegistrationAssumption DEF RegistrationAssumption, TypeOK, Fault

LEMMA HostStepType ==
  ASSUME TypeOK, NEW h \in Hosts,
         Start(h) \/ ExecuteShutdownHandlers(h) \/ AddRaises(h) \/ RemoveGivesUp(h) \/ Dies(h)
  PROVE  TypeOK'
<1> USE RegistrationAssumption, IdleTypes DEF RegistrationAssumption, bounds
<1>0. << >> \in Seq(Handler) /\ task[h] \in Task
  BY DEF TypeOK
<1>1. CASE Start(h)
  <2>1. task' \in [Hosts -> Task]
    BY <1>1 DEF Start, TypeOK, Down, Task
  <2>2. starts' \in 0 .. MaxStarts
    BY <1>1 DEF Start, TypeOK
  <2> QED
    BY <1>0, <1>1, <2>1, <2>2 DEF Start, TypeOK
<1>2. CASE ExecuteShutdownHandlers(h)
  <2>1. task' \in [Hosts -> Task]
    BY <1>2 DEF ExecuteShutdownHandlers, TypeOK, Down, Task
  <2> QED
    BY <1>0, <1>2, <2>1 DEF ExecuteShutdownHandlers, TypeOK
<1>3. CASE AddRaises(h)
  <2>1. faults' \in 0 .. MaxFaults /\ blamed' \in SUBSET Hosts
    BY <1>3, FaultType DEF AddRaises, TypeOK
  <2> QED
    BY <1>3, <2>1 DEF AddRaises, TypeOK
<1>4. CASE RemoveGivesUp(h)
  <2>1. faults' \in 0 .. MaxFaults /\ blamed' \in SUBSET Hosts
    BY <1>4, FaultType DEF RemoveGivesUp, TypeOK
  <2>2. task' \in [Hosts -> Task]
    BY <1>4 DEF RemoveGivesUp, TypeOK, Down, Task
  <2> QED
    BY <1>4, <2>1, <2>2 DEF RemoveGivesUp, TypeOK
<1>5. CASE Dies(h)
  BY <1>5, FaultType DEF Dies, TypeOK
<1> QED
  BY <1>1, <1>2, <1>3, <1>4, <1>5

\* The name whose turn it is is one of those configured.
SyncInTurn == sync.next <= Count

LEMMA SyncType ==
  ASSUME TypeOK, SyncInTurn, SyncStep \/ SyncRaises PROVE TypeOK' /\ SyncInTurn'
<1> USE RegistrationAssumption, IdleTypes DEF RegistrationAssumption, bounds
<1> USE DEF SyncInTurn, Count
<1>0. sync \in Sync /\ registered \in [Names -> SUBSET Hosts] /\ sync.next \in Names
  BY DEF TypeOK, Sync
<1>1. CASE SyncReads
  <2>1. sync' \in Sync
    BY <1>1 DEF SyncReads, TypeOK, IdleSync, Sync, Names
  <2>2. SyncInTurn'
    BY <1>1 DEF SyncReads, IdleSync
  <2> QED
    BY <1>1, <2>1, <2>2 DEF SyncReads, TypeOK
<1>2. CASE SyncLooks
  <2>1. Difference.add \in SUBSET Hosts /\ Difference.drop \in SUBSET Hosts
    BY <1>0 DEF Difference, Sync
  <2>2. sync' \in Sync /\ SyncInTurn'
    BY <1>0, <1>2, <2>1 DEF SyncLooks, Sync
  <2> QED
    BY <1>2, <2>2 DEF SyncLooks, TypeOK
<1>3. ASSUME NEW h \in Hosts, SyncWrites(h) PROVE TypeOK' /\ SyncInTurn'
  <2>1. registered' \in [Names -> SUBSET Hosts] /\ blamed' \in SUBSET Hosts
    BY <1>0, <1>3, RegisteredType DEF SyncWrites, TypeOK
  <2>2. sync' \in Sync /\ SyncInTurn'
    BY <1>0, <1>3 DEF SyncWrites, Sync
  <2> QED
    BY <1>3, <2>1, <2>2 DEF SyncWrites, TypeOK
<1>4. CASE SyncNext
  <2>1. CASE sync.next = Count
    BY <1>4, <2>1 DEF SyncNext, TypeOK, IdleSync
  <2>2. CASE sync.next # Count
    <3>1. sync' = [sync EXCEPT !.pc = "looking", !.next = sync.next + 1]
      BY <1>4, <2>2 DEF SyncNext
    <3>2. sync.next + 1 \in Names /\ sync.next + 1 <= Count
      BY <1>0, <2>2 DEF Names, TypeOK
    <3>3. sync' \in Sync /\ SyncInTurn'
      BY <1>0, <1>4, <3>1, <3>2 DEF Sync, SyncNext
    <3> QED
      BY <1>4, <3>3 DEF SyncNext, TypeOK
  <2> QED
    BY <2>1, <2>2
<1>5. CASE SyncRaises
  BY <1>5 DEF SyncRaises, TypeOK, IdleSync
<1> QED
  BY <1>1, <1>2, <1>3, <1>4, <1>5 DEF SyncStep

LEMMA HostStepInTurn ==
  ASSUME TypeOK, SyncInTurn, NEW h \in Hosts,
         \/ TaskStep(h) \/ Start(h) \/ ExecuteShutdownHandlers(h)
         \/ AddRaises(h) \/ RemoveGivesUp(h) \/ Dies(h)
  PROVE  SyncInTurn'
BY DEF SyncInTurn, Count, TaskStep, Look, Act, Added, Removed, Killed, Expires, Start,
       ExecuteShutdownHandlers, AddRaises, RemoveGivesUp, Dies

\* The types of Registration, and of synchronize that its turn is that of a
\* configured name.
THEOREM RegistrationTypeCorrect == Spec => [](TypeOK /\ SyncInTurn)
<1>1. Init => TypeOK /\ SyncInTurn
  <2>1. Init => 1 <= Count
    BY RegistrationAssumption DEF RegistrationAssumption, Count
  <2> QED
    BY <2>1, InitType DEF Init, SyncInTurn, IdleSync
<1>2. TypeOK /\ SyncInTurn /\ [Next]_vars => (TypeOK /\ SyncInTurn)'
  <2> SUFFICES ASSUME TypeOK, SyncInTurn, [Next]_vars PROVE (TypeOK /\ SyncInTurn)'
    OBVIOUS
  <2>1. CASE UNCHANGED vars
    BY <2>1 DEF vars, bounds, TypeOK, SyncInTurn, Count
  <2>2. CASE SyncStep \/ SyncRaises
    BY <2>2, SyncType
  <2>3. ASSUME NEW h \in Hosts,
               \/ TaskStep(h) \/ Start(h) \/ ExecuteShutdownHandlers(h)
               \/ AddRaises(h) \/ RemoveGivesUp(h) \/ Dies(h)
        PROVE  (TypeOK /\ SyncInTurn)'
    BY <2>3, TaskStepType, HostStepType, HostStepInTurn
  <2> QED
    BY <2>1, <2>2, <2>3 DEF Next
<1> QED
  BY <1>1, <1>2, PTL DEF Spec

-----------------------------------------------------------------------------
(* RemovedOnce: the handlers are there to be run only before remove was    *)
(* called.                                                                 *)

RemovalsInv ==
  \A h \in Hosts :
    /\ removals[h] <= 1
    /\ task[h].pc = "adding" \/ handlers[h] # << >> => removals[h] = 0

LEMMA RemovalsInvStep ==
  ASSUME TypeOK, RemovalsInv, [Next]_vars PROVE RemovalsInv'
<1>1. CASE UNCHANGED <<task, handlers, removals>>
  BY <1>1 DEF RemovalsInv
<1>2. ASSUME NEW h \in Hosts,
             TaskStep(h) \/ AddRaises(h) \/ RemoveGivesUp(h) \/ Dies(h)
      PROVE  RemovalsInv'
  <2>1. removals' = removals
    BY <1>2 DEF TaskStep, Look, Act, Added, Removed, Killed, Expires, AddRaises,
                RemoveGivesUp, Dies
  <2>2. ASSUME NEW k \in Hosts, task'[k].pc = "adding" PROVE task[k].pc = "adding"
    <3>1. task[h] \in Task /\ task[k] \in Task /\ Down.pc = "down"
      BY DEF TypeOK, Down
    <3>2. CASE k # h
      BY <1>2, <2>2, <3>2 DEF TaskStep, Look, Act, Added, Removed, Killed, Expires, AddRaises,
             RemoveGivesUp, Dies, TypeOK
    <3>3. CASE k = h /\ (Look(h) \/ Act(h))
      <4>1. task \in [Hosts -> Task] /\ DOMAIN task[h] = {"pc", "next", "seen"}
        BY <3>1 DEF TypeOK, Task
      <4>2. task'[h].pc = task[h].pc
        BY <3>3, <4>1 DEF Look, Act
      <4> QED
        BY <2>2, <3>3, <4>2
    <3>4. CASE k = h /\ TaskStep(h) /\ ~Look(h) /\ ~Act(h)
      BY <2>2, <3>1, <3>4 DEF TaskStep, Added, Removed, Killed, Expires, TypeOK, Task, Down
    <3>5. CASE k = h /\ (AddRaises(h) \/ RemoveGivesUp(h) \/ Dies(h))
      <4>1. task' = [task EXCEPT ![h] = Down] \/ task' = [task EXCEPT ![h] = [Down EXCEPT !.pc = "removed"]]
        BY <3>5 DEF AddRaises, RemoveGivesUp, Dies
      <4>2. Down.pc = "down" /\ [Down EXCEPT !.pc = "removed"].pc = "removed"
        BY DEF Down
      <4>3. task'[h] = Down \/ task'[h] = [Down EXCEPT !.pc = "removed"]
        BY <4>1 DEF TypeOK
      <4>4. task'[h].pc \in {"down", "removed"}
        BY <4>2, <4>3
      <4> QED
        BY <2>2, <3>5, <4>4
    <3> QED
      BY <1>2, <3>2, <3>3, <3>4, <3>5
  <2>3. ASSUME NEW k \in Hosts, handlers'[k] # << >>
        PROVE  handlers[k] # << >> \/ task[k].pc = "adding"
    BY <1>2, <2>3 DEF TaskStep, Look, Act, Added, Removed, Killed, Expires, AddRaises,
                RemoveGivesUp, Dies, TypeOK
  <2> QED
    BY <2>1, <2>2, <2>3 DEF RemovalsInv
<1>3. ASSUME NEW h \in Hosts, Start(h) PROVE RemovalsInv'
  <2>1. /\ removals' = [removals EXCEPT ![h] = 0] /\ removals \in [Hosts -> Nat]
        /\ handlers' = [handlers EXCEPT ![h] = << >>]
    BY <1>3 DEF Start, TypeOK
  <2>2. \A k \in Hosts \ {h} : task'[k] = task[k] /\ handlers'[k] = handlers[k]
    BY <1>3 DEF Start, TypeOK
  <2> QED
    BY <2>1, <2>2 DEF RemovalsInv
<1>4. ASSUME NEW h \in Hosts, ExecuteShutdownHandlers(h) PROVE RemovalsInv'
  <2>1. /\ removals' = [removals EXCEPT ![h] = removals[h] + 1] /\ removals \in [Hosts -> Nat]
        /\ removals[h] = 0
    BY <1>4 DEF ExecuteShutdownHandlers, TypeOK, RemovalsInv
  <2>2. task'[h].pc = "removing" /\ handlers'[h] = << >>
    BY <1>4 DEF ExecuteShutdownHandlers, TypeOK, Down
  <2>3. \A k \in Hosts \ {h} : task'[k] = task[k] /\ handlers'[k] = handlers[k]
    BY <1>4 DEF ExecuteShutdownHandlers, TypeOK
  <2> QED
    BY <2>1, <2>2, <2>3 DEF RemovalsInv
<1>5. CASE SyncStep \/ SyncRaises \/ UNCHANGED vars
  <2>1. UNCHANGED <<task, handlers, removals>>
    BY <1>5 DEF SyncStep, SyncReads, SyncLooks, SyncWrites, SyncNext, SyncRaises, vars
  <2> QED
    BY <1>1, <2>1
<1> QED
  BY <1>2, <1>3, <1>4, <1>5 DEF Next

\* For any number of hosts, and however requests to quit and to abort overlap with
\* the shutdown under way: remove is called once for each start of a task.
THEOREM DeregisteredOnce == Spec => []RemovedOnce
<1>1. Init => RemovalsInv
  BY DEF Init, RemovalsInv
<1>2. TypeOK /\ RemovalsInv /\ [Next]_vars => RemovalsInv'
  BY RemovalsInvStep
<1>3. RemovalsInv => RemovedOnce
  BY DEF RemovalsInv, RemovedOnce
<1> QED
  BY <1>1, <1>2, <1>3, RegistrationTypeCorrect, PTL DEF Spec
-----------------------------------------------------------------------------
(* RegisteredUnlessBlamed: how far a task has come tells under which names *)
(* its host is registered, and what it has found there is still so, unless *)
(* the host is blamed.                                                     *)

AddedUpTo(h) ==
  \A n \in 1 .. Count :
    (n < task[h].next \/ (n = task[h].next /\ task[h].seen = "there")) => h \in registered[n]

RemovedUpTo(h) ==
  \A n \in 1 .. Count :
    (n < task[h].next \/ (n = task[h].next /\ task[h].seen = "missing")) => h \notin registered[n]

HostInv(h) ==
  /\ task[h].pc = "adding" => AddedUpTo(h)
  /\ task[h].pc = "running" => \A n \in 1 .. Count : h \in registered[n]
  /\ task[h].pc = "removing" => RemovedUpTo(h)
  /\ task[h].pc \in {"removed", "down"} => \A n \in 1 .. Count : h \notin registered[n]

RegisteredInv == \A h \in Hosts \ blamed : HostInv(h)

\* A host whose task and registrations a step leaves alone.
LEMMA HostInvFrame ==
  ASSUME NEW h \in Hosts, HostInv(h), kind' = kind, task'[h] = task[h],
         \A n \in 1 .. Count : h \in registered'[n] <=> h \in registered[n]
  PROVE  HostInv(h)'
BY DEF HostInv, AddedUpTo, RemovedUpTo, Count

\* Registering one host says nothing of the others.
LEMMA OthersRegistered ==
  ASSUME TypeOK, NEW n \in Names, NEW h \in Hosts, NEW k \in Hosts \ {h},
         Registers(n, h) \/ Deregisters(n, h)
  PROVE  \A i \in Names : k \in registered'[i] <=> k \in registered[i]
BY DEF TypeOK, Registers, Deregisters

LEMMA RegisteredInvAct ==
  ASSUME TypeOK, NEW h \in Hosts, HostInv(h), Act(h) PROVE HostInv(h)'
<1> DEFINE i == task[h].next
<1>1. /\ i \in Names /\ i <= Count /\ Count \in Nat /\ Count <= MaxNames
      /\ task[h].pc \in {"adding", "removing"}
  <2>1. Turning(h) /\ task[h].next \in 1 .. MaxNames + 1
    BY DEF Act, Acting, TypeOK, Task
  <2>2. Count \in Nat /\ Count <= MaxNames
    BY CountType
  <2> QED
    BY <2>1, <2>2, RegistrationAssumption DEF RegistrationAssumption, Turning, Names
<1>2. task' = [task EXCEPT ![h] = [task[h] EXCEPT !.next = i + 1, !.seen = "nothing yet"]]
        /\ kind' = kind /\ task[h] \in Task /\ task \in [Hosts -> Task]
  BY DEF Act, TypeOK
<1>3. task'[h].pc = task[h].pc /\ task'[h].next = i + 1 /\ task'[h].seen = "nothing yet"
  BY <1>2 DEF Task
<1>4. Count' = Count /\ registered \in [Names -> SUBSET Hosts] /\ 1 .. Count \subseteq Names
  BY <1>1, <1>2 DEF Count, TypeOK, Names
<1> HIDE DEF i
<1>5. CASE task[h].pc = "adding"
  <2>1. AddedUpTo(h)
    BY <1>5 DEF HostInv
  <2>2. h \in registered'[i] /\ \A n \in 1 .. Count : h \in registered[n] => h \in registered'[n]
    <3>1. CASE Unneeded(h)
      <4>1. task[h].seen = "there" /\ registered' = registered
        BY <1>5, <3>1 DEF Unneeded, Act
      <4> QED
        BY <1>1, <2>1, <4>1 DEF AddedUpTo, i, Names
    <3>2. CASE ~Unneeded(h)
      <4>1. registered' = [registered EXCEPT ![i] = registered[i] \cup {h}]
        BY <1>5, <3>2 DEF Act, Registers, i
      <4> QED
        BY <1>1, <1>4, <4>1
    <3> QED
      BY <3>1, <3>2
  <2>3. AddedUpTo(h)'
    <3> SUFFICES ASSUME NEW n \in 1 .. Count, n < i + 1 PROVE h \in registered'[n]
      BY <1>3, <1>4 DEF AddedUpTo
    <3>1. n = i \/ n < i
      BY <1>1 DEF Names
    <3> QED
      BY <2>1, <2>2, <3>1 DEF AddedUpTo, i
  <2> QED
    BY <1>3, <1>5, <2>3 DEF HostInv
<1>6. CASE task[h].pc = "removing"
  <2>1. RemovedUpTo(h)
    BY <1>6 DEF HostInv
  <2>2. h \notin registered'[i] /\ \A n \in 1 .. Count : h \notin registered[n] => h \notin registered'[n]
    <3>1. CASE Unneeded(h)
      <4>1. task[h].seen = "missing" /\ registered' = registered
        BY <1>6, <3>1 DEF Unneeded, Act
      <4> QED
        BY <1>1, <2>1, <4>1 DEF RemovedUpTo, i, Names
    <3>2. CASE ~Unneeded(h)
      <4>1. registered' = [registered EXCEPT ![i] = registered[i] \ {h}]
        BY <1>6, <3>2 DEF Act, Deregisters, i
      <4> QED
        BY <1>1, <1>4, <4>1
    <3> QED
      BY <3>1, <3>2
  <2>3. RemovedUpTo(h)'
    <3> SUFFICES ASSUME NEW n \in 1 .. Count, n < i + 1 PROVE h \notin registered'[n]
      BY <1>3, <1>4 DEF RemovedUpTo
    <3>1. n = i \/ n < i
      BY <1>1 DEF Names
    <3> QED
      BY <2>1, <2>2, <3>1 DEF RemovedUpTo, i
  <2> QED
    BY <1>3, <1>6, <2>3 DEF HostInv
<1> QED
  BY <1>1, <1>5, <1>6

LEMMA RegisteredInvLook ==
  ASSUME TypeOK, NEW h \in Hosts, HostInv(h), Look(h) PROVE HostInv(h)'
<1>1. /\ task[h] \in Task /\ task \in [Hosts -> Task] /\ UNCHANGED <<kind, registered>>
      /\ task' = [task EXCEPT ![h].seen = IF h \in registered[task[h].next]
                                          THEN "there" ELSE "missing"]
  BY DEF Look, TypeOK
<1>2. /\ task'[h].pc = task[h].pc /\ task'[h].next = task[h].next
      /\ task'[h].seen = IF h \in registered[task[h].next] THEN "there" ELSE "missing"
  BY <1>1 DEF Task
<1>3. Count' = Count
  BY <1>1 DEF Count
<1> QED
  BY <1>1, <1>2, <1>3 DEF HostInv, AddedUpTo, RemovedUpTo

LEMMA RegisteredInvTaskStep ==
  ASSUME TypeOK, NEW h \in Hosts, HostInv(h), TaskStep(h) PROVE HostInv(h)'
<1>0. task[h] \in Task /\ task \in [Hosts -> Task] /\ Count \in Nat
  BY CountType DEF TypeOK
<1>1. CASE Look(h)
  BY <1>1, RegisteredInvLook
<1>2. CASE Act(h)
  BY <1>2, RegisteredInvAct
<1>3. CASE Added(h)
  <2>1. task'[h].pc = "running" /\ Count' = Count /\ registered' = registered
    BY <1>0, <1>3 DEF Added, Task, Count
  <2>2. \A n \in 1 .. Count : n < task[h].next
    <3>1. task[h].next > Count
      BY <1>3 DEF Added
    <3>2. task[h].next \in 1 .. MaxNames + 1
      BY <1>0 DEF Task
    <3> QED
      BY <1>0, <3>1, <3>2, RegistrationAssumption DEF RegistrationAssumption
  <2>3. \A n \in 1 .. Count : h \in registered[n]
    BY <1>3, <2>2 DEF Added, HostInv, AddedUpTo
  <2> QED
    BY <2>1, <2>3 DEF HostInv
<1>4. CASE Removed(h)
  <2>1. task'[h].pc = "removed" /\ Count' = Count /\ registered' = registered
    BY <1>0, <1>4 DEF Removed, Task, Count
  <2>2. \A n \in 1 .. Count : n < task[h].next
    <3>1. task[h].next > Count
      BY <1>4 DEF Removed
    <3>2. task[h].next \in 1 .. MaxNames + 1
      BY <1>0 DEF Task
    <3> QED
      BY <1>0, <3>1, <3>2, RegistrationAssumption DEF RegistrationAssumption
  <2>3. \A n \in 1 .. Count : h \notin registered[n]
    BY <1>4, <2>2 DEF Removed, HostInv, RemovedUpTo
  <2> QED
    BY <2>1, <2>3 DEF HostInv
<1>5. CASE Killed(h)
  <2>1. task'[h].pc = "down" /\ Count' = Count /\ registered' = registered
    BY <1>0, <1>5 DEF Killed, Down, Count
  <2> QED
    BY <1>5, <2>1 DEF Killed, HostInv
<1>6. CASE Expires(h)
  BY <1>6, HostInvFrame DEF Expires
<1> QED
  BY <1>1, <1>2, <1>3, <1>4, <1>5, <1>6 DEF TaskStep

\* A task that starts, or is told to quit, has done nothing yet.
LEMMA RegisteredInvBegins ==
  ASSUME TypeOK, NEW h \in Hosts, Start(h) \/ ExecuteShutdownHandlers(h) PROVE HostInv(h)'
<1>1. task'[h] = [Down EXCEPT !.pc = "adding"] \/ task'[h] = [Down EXCEPT !.pc = "removing"]
  BY DEF Start, ExecuteShutdownHandlers, TypeOK
<1>2. task'[h].next = 1 /\ task'[h].seen = "nothing yet" /\ task'[h].pc \in {"adding", "removing"}
  BY <1>1 DEF Down
<1>3. \A n \in 1 .. Count' : ~(n < 1)
  <2>1. Count' \in Nat
    BY RegistrationAssumption DEF RegistrationAssumption, Count
  <2> QED
    BY <2>1
<1> QED
  BY <1>2, <1>3 DEF HostInv, AddedUpTo, RemovedUpTo

\* What a task does leaves the others alone.
LEMMA OtherHosts ==
  ASSUME TypeOK, NEW h \in Hosts, NEW k \in Hosts \ {h}, HostInv(k),
         \/ TaskStep(h) \/ Start(h) \/ ExecuteShutdownHandlers(h)
         \/ AddRaises(h) \/ RemoveGivesUp(h) \/ Dies(h)
  PROVE  HostInv(k)'
<1>1. kind' = kind
  BY DEF TaskStep, Look, Act, Added, Removed, Killed, Expires, Start, ExecuteShutdownHandlers,
         AddRaises, RemoveGivesUp, Dies
<1>2. task'[k] = task[k]
  BY DEF TaskStep, Look, Act, Added, Removed, Killed, Expires, Start, ExecuteShutdownHandlers,
         AddRaises, RemoveGivesUp, Dies, TypeOK
<1>3. 1 .. Count \subseteq Names
  BY CountType, RegistrationAssumption DEF RegistrationAssumption, Names
<1>4. CASE Act(h)
  <2>1. Turning(h) /\ task[h].next \in 1 .. MaxNames + 1 /\ Count <= MaxNames /\ Count \in Nat
    BY <1>4, CountType DEF Act, Acting, TypeOK, Task
  <2>2. task[h].next \in Names
    BY <2>1, RegistrationAssumption DEF RegistrationAssumption, Turning, Names
  <2>3. \/ registered' = registered
        \/ Registers(task[h].next, h) \/ Deregisters(task[h].next, h)
    BY <1>4 DEF Act
  <2>4. \A i \in Names : k \in registered'[i] <=> k \in registered[i]
    BY <2>2, <2>3, OthersRegistered
  <2> QED
    BY <1>1, <1>2, <1>3, <2>4, HostInvFrame
<1>5. CASE ~Act(h)
  <2>1. registered' = registered
    BY <1>5 DEF TaskStep, Look, Added, Removed, Killed, Expires, Start,
           ExecuteShutdownHandlers, AddRaises, RemoveGivesUp, Dies
  <2> QED
    BY <1>1, <1>2, <2>1, HostInvFrame
<1> QED
  BY <1>4, <1>5

\* A write of synchronize that is not outdated agrees with what the task does.
LEMMA RegisteredInvSync ==
  ASSUME TypeOK, RegisteredInv, SyncStep \/ SyncRaises PROVE RegisteredInv'
<1> SUFFICES ASSUME NEW k \in Hosts \ blamed' PROVE HostInv(k)'
  BY DEF RegisteredInv
<1>1. k \in Hosts \ blamed /\ HostInv(k)
  BY DEF RegisteredInv, SyncStep, SyncReads, SyncLooks, SyncWrites, SyncNext, SyncRaises
<1>2. kind' = kind /\ task' = task
  BY DEF SyncStep, SyncReads, SyncLooks, SyncWrites, SyncNext, SyncRaises
<1>3. CASE registered' = registered
  BY <1>1, <1>2, <1>3, HostInvFrame
<1>4. ASSUME NEW h \in Hosts, SyncWrites(h) PROVE HostInv(k)'
  <2>1. sync.next \in Names /\ 1 .. Count \subseteq Names /\ registered \in [Names -> SUBSET Hosts]
    BY CountType, RegistrationAssumption DEF RegistrationAssumption, TypeOK, Sync, Names
  <2>2. CASE h # k
    <3>1. \A i \in Names : k \in registered'[i] <=> k \in registered[i]
      BY <1>1, <1>4, <2>1, <2>2, OthersRegistered DEF SyncWrites
    <3> QED
      BY <1>1, <1>2, <2>1, <3>1, HostInvFrame
  <2>3. CASE h = k
    <3>1. ~Outdated(k, k \in sync.add)
      BY <1>4, <2>3 DEF SyncWrites
    <3>2. CASE k \in sync.add
      <4>1. task[k].pc \in {"adding", "running"}
        BY <3>1, <3>2 DEF Outdated
      <4>2. registered' = [registered EXCEPT ![sync.next] = registered[sync.next] \cup {k}]
        BY <1>4, <2>3, <3>2 DEF SyncWrites, Registers
      <4>3. \A n \in 1 .. Count : k \in registered[n] => k \in registered'[n]
        BY <2>1, <4>2
      <4> QED
        BY <1>1, <1>2, <4>1, <4>3 DEF HostInv, AddedUpTo, Count
    <3>3. CASE k \notin sync.add
      <4>1. task[k].pc \notin {"adding", "running"}
        BY <3>1, <3>3 DEF Outdated
      <4>2. registered' = [registered EXCEPT ![sync.next] = registered[sync.next] \ {k}]
        BY <1>4, <2>3, <3>3 DEF SyncWrites, Deregisters
      <4>3. \A n \in 1 .. Count : k \notin registered[n] => k \notin registered'[n]
        BY <2>1, <4>2
      <4> QED
        BY <1>1, <1>2, <4>1, <4>3 DEF HostInv, RemovedUpTo, Count
    <3> QED
      BY <3>2, <3>3
  <2> QED
    BY <2>2, <2>3
<1> QED
  BY <1>3, <1>4 DEF SyncStep, SyncReads, SyncLooks, SyncNext, SyncRaises

LEMMA RegisteredInvStep ==
  ASSUME TypeOK, RegisteredInv, [Next]_vars PROVE RegisteredInv'
<1>1. CASE UNCHANGED vars
  BY <1>1 DEF vars, RegisteredInv, HostInv, AddedUpTo, RemovedUpTo, Count
<1>2. CASE SyncStep \/ SyncRaises
  BY <1>2, RegisteredInvSync
<1>3. ASSUME NEW h \in Hosts, TaskStep(h) PROVE RegisteredInv'
  <2>1. blamed' = blamed
    BY <1>3 DEF TaskStep, Look, Act, Added, Removed, Killed, Expires
  <2> SUFFICES ASSUME NEW k \in Hosts \ blamed PROVE HostInv(k)'
    BY <2>1 DEF RegisteredInv
  <2> QED
    BY <1>3, RegisteredInvTaskStep, OtherHosts DEF RegisteredInv
<1>4. ASSUME NEW h \in Hosts, Start(h) \/ ExecuteShutdownHandlers(h) PROVE RegisteredInv'
  <2>1. blamed \subseteq blamed' \cup {h}
    BY <1>4 DEF Start, ExecuteShutdownHandlers
  <2>2. ASSUME NEW k \in Hosts \ blamed', k # h PROVE HostInv(k)'
    <3>1. HostInv(k)
      BY <2>1, <2>2 DEF RegisteredInv
    <3> QED
      BY <1>4, <2>2, <3>1, OtherHosts
  <2> QED
    BY <1>4, <2>2, RegisteredInvBegins DEF RegisteredInv
<1>5. ASSUME NEW h \in Hosts, AddRaises(h) \/ RemoveGivesUp(h) \/ Dies(h) PROVE RegisteredInv'
  <2>1. blamed' = blamed \cup {h}
    BY <1>5 DEF AddRaises, RemoveGivesUp, Dies, Fault
  <2>2. ASSUME NEW k \in Hosts \ blamed' PROVE HostInv(k)'
    <3>1. k \in Hosts \ {h} /\ HostInv(k)
      BY <2>1, <2>2 DEF RegisteredInv
    <3> QED
      BY <1>5, <3>1, OtherHosts
  <2> QED
    BY <2>2 DEF RegisteredInv
<1> QED
  BY <1>1, <1>2, <1>3, <1>4, <1>5 DEF Next

\* For any number of hosts and names, any registerer and any number of faults and of
\* runs of synchronize: a running task is registered under every name, and one that
\* has shut down under none, unless a fault or an outdated write of synchronize hit it.
THEOREM RegisteredOrBlamed == Spec => []RegisteredUnlessBlamed
<1>1. Init => RegisteredInv
  <2> SUFFICES ASSUME Init, NEW h \in Hosts PROVE HostInv(h)
    BY DEF RegisteredInv
  <2>1. task[h].pc = "down" /\ \A n \in Names : h \notin registered[n]
    BY DEF Init, Down
  <2>2. 1 .. Count \subseteq Names
    BY InitType, CountType, RegistrationAssumption DEF RegistrationAssumption, Names
  <2> QED
    BY <2>1, <2>2 DEF HostInv
<1>2. TypeOK /\ RegisteredInv /\ [Next]_vars => RegisteredInv'
  BY RegisteredInvStep
<1>3. RegisteredInv => RegisteredUnlessBlamed
  BY DEF RegisteredInv, HostInv, RegisteredUnlessBlamed
<1> QED
  BY <1>1, <1>2, <1>3, RegistrationTypeCorrect, PTL DEF Spec

-----------------------------------------------------------------------------
(* Type correctness of AzureRegistration, one step per action.             *)

LEMMA AzureConstants ==
  ASSUME NEW j \in Jobs
  PROVE  /\ Lbs[j] \in Seq(Balancers) /\ Len(Lbs[j]) \in Nat /\ DOMAIN Lbs[j] = 1 .. Len(Lbs[j])
         /\ \A i \in DOMAIN Lbs[j] :
              /\ Lbs[j][i] \in Balancers
              /\ PoolsOf[Lbs[j][i]] \subseteq OwnPools(j) /\ PoolsOf[Lbs[j][i]] \subseteq Pools
              /\ FirstPool[Lbs[j][i]] \in PoolsOf[Lbs[j][i]]
         /\ NotRunning \in Job
<1>1. Lbs[j] \in Seq(Balancers)
  BY AzureAssumption DEF AzureAssumption
<1>2. ASSUME NEW i \in DOMAIN Lbs[j]
      PROVE  /\ Lbs[j][i] \in Balancers
             /\ PoolsOf[Lbs[j][i]] \subseteq OwnPools(j) /\ PoolsOf[Lbs[j][i]] \subseteq Pools
             /\ FirstPool[Lbs[j][i]] \in PoolsOf[Lbs[j][i]]
  <2>1. Lbs[j][i] \in Balancers
    BY <1>1
  <2>2. PoolsOf[Lbs[j][i]] \subseteq Pools /\ FirstPool[Lbs[j][i]] \in PoolsOf[Lbs[j][i]]
    BY <2>1, AzureAssumption DEF AzureAssumption
  <2>3. PoolsOf[Lbs[j][i]] \subseteq OwnPools(j)
    BY DEF OwnPools
  <2> QED
    BY <2>1, <2>2, <2>3
<1>3. NotRunning \in Job
  BY DEF NotRunning, Job
<1> QED
  BY <1>1, <1>2, <1>3

\* The balancer whose turn it is.
LEMMA CurrentFacts ==
  ASSUME AzureTypeOK, NEW j \in Jobs, InLoop(j)
  PROVE  /\ job[j].next \in DOMAIN Lbs[j] /\ Current(j) = Lbs[j][job[j].next]
         /\ Current(j) \in Balancers
         /\ PoolsOf[Current(j)] \subseteq OwnPools(j) /\ PoolsOf[Current(j)] \subseteq Pools
         /\ FirstPool[Current(j)] \in PoolsOf[Current(j)]
<1>1. job[j].next \in Nat \ {0}
  BY DEF AzureTypeOK, Job
<1>2. job[j].next \in DOMAIN Lbs[j]
  BY <1>1, AzureConstants DEF InLoop
<1> QED
  BY <1>2, AzureConstants DEF Current

LEMMA AtPcType ==
  ASSUME NEW t \in Job, NEW x \in {"down", "adding", "running", "removing", "removed"}
  PROVE  [t EXCEPT !.pc = x] \in Job
BY DEF Job

LEMMA CheckedType ==
  ASSUME NEW c \in Check, NEW s \in Seq(BOOLEAN), NEW n \in Nat
  PROVE  [c EXCEPT !.states = s, !.at = n] \in Check
BY DEF Check

LEMMA AdvancedType ==
  ASSUME AzureTypeOK, NEW j \in Jobs, Advanced(j)
  PROVE  job' \in [Jobs -> Job]
<1>1. /\ job[j].next + 1 \in Nat \ {0}
      /\ job[j].pc \in {"down", "adding", "running", "removing", "removed"}
  BY DEF AzureTypeOK, Job
<1>2. [NotRunning EXCEPT !.pc = job[j].pc, !.next = job[j].next + 1] \in Job
  BY <1>1 DEF NotRunning, Job
<1> QED
  BY <1>2 DEF AzureTypeOK, Advanced

LEMMA AzureTypeInit == ASSUME AzureInit PROVE AzureTypeOK
<1>1. ASSUME NEW j \in Jobs PROVE NotRunning \in Job /\ Fresh(j) \in Check
  <2>1. DOMAIN Configured[j] = 1 .. Len(Configured[j]) /\ Len(Configured[j]) \in Nat
    BY AzureAssumption DEF AzureAssumption
  <2>2. [i \in DOMAIN Configured[j] |-> TRUE] \in Seq(BOOLEAN)
    BY <2>1
  <2> QED
    BY <2>2, AzureConstants DEF Fresh, Check
<1> QED
  BY <1>1 DEF AzureInit, AzureTypeOK

LEMMA FreshType == ASSUME NEW j \in Jobs PROVE Fresh(j) \in Check
<1>1. DOMAIN Configured[j] = 1 .. Len(Configured[j]) /\ Len(Configured[j]) \in Nat
  BY AzureAssumption DEF AzureAssumption
<1>2. [i \in DOMAIN Configured[j] |-> TRUE] \in Seq(BOOLEAN)
  BY <1>1
<1> QED
  BY <1>2 DEF Fresh, Check

\* A state of the checks that is overwritten.
LEMMA StatesType ==
  ASSUME AzureTypeOK, NEW j \in Jobs, NEW i, NEW x \in BOOLEAN
  PROVE  [check[j].states EXCEPT ![i] = x] \in Seq(BOOLEAN)
<1> DEFINE s == check[j].states
<1>1. s \in Seq(BOOLEAN)
  BY DEF AzureTypeOK, Check
<1>2. Len(s) \in Nat /\ s \in [1 .. Len(s) -> BOOLEAN]
  BY <1>1
<1> HIDE DEF s
<1>3. [s EXCEPT ![i] = x] \in [1 .. Len(s) -> BOOLEAN]
  BY <1>2
<1>4. [s EXCEPT ![i] = x] \in Seq(BOOLEAN)
  BY <1>2, <1>3
<1> QED
  BY <1>4 DEF s

LEMMA SaveType == ASSUME AzureTypeOK, NEW j \in Jobs, Save(j) PROVE AzureTypeOK'
<1>1. InLoop(j) /\ job[j].copy \in SUBSET Pools
  BY DEF Save, AzureTypeOK, Job
<1>2. PICK written \in (IF job[j].pc = "adding" THEN Upsert(j) ELSE Drop(j)) :
        nic' = written /\ disturbed' \subseteq disturbed \cup Jobs
  BY DEF Save
<1>3. written \in SUBSET Pools
  BY <1>1, <1>2, CurrentFacts DEF Upsert, Drop
<1>4. [check[j].states EXCEPT ![job[j].next] = TRUE] \in Seq(BOOLEAN)
  BY StatesType
<1>5. check[j] \in Check
  BY DEF AzureTypeOK
<1>6. check' \in [Jobs -> Check]
  <2>1. CASE job[j].pc # "adding"
    BY <2>1 DEF Save, AzureTypeOK
  <2>2. CASE job[j].pc = "adding"
    <3>1. check' = [check EXCEPT ![j] = [check[j] EXCEPT
                      !.states = [check[j].states EXCEPT ![job[j].next] = TRUE]]]
      BY <2>2 DEF Save, AzureTypeOK
    <3>2. [check[j] EXCEPT !.states = [check[j].states EXCEPT ![job[j].next] = TRUE]] \in Check
      BY <1>4, <1>5 DEF Check
    <3> QED
      BY <3>1, <3>2 DEF AzureTypeOK
  <2> QED
    BY <2>1, <2>2
<1>7. job' \in [Jobs -> Job]
  BY AdvancedType DEF Save
<1> QED
  BY <1>2, <1>3, <1>6, <1>7 DEF AzureTypeOK

LEMMA CheckStepType == ASSUME AzureTypeOK, NEW j \in Jobs, CheckStep(j) PROVE AzureTypeOK'
<1>0. check[j] \in Check /\ nic' = nic /\ job' = job /\ disturbed' = disturbed
  BY DEF CheckStep, Elapse, BeginCheck, CheckOne, EndCheck, AzureTypeOK
<1> SUFFICES check' \in [Jobs -> Check]
  BY <1>0 DEF AzureTypeOK
<1>1. CASE Elapse(j)
  <2>1. [check[j] EXCEPT !.due = TRUE] \in Check
    BY <1>0 DEF Check
  <2> QED
    BY <1>1, <2>1 DEF Elapse, AzureTypeOK
<1>2. CASE BeginCheck(j)
  <2>1. [check[j] EXCEPT !.at = 1, !.due = FALSE] \in Check
    BY <1>0 DEF Check
  <2>2. check' = [check EXCEPT ![j] = [check[j] EXCEPT !.at = 1, !.due = FALSE]]
    BY <1>2 DEF BeginCheck, AzureTypeOK
  <2> QED
    BY <2>1, <2>2 DEF AzureTypeOK
<1>3. CASE CheckOne(j)
  <2> DEFINE states == [check[j].states EXCEPT ![check[j].at] = Matched(Lbs[j][check[j].at])]
  <2>1. states \in Seq(BOOLEAN)
    <3>1. Matched(Lbs[j][check[j].at]) \in BOOLEAN
      BY DEF Matched
    <3> QED
      BY <3>1, StatesType
  <2>2. check' = [check EXCEPT ![j] = [check[j] EXCEPT !.states = states, !.at = check[j].at + 1]]
    BY <1>3 DEF CheckOne, AzureTypeOK
  <2> HIDE DEF states
  <2>3. check[j].at + 1 \in Nat
    BY <1>0 DEF Check
  <2>4. [check[j] EXCEPT !.states = states, !.at = check[j].at + 1] \in Check
    BY <1>0, <2>1, <2>3, CheckedType
  <2> QED
    BY <2>2, <2>4 DEF AzureTypeOK
<1>4. CASE EndCheck(j)
  <2> DEFINE result == Result(j)
  <2>1. result \in BOOLEAN
    BY DEF Result
  <2>2. check' = [check EXCEPT ![j] = [check[j] EXCEPT !.last = result, !.at = 0]]
    BY <1>4 DEF EndCheck, AzureTypeOK
  <2> HIDE DEF result
  <2>3. [check[j] EXCEPT !.last = result, !.at = 0] \in Check
    BY <1>0, <2>1 DEF Check
  <2> QED
    BY <2>2, <2>3 DEF AzureTypeOK
<1> QED
  BY <1>1, <1>2, <1>3, <1>4 DEF CheckStep

\* What a step of a job that is not Save does to its record: the type is kept.
LEMMA JobSteps ==
  ASSUME AzureTypeOK, NEW j \in Jobs,
         \/ StartAdd(j) \/ Match(j) \/ Read(j) \/ AddDone(j) \/ RemoveDone(j) \/ TaskKilled(j)
         \/ Quit(j) \/ Fails(j)
  PROVE  job' \in [Jobs -> Job] /\ nic' = nic
<1>1. job[j] \in Job
  BY DEF AzureTypeOK
<1>2. ASSUME NEW pc \in {"adding", "running", "removing", "removed"}
      PROVE  [NotRunning EXCEPT !.pc = pc] \in Job
  BY AtPcType, AzureConstants
<1>3. CASE Match(j)
  <2>1. [job[j] EXCEPT !.act = TRUE] \in Job
    BY <1>1 DEF Job
  <2>2. Advanced(j) \/ job' = [job EXCEPT ![j] = [job[j] EXCEPT !.act = TRUE]]
    BY <1>3 DEF Match, AzureTypeOK
  <2> QED
    BY <1>3, <2>1, <2>2, AdvancedType DEF Match, AzureTypeOK
<1>4. CASE Read(j)
  <2>1. [job[j] EXCEPT !.holding = TRUE, !.copy = nic] \in Job
    BY <1>1 DEF Job, AzureTypeOK
  <2>2. Advanced(j) \/ job' = [job EXCEPT ![j] = [job[j] EXCEPT !.holding = TRUE, !.copy = nic]]
    BY <1>4 DEF Read, AzureTypeOK
  <2> QED
    BY <1>4, <2>1, <2>2, AdvancedType DEF Read, AzureTypeOK
<1>5. CASE \/ StartAdd(j) \/ AddDone(j) \/ RemoveDone(j) \/ TaskKilled(j) \/ Quit(j) \/ Fails(j)
  <2>1. \E t \in Job : job' = [job EXCEPT ![j] = t]
    BY <1>2, <1>5, AzureConstants DEF StartAdd, AddDone, RemoveDone, TaskKilled, Quit, Fails
  <2> QED
    BY <1>5, <2>1 DEF StartAdd, AddDone, RemoveDone, TaskKilled, Quit, Fails, AzureTypeOK
<1> QED
  BY <1>3, <1>4, <1>5

LEMMA AzureTypeStep == ASSUME AzureTypeOK, [AzureNext]_azureVars PROVE AzureTypeOK'
<1>1. ASSUME NEW p \in Pools, Others(p) PROVE AzureTypeOK'
  BY <1>1 DEF Others, AzureTypeOK
<1>2. ASSUME NEW j \in Jobs,
             \/ StartAdd(j) \/ Match(j) \/ Read(j) \/ AddDone(j) \/ RemoveDone(j) \/ TaskKilled(j)
             \/ Quit(j) \/ Fails(j)
      PROVE  AzureTypeOK'
  <2>1. job' \in [Jobs -> Job] /\ nic' = nic
    BY <1>2, JobSteps
  <2>2. disturbed' \in SUBSET Jobs
    BY <1>2 DEF StartAdd, Match, Read, AddDone, RemoveDone, TaskKilled, Quit, Fails, AzureTypeOK
  <2>3. check' \in [Jobs -> Check]
    <3>1. CASE StartAdd(j)
      BY <3>1, FreshType DEF StartAdd, AzureTypeOK
    <3>2. CASE Fails(j)
      <4>1. [check[j] EXCEPT !.at = 0] \in Check
        BY DEF AzureTypeOK, Check
      <4> QED
        BY <3>2, <4>1 DEF Fails, AzureTypeOK
    <3>3. CASE check' = check
      BY <3>3 DEF AzureTypeOK
    <3> QED
      BY <1>2, <3>1, <3>2, <3>3 DEF Match, Read, AddDone, RemoveDone, TaskKilled, Quit
  <2> QED
    BY <2>1, <2>2, <2>3 DEF AzureTypeOK
<1>3. ASSUME NEW j \in Jobs, Save(j) \/ CheckStep(j) PROVE AzureTypeOK'
  BY <1>3, SaveType, CheckStepType
<1>4. CASE UNCHANGED azureVars
  BY <1>4 DEF azureVars, AzureTypeOK
<1> QED
  BY <1>1, <1>2, <1>3, <1>4 DEF AzureNext, JobStep

\* The network interface, the tasks and the record of the checks always have their
\* types (azurelb.py).
THEOREM AzureTypeCorrect == AzureSpec => []AzureTypeOK
<1>1. AzureInit => AzureTypeOK
  BY AzureTypeInit
<1>2. AzureTypeOK /\ [AzureNext]_azureVars => AzureTypeOK'
  BY AzureTypeStep
<1> QED
  BY <1>1, <1>2, PTL DEF AzureSpec

-----------------------------------------------------------------------------
(* A task nobody has disturbed is registered.                              *)

\* What holds of a task whose pools nobody else has changed, wherever it is in its
\* loop over the balancers: of each of them the machine is in no pool but the one add
\* chose, what was read to be changed is still true of the task's own pools, and the
\* balancers behind it are done.
Intact(j) ==
  /\ nic \cap OwnPools(j) \subseteq {FirstPool[Lbs[j][i]] : i \in DOMAIN Lbs[j]}
  /\ job[j].holding => job[j].copy \cap OwnPools(j) = nic \cap OwnPools(j)
  /\ job[j].pc = "adding" => \A i \in DOMAIN Lbs[j] : i < job[j].next => Matched(Lbs[j][i])
  /\ job[j].pc = "running" => \A i \in DOMAIN Lbs[j] : Matched(Lbs[j][i])
  /\ job[j].pc = "removing" => \A i \in DOMAIN Lbs[j] : i < job[j].next => ~Matched(Lbs[j][i])
  /\ job[j].pc \in {"removed", "down"} => nic \cap OwnPools(j) = {}

AzureInv == \A j \in Jobs \ disturbed : Intact(j)

\* The fields of a task that goes on to another part of its life, or of its loop.
LEMMA NotRunningFields ==
  ASSUME NEW x, NEW n
  PROVE  /\ NotRunning.pc = "down" /\ ~NotRunning.holding /\ NotRunning.next = 1
         /\ [NotRunning EXCEPT !.pc = x].pc = x /\ [NotRunning EXCEPT !.pc = x].next = 1
         /\ ~[NotRunning EXCEPT !.pc = x].holding
         /\ [NotRunning EXCEPT !.pc = x, !.next = n].pc = x
         /\ [NotRunning EXCEPT !.pc = x, !.next = n].next = n
         /\ ~[NotRunning EXCEPT !.pc = x, !.next = n].holding
BY DEF NotRunning

\* The balancers a task is registered with are matched by its own pools.
LEMMA MatchedByOwn ==
  ASSUME NEW j \in Jobs, NEW i \in DOMAIN Lbs[j]
  PROVE  Matched(Lbs[j][i]) <=> (nic \cap OwnPools(j)) \cap PoolsOf[Lbs[j][i]] # {}
BY AzureConstants DEF Matched

\* What leaves a task and its own pools alone leaves them intact.
LEMMA IntactKept ==
  ASSUME NEW j \in Jobs, Intact(j), job'[j] = job[j],
         nic' \cap OwnPools(j) = nic \cap OwnPools(j)
  PROVE  Intact(j)'
<1>1. ASSUME NEW i \in DOMAIN Lbs[j]
      PROVE  Matched(Lbs[j][i])' <=> Matched(Lbs[j][i])
  <2>1. Matched(Lbs[j][i])' <=> (nic' \cap OwnPools(j)) \cap PoolsOf[Lbs[j][i]] # {}
    BY AzureConstants DEF Matched
  <2> QED
    BY <2>1, MatchedByOwn
<1>2. OwnPools(j)' = OwnPools(j)
  BY DEF OwnPools
<1> QED
  BY <1>1, <1>2 DEF Intact

\* The loop goes on when the balancer whose turn it was is as it should be.
LEMMA IntactAdvanced ==
  ASSUME AzureTypeOK, NEW j \in Jobs, InLoop(j), Advanced(j),
         (nic' \cap OwnPools(j)) \subseteq {FirstPool[Lbs[j][i]] : i \in DOMAIN Lbs[j]},
         job[j].pc = "adding" =>
           \A i \in DOMAIN Lbs[j] : i <= job[j].next => Matched(Lbs[j][i])',
         job[j].pc = "removing" =>
           \A i \in DOMAIN Lbs[j] : i <= job[j].next => ~Matched(Lbs[j][i])'
  PROVE  Intact(j)'
<1>1. job'[j] = [NotRunning EXCEPT !.pc = job[j].pc, !.next = job[j].next + 1]
  BY DEF Advanced, AzureTypeOK
<1>2. job'[j].pc = job[j].pc /\ job'[j].next = job[j].next + 1 /\ ~job'[j].holding
  BY <1>1, NotRunningFields
<1>3. job[j].pc \in {"adding", "removing"} /\ job[j].next \in Nat
  BY DEF InLoop, AzureTypeOK, Job
<1>4. \A i \in DOMAIN Lbs[j] : i < job[j].next + 1 => i <= job[j].next
  BY <1>3, AzureConstants
<1>5. OwnPools(j)' = OwnPools(j)
  BY DEF OwnPools
<1> QED
  BY <1>2, <1>3, <1>4, <1>5 DEF Intact

\* With every balancer matched, or none, at the end of the loop.
LEMMA LoopEnds ==
  ASSUME AzureTypeOK, NEW j \in Jobs, Intact(j), job[j].next > Len(Lbs[j])
  PROVE  /\ job[j].pc = "adding" => \A i \in DOMAIN Lbs[j] : Matched(Lbs[j][i])
         /\ job[j].pc = "removing" => nic \cap OwnPools(j) = {}
<1>1. \A i \in DOMAIN Lbs[j] : i < job[j].next
  BY AzureConstants DEF AzureTypeOK, Job
<1>2. (\A i \in DOMAIN Lbs[j] : ~Matched(Lbs[j][i])) => nic \cap OwnPools(j) = {}
  BY DEF Matched, OwnPools
<1> QED
  BY <1>1, <1>2 DEF Intact

\* The steps of a task that write nothing.
LEMMA IntactOwn ==
  ASSUME AzureTypeOK, NEW j \in Jobs, j \notin disturbed => Intact(j), j \notin disturbed',
         \/ StartAdd(j) \/ Match(j) \/ Read(j) \/ AddDone(j) \/ RemoveDone(j) \/ TaskKilled(j)
         \/ Quit(j)
  PROVE  Intact(j)'
<1>0. /\ nic' = nic /\ OwnPools(j)' = OwnPools(j)
      /\ \A i \in DOMAIN Lbs[j] : Matched(Lbs[j][i])' <=> Matched(Lbs[j][i])
  BY JobSteps DEF Matched, OwnPools
<1>1. CASE StartAdd(j)
  <2>1. nic \cap OwnPools(j) = {}
    BY <1>1 DEF StartAdd, Intact
  <2>2. job'[j] = [NotRunning EXCEPT !.pc = "adding"]
    BY <1>1 DEF StartAdd, AzureTypeOK
  <2>3. job'[j].pc = "adding" /\ job'[j].next = 1 /\ ~job'[j].holding
    BY <2>2, NotRunningFields
  <2>4. \A i \in DOMAIN Lbs[j] : ~(i < 1)
    BY AzureConstants
  <2> QED
    BY <1>0, <2>1, <2>3, <2>4 DEF Intact
<1>2. CASE Match(j)
  <2>1. InLoop(j) /\ Intact(j)
    BY <1>2 DEF Match
  <2>2. CASE Matched(Current(j)) = (job[j].pc = "adding")
    <3>1. Advanced(j)
      BY <1>2, <2>2 DEF Match
    <3>2. ASSUME NEW i \in DOMAIN Lbs[j], i <= job[j].next
          PROVE  Matched(Lbs[j][i]) <=> job[j].pc = "adding"
      <4>1. CASE i = job[j].next
        BY <2>1, <2>2, <4>1, CurrentFacts
      <4>2. CASE i < job[j].next
        BY <2>1, <4>2 DEF Intact, InLoop
      <4>3. i \in Nat /\ job[j].next \in Nat
        BY AzureConstants DEF AzureTypeOK, Job
      <4> QED
        BY <3>2, <4>1, <4>2, <4>3
    <3> QED
      BY <1>0, <2>1, <3>1, <3>2, IntactAdvanced DEF Intact
  <2>3. CASE Matched(Current(j)) # (job[j].pc = "adding")
    <3>1. job' = [job EXCEPT ![j].act = TRUE]
      BY <1>2, <2>3 DEF Match
    <3>2. /\ job'[j].pc = job[j].pc /\ job'[j].next = job[j].next
          /\ job'[j].holding = job[j].holding /\ job'[j].copy = job[j].copy
      BY <3>1 DEF AzureTypeOK, Job
    <3> QED
      BY <1>0, <2>1, <3>2 DEF Intact
  <2> QED
    BY <2>2, <2>3
<1>3. CASE Read(j)
  <2>1. InLoop(j) /\ Intact(j)
    BY <1>3 DEF Read
  <2>2. CASE job[j].pc = "removing" /\ ~Matched(Current(j))
    <3>1. Advanced(j)
      BY <1>3, <2>2 DEF Read
    <3>2. ASSUME NEW i \in DOMAIN Lbs[j], i <= job[j].next
          PROVE  ~Matched(Lbs[j][i])
      <4>1. CASE i = job[j].next
        BY <2>1, <2>2, <4>1, CurrentFacts
      <4>2. CASE i < job[j].next
        BY <2>1, <2>2, <4>2 DEF Intact
      <4>3. i \in Nat /\ job[j].next \in Nat
        BY AzureConstants DEF AzureTypeOK, Job
      <4> QED
        BY <3>2, <4>1, <4>2, <4>3
    <3> QED
      BY <1>0, <2>1, <2>2, <3>1, <3>2, IntactAdvanced DEF Intact
  <2>3. CASE ~(job[j].pc = "removing" /\ ~Matched(Current(j)))
    <3>1. job' = [job EXCEPT ![j].holding = TRUE, ![j].copy = nic]
      BY <1>3, <2>3 DEF Read
    <3>2. job'[j].pc = job[j].pc /\ job'[j].next = job[j].next /\ job'[j].copy = nic
      BY <3>1 DEF AzureTypeOK, Job
    <3> QED
      BY <1>0, <2>1, <3>2 DEF Intact
  <2> QED
    BY <2>2, <2>3
<1>4. CASE AddDone(j)
  <2>1. job'[j] = [NotRunning EXCEPT !.pc = "running"] /\ Intact(j)
    BY <1>4 DEF AddDone, AzureTypeOK
  <2>2. job'[j].pc = "running" /\ ~job'[j].holding
    BY <2>1, NotRunningFields
  <2> QED
    BY <1>0, <1>4, <2>1, <2>2, LoopEnds DEF AddDone, Intact
<1>5. CASE RemoveDone(j)
  <2>1. job'[j] = [NotRunning EXCEPT !.pc = "removed"] /\ Intact(j)
    BY <1>5 DEF RemoveDone, AzureTypeOK
  <2>2. job'[j].pc = "removed" /\ ~job'[j].holding
    BY <2>1, NotRunningFields
  <2> QED
    BY <1>0, <1>5, <2>1, <2>2, LoopEnds DEF RemoveDone, Intact
<1>6. CASE TaskKilled(j)
  <2>1. job'[j] = NotRunning /\ Intact(j)
    BY <1>6 DEF TaskKilled, AzureTypeOK
  <2>2. job'[j].pc = "down" /\ ~job'[j].holding
    BY <2>1, NotRunningFields
  <2> QED
    BY <1>0, <1>6, <2>1, <2>2 DEF TaskKilled, Intact
<1>7. CASE Quit(j)
  <2>1. job'[j] = [NotRunning EXCEPT !.pc = "removing"] /\ Intact(j)
    BY <1>7 DEF Quit, AzureTypeOK
  <2>2. job'[j].pc = "removing" /\ job'[j].next = 1 /\ ~job'[j].holding
    BY <2>1, NotRunningFields
  <2>3. \A i \in DOMAIN Lbs[j] : ~(i < 1)
    BY AzureConstants
  <2> QED
    BY <1>0, <2>1, <2>2, <2>3 DEF Intact
<1> QED
  BY <1>1, <1>2, <1>3, <1>4, <1>5, <1>6, <1>7

\* The balancers of a task have no pool in common.
LEMMA OwnFirstPool ==
  ASSUME NEW j \in Jobs, Intact(j), NEW i \in DOMAIN Lbs[j],
         NEW p \in nic \cap PoolsOf[Lbs[j][i]]
  PROVE  p = FirstPool[Lbs[j][i]]
<1>1. p \in nic \cap OwnPools(j)
  BY AzureConstants
<1>2. PICK k \in DOMAIN Lbs[j] : p = FirstPool[Lbs[j][k]]
  BY <1>1 DEF Intact
<1>3. p \in PoolsOf[Lbs[j][k]] /\ Lbs[j][k] \in Balancers /\ Lbs[j][i] \in Balancers
  BY <1>2, AzureConstants
<1>4. Lbs[j][k] = Lbs[j][i]
  BY <1>3, AzureAssumption DEF AzureAssumption
<1> QED
  BY <1>2, <1>4

\* What a task writes for the balancer whose turn it is puts it into one of its
\* pools, or takes it out of the only one it was in.
LEMMA IntactSave ==
  ASSUME AzureTypeOK, NEW j \in Jobs, Intact(j), Save(j)
  PROVE  Intact(j)'
<1> DEFINE c == Current(j)
<1>1. /\ InLoop(j) /\ Advanced(j) /\ job[j].copy \cap OwnPools(j) = nic \cap OwnPools(j)
      /\ job[j].pc \in {"adding", "removing"}
  BY DEF Save, Intact, InLoop
<1>2. PICK written \in (IF job[j].pc = "adding" THEN Upsert(j) ELSE Drop(j)) : nic' = written
  BY DEF Save
<1>3. ASSUME NEW i \in DOMAIN Lbs[j]
      PROVE  /\ i \in Nat /\ job[j].next \in Nat
             /\ PoolsOf[Lbs[j][i]] \subseteq OwnPools(j)
  BY AzureConstants DEF AzureTypeOK, Job
<1>4. CASE job[j].pc = "adding"
  <2>1. nic' = job[j].copy \cup {FirstPool[c]}
    BY <1>2, <1>4 DEF Upsert
  <2>2. nic' \cap OwnPools(j) = (nic \cap OwnPools(j)) \cup {FirstPool[c]}
    BY <1>1, <2>1, CurrentFacts
  <2>3. (nic' \cap OwnPools(j)) \subseteq {FirstPool[Lbs[j][i]] : i \in DOMAIN Lbs[j]}
    BY <1>1, <2>2, CurrentFacts DEF Intact
  <2>4. ASSUME NEW i \in DOMAIN Lbs[j], i <= job[j].next
        PROVE  Matched(Lbs[j][i])'
    <3>1. CASE i = job[j].next
      BY <1>1, <2>2, <3>1, CurrentFacts DEF Matched
    <3>2. CASE i < job[j].next
      <4>1. Matched(Lbs[j][i])
        BY <1>4, <3>2 DEF Intact
      <4> QED
        BY <1>3, <2>2, <4>1 DEF Matched
    <3> QED
      BY <1>3, <2>4, <3>1, <3>2
  <2> QED
    BY <1>1, <1>4, <2>3, <2>4, IntactAdvanced
<1>5. CASE job[j].pc = "removing"
  <2>1. PICK p \in job[j].copy \cap PoolsOf[c] : nic' = job[j].copy \ {p}
    BY <1>2, <1>5 DEF Drop
  <2>2. p \in nic \cap PoolsOf[c]
    BY <1>1, <2>1, CurrentFacts
  <2>3. nic' \cap OwnPools(j) = (nic \cap OwnPools(j)) \ {p}
    BY <1>1, <2>1
  <2>4. (nic' \cap OwnPools(j)) \subseteq {FirstPool[Lbs[j][i]] : i \in DOMAIN Lbs[j]}
    BY <2>3 DEF Intact
  <2>5. ASSUME NEW i \in DOMAIN Lbs[j], i <= job[j].next
        PROVE  ~Matched(Lbs[j][i])'
    <3>1. CASE i = job[j].next
      <4>1. \A r \in nic \cap PoolsOf[c] : r = p
        BY <1>1, <2>2, CurrentFacts, OwnFirstPool
      <4> QED
        BY <1>1, <1>3, <2>3, <3>1, <4>1, CurrentFacts DEF Matched
    <3>2. CASE i < job[j].next
      <4>1. ~Matched(Lbs[j][i])
        BY <1>5, <3>2 DEF Intact
      <4> QED
        BY <1>3, <2>3, <4>1 DEF Matched
    <3> QED
      BY <1>3, <2>5, <3>1, <3>2
  <2> QED
    BY <1>1, <1>5, <2>4, <2>5, IntactAdvanced
<1> QED
  BY <1>1, <1>4, <1>5

\* What a step of one task, or of somebody else, does to another task it does not
\* disturb.
LEMMA IntactOthers ==
  ASSUME AzureTypeOK, NEW k \in Jobs, Intact(k), k \notin disturbed',
         \/ \E p \in Pools : Others(p)
         \/ \E j \in Jobs \ {k} : StartAdd(j) \/ JobStep(j) \/ Quit(j) \/ Fails(j)
         \/ \E j \in Jobs : CheckStep(j)
  PROVE  Intact(k)'
<1>1. ASSUME NEW p \in Pools, Others(p) PROVE Intact(k)'
  <2>1. p \notin OwnPools(k)
    BY <1>1 DEF Others
  <2>2. job'[k] = job[k] /\ nic' \cap OwnPools(k) = nic \cap OwnPools(k)
    BY <1>1, <2>1 DEF Others
  <2> QED
    BY <2>2, IntactKept
<1>2. ASSUME NEW j \in Jobs \ {k}, StartAdd(j) \/ JobStep(j) \/ Quit(j) \/ Fails(j)
      PROVE  Intact(k)'
  <2>1. job'[k] = job[k]
    BY <1>2 DEF StartAdd, JobStep, Match, Read, Save, AddDone, RemoveDone, TaskKilled, Quit, Fails,
                Advanced, AzureTypeOK
  <2>2. CASE Save(j)
    <3>1. OwnPools(k) \cap nic = OwnPools(k) \cap nic'
      BY <1>2, <2>2 DEF Save
    <3> QED
      BY <2>1, <3>1, IntactKept
  <2>3. CASE nic' = nic
    BY <2>1, <2>3, IntactKept
  <2> QED
    BY <1>2, <2>2, <2>3, JobSteps DEF JobStep
<1>3. ASSUME NEW j \in Jobs, CheckStep(j) PROVE Intact(k)'
  <2>1. job' = job /\ nic' = nic
    BY <1>3 DEF CheckStep, Elapse, BeginCheck, CheckOne, EndCheck
  <2> QED
    BY <2>1, IntactKept
<1> QED
  BY <1>1, <1>2, <1>3

LEMMA AzureInvStep ==
  ASSUME AzureTypeOK, AzureInv, [AzureNext]_azureVars
  PROVE  AzureInv'
<1> SUFFICES ASSUME NEW k \in Jobs, k \notin disturbed' PROVE Intact(k)'
  BY DEF AzureInv
<1>1. CASE UNCHANGED azureVars
  BY <1>1, IntactKept DEF azureVars, AzureInv
<1>2. CASE StartAdd(k)
  BY <1>2, IntactOwn DEF AzureInv
<1>3. CASE ~StartAdd(k) /\ AzureNext
  <2>1. Intact(k)
    <3>1. disturbed \subseteq disturbed' \/ \E j \in Jobs \ {k} : StartAdd(j)
      BY <1>3 DEF AzureNext, JobStep, CheckStep, Others, Match, Read, Save, AddDone, RemoveDone,
                  TaskKilled, Quit, Fails, Elapse, BeginCheck, CheckOne, EndCheck
    <3>2. k \notin disturbed
      BY <3>1 DEF StartAdd
    <3> QED
      BY <3>2 DEF AzureInv
  <2>2. ~Fails(k)
    BY DEF Fails
  <2>3. CASE JobStep(k) \/ Quit(k)
    BY <2>1, <2>3, IntactOwn, IntactSave DEF JobStep
  <2>4. CASE ~(JobStep(k) \/ Quit(k))
    BY <1>3, <2>1, <2>2, <2>4, IntactOthers DEF AzureNext
  <2> QED
    BY <2>3, <2>4
<1> QED
  BY <1>1, <1>2, <1>3

\* For any number of jobs on a machine, any balancers and any pools of theirs: unless
\* its own calls failed or somebody else changed its pools, a running task is in a
\* pool of every balancer it is configured with and that exists, and one that has
\* shut down is in none - even if its loops were interleaved with those of tasks that
\* write the whole network interface (azurelb.py add and remove).
THEOREM AzureRegistered == AzureSpec => []RegisteredUnlessDisturbed
<1>1. AzureInit => AzureInv
  BY NotRunningFields DEF AzureInit, AzureInv, Intact
<1>2. AzureTypeOK /\ AzureInv /\ [AzureNext]_azureVars => AzureInv'
  BY AzureInvStep
<1>3. AzureInv => RegisteredUnlessDisturbed
  BY DEF AzureInv, Intact, RegisteredUnlessDisturbed
<1> QED
  BY <1>1, <1>2, <1>3, AzureTypeCorrect, PTL DEF AzureSpec
=============================================================================
