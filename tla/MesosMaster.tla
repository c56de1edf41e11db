----------------------------- MODULE MesosMaster -----------------------------
(***************************************************************************)
(* MesosMasterProxySource (source/sources/mesos.py): a ServerSetSource     *)
(* that serves only the leading master, which is the member with the       *)
(* lowest node name.                                                       *)
(*                                                                         *)
(* The watches, the differences and the worker are those of ServerSet: its *)
(* actions are taken over, and those that call on_join and on_leave, or    *)
(* end start and stop, are joined with what this class does there.  The    *)
(* callbacks of one difference run without a switch, one after another in  *)
(* an order nobody has fixed.  start holds the member lock all along, and  *)
(* so comes before every callback.  (ServerSet's variable endpoints goes   *)
(* on as what a plain ServerSetSource would serve.)                        *)
(***************************************************************************)
EXTENDS ServerSet, SequencesExt

\* Sequential nodes, by their numbers, of which ZooKeeper has ten digits.
ASSUME MesosAssumption == Nodes \subseteq Nat /\ IsFiniteSet(Nodes) /\ Absent \notin Nodes

VARIABLE source  \* _members, _current_leader and _endpoints of the source

mesosVars == <<vars, source>>

NoLeader == [node |-> Absent, endpoint |-> Absent]
Leader == [node : Nodes, endpoint : Endpoints]

Source == [joined : Table, leader : Leader \cup {NoLeader}, served : SUBSET Endpoints]

MesosTypeOK == TypeOK /\ source \in Source

MesosInit ==
  /\ Init
  /\ source = [joined |-> Empty, leader |-> NoLeader, served |-> {}]

-----------------------------------------------------------------------------
\* The member with the lowest name in a table that is not empty.
Lowest(table) == CHOOSE n \in Known(table) : \A k \in Known(table) : n <= k

\* _get_leader
GetLeader(table) == [node |-> Lowest(table), endpoint |-> table[Lowest(table)]]

Without(s) == s.served \ {s.leader.endpoint}

\* Mutant: the first to have joined stays the leader.
KeepLeader(s) ==
  IF Known(s.joined) = {} THEN [s EXCEPT !.served = Without(s)]
  ELSE IF s.leader # NoLeader THEN s
  ELSE LET leader == GetLeader(s.joined)
       IN [s EXCEPT !.leader = leader, !.served = @ \cup {leader.endpoint}]

\* _maybe_notify_leader_change: the old leader leaves and the new one joins.  When
\* the last member leaves, _current_leader stays as it is.
MaybeNotifyLeaderChange(s) ==
  IF Known(s.joined) = {} THEN [s EXCEPT !.served = Without(s)]
  ELSE IF Lowest(s.joined) = s.leader.node THEN s
  ELSE LET leader == GetLeader(s.joined)
       IN [s EXCEPT !.leader = leader, !.served = Without(s) \cup {leader.endpoint}]

\* Mutant: a leave does not look for a new leader.
LeaveOnly(s, n) == [s EXCEPT !.joined[n] = Absent]

\* __on_node_leave and __on_node_join
OnNodeLeave(s, n) == MaybeNotifyLeaderChange([s EXCEPT !.joined[n] = Absent])
OnNodeJoin(s, n) == MaybeNotifyLeaderChange([s EXCEPT !.joined[n] = Updated[n]])

\* The callbacks of one difference: first all that leave, then all that join.
Announce(leaving, joining) ==
  \E leaves \in SetToSeqs(leaving), joins \in SetToSeqs(joining) :
    source' = FoldLeft(OnNodeJoin, FoldLeft(OnNodeLeave, source, leaves), joins)

-----------------------------------------------------------------------------
\* _get_server_set has listed the members: the lowest of them is the leader, and
\* start adds it.
MesosStartAdds ==
  /\ StartAdds
  /\ source' =
       IF Known(lister.read) = {} THEN source
       ELSE LET leader == GetLeader(lister.read)
            IN [source EXCEPT !.leader = leader, !.served = @ \cup {leader.endpoint}]

MesosWorkerNotify ==
  /\ WorkerNotify
  /\ Announce(worker.work.removed \cap Known(Updated), Known(worker.read))

MesosPathGone == PathGone /\ Announce(Known(members), {})

\* stop removes what _server_set has: it is a list here, with the leader.
MesosStop ==
  /\ CanStop /\ lister.pc = "running"
  /\ lister' = [lister EXCEPT !.pc = "stopped", !.stopping = TRUE]
  /\ source' = [source EXCEPT !.served = Without(source)]
  /\ UNCHANGED <<zkVars, watchVars, setVars, errors, endpoints>>

\* Masters register with ascending names.
Registers(n, e) == AddNode(n, e) /\ \A k \in issued : k < n

-----------------------------------------------------------------------------
MesosEnvironment ==
  /\ \/ CreatePath
     \/ DeletePath
     \/ \E n \in Nodes : \E e \in MayServe[n] : Registers(n, e)
     \/ \E n \in Nodes : RemoveNode(n)
  /\ UNCHANGED source

MesosRunnerStep ==
  \/ MesosPathGone
  \/ /\ DataGet \/ PathStillWatched \/ BeginWatch \/ OpenGet \/ ChildCall
        \/ \E w \in 1 .. opened : ChildGet(w)
     /\ UNCHANGED source

MesosWorkerStep ==
  \/ (WorkerTake \/ \E n \in Nodes : WorkerRead(n)) /\ UNCHANGED source
  \/ MesosWorkerNotify

MesosListerStep ==
  \/ (ListerList \/ \E n \in Nodes : ListerRead(n)) /\ UNCHANGED source
  \/ MesosStartAdds

MesosNext ==
  MesosEnvironment \/ MesosRunnerStep \/ MesosWorkerStep \/ MesosListerStep \/ MesosStop

MesosSpec == MesosInit /\ [][MesosNext]_mesosVars

MesosFairSpec ==
  MesosSpec /\ WF_mesosVars(MesosRunnerStep) /\ WF_mesosVars(MesosWorkerStep)
            /\ WF_mesosVars(MesosListerStep)

-----------------------------------------------------------------------------
\* "The current leader is the node with the lowest ID": as soon as there are
\* members, and until stop, exactly that one is served, whatever start listed,
\* however the order of joins and leaves had the leader change on the way, and
\* whoever shares its address.  No two are ever served together, nor a master that
\* start listed and that was gone before it joined next to one that did.
LeaderServed ==
  /\ ~lister.stopping /\ Known(members) # {} => source.served = {members[Lowest(members)]}
  /\ \A e, f \in source.served : e = f

\* The lowest of the masters that stay is served in the end, and no other, unless
\* the path is deleted, a read fails or the source is stopped.
LeaderElected ==
  [](paths > 0 => path # 0) =>
    \A n \in Accepted :
      <>[](n \in Known(zk) /\ (\A k \in Known(zk) \cap Accepted : n <= k)
             /\ errors = 0 /\ ~lister.stopping)
        => <>[](source.served = {zk[n]})
=============================================================================
