-------------------------- MODULE ManagedEndpoints --------------------------
(***************************************************************************)
(* ApiSource together with the SourceGroupManager it belongs to: what      *)
(* endpoints its managed sources have, and the ShareCalculators kept for   *)
(* them.  A managed source reports its endpoints to the ApiSource, which   *)
(* reports them as its own (source=self), so the manager keeps one         *)
(* calculator for an endpoint, however many managed sources have it.       *)
(*                                                                         *)
(* The requests and expirations are those of ApiSource: its actions are    *)
(* joined with what a start or stop adds and removes.  A ServerSetSource   *)
(* may wait there, and its watches go on for ever; a StaticProxySource     *)
(* does neither.  That making a calculator may raise is left to            *)
(* SourceGroup.                                                            *)
(***************************************************************************)
EXTENDS ApiSource

CONSTANT Endpoints  \* host:port pairs

VARIABLES
  kind,    \* the class of each managed source
  has,     \* ProxySource._endpoints of each managed source
  calcs,   \* the endpoints with an entry in the manager's _share_calcs[ApiSource]
  leaked,  \* endpoints with a calculator that runs, but has no entry any more
  shared   \* endpoints that two managed sources have had at a time

endpointVars == <<kind, has, calcs, leaked, shared>>
managedVars == <<vars, endpointVars>>

ManagedTypeOK ==
  /\ TypeOK
  /\ kind \in [Created -> {"static", "serverset"}]
  /\ has \in [Created -> SUBSET Endpoints]
  /\ {calcs, leaked, shared} \subseteq SUBSET Endpoints

ManagedInit ==
  /\ Init
  /\ kind \in [Created -> {"static", "serverset"}]
  /\ has = [i \in Created |-> {}]
  /\ calcs = {} /\ leaked = {} /\ shared = {}

-----------------------------------------------------------------------------
\* The start and stop of a StaticProxySource do not wait: until they have ended
\* nobody else runs.
Undivided(i) == kind[i] = "static" /\ (running[i] = "starting" \/ stopped[i] = "stopping")
Waitable == \A i \in Created : ~Undivided(i)
MayContinue(g) == Waitable \/ Undivided(greenlet[g].source)

\* ProxySource.add of endpoints source i does not have, down to on_add_endpoint: a
\* calculator is made and replaces the one there is, which runs on.
Adds(i, es) ==
  /\ has' = [has EXCEPT ![i] = @ \cup es]
  /\ calcs' = calcs \cup es
  /\ leaked' = leaked \cup (es \cap calcs)
  /\ shared' = shared \cup {e \in es : \E j \in Created \ {i} : e \in has[j]}

\* Mutant: a remove does not reach the manager.
RemovesQuietly(i, es) ==
  /\ has' = [has EXCEPT ![i] = @ \ es]
  /\ UNCHANGED <<calcs, leaked, shared>>

\* ProxySource.remove of endpoints source i has, down to on_remove_endpoint: the
\* entry is deleted and its calculator stopped.
Removes(i, es) ==
  /\ has' = [has EXCEPT ![i] = @ \ es]
  /\ calcs' = calcs \ es
  /\ UNCHANGED <<leaked, shared>>

-----------------------------------------------------------------------------
\* Requests and expirations up to where a source is started or stopped.
Requested(r, n) == Waitable /\ (Put(r, n) \/ Delete(r, n)) /\ UNCHANGED endpointVars
Expired(i) == Waitable /\ Expire(i) /\ UNCHANGED endpointVars

\* The start of a source ends: a static one has added its endpoints, and a server set
\* what it listed.
ManagedStartEnds(r) ==
  /\ greenlet[r] # Idle /\ MayContinue(r) /\ StartEnds(r)
  /\ LET i == greenlet[r].source
     IN \E es \in SUBSET (Endpoints \ has[i]) :
          /\ kind[i] = "static" =>
               running'[i] = "started" /\ es # {}
          /\ running'[i] = "failed" => es = {}
          /\ Adds(i, es)
  /\ UNCHANGED kind

\* The stop of a source ends: a static one has removed its endpoints, and a server
\* set those of the nodes it listed.
ManagedStopEnds(g) ==
  /\ greenlet[g] # Idle /\ MayContinue(g) /\ StopEnds(g)
  /\ LET i == greenlet[g].source
     IN \E es \in SUBSET has[i] :
          /\ kind[i] = "static" => stopped'[i] = "stopped" /\ es = has[i]
          /\ stopped'[i] = "failed" => es = {}
          /\ Removes(i, es)
  /\ UNCHANGED kind

\* The worker of a server set announces joins and leaves: once start has listed the
\* nodes, or has raised, and also after the source was stopped.
Watching(i) == kind[i] = "serverset" /\ running[i] \in {"started", "failed"}

Joins(i, e) ==
  /\ Waitable /\ Watching(i) /\ e \notin has[i] /\ Adds(i, {e})
  /\ UNCHANGED <<vars, kind>>

Leaves(i, e) ==
  /\ Waitable /\ Watching(i) /\ e \in has[i] /\ Removes(i, {e})
  /\ UNCHANGED <<vars, kind>>

-----------------------------------------------------------------------------
ManagedNext ==
  \/ \E r \in Requests : ManagedStartEnds(r) \/ \E n \in Names : Requested(r, n)
  \/ \E g \in Greenlets : ManagedStopEnds(g)
  \/ \E i \in Created : Expired(i) \/ \E e \in Endpoints : Joins(i, e) \/ Leaves(i, e)

ManagedSpec == ManagedInit /\ [][ManagedNext]_managedVars

\* Starts and stops end and timers fire; clients need not ask for anything, and
\* ZooKeeper's nodes need not change.
ManagedFairSpec ==
  /\ ManagedSpec
  /\ \A r \in Requests : WF_managedVars(ManagedStartEnds(r))
  /\ \A g \in Greenlets : WF_managedVars(ManagedStopEnds(g))
  /\ \A i \in Created : WF_managedVars(Expired(i))

-----------------------------------------------------------------------------
\* The endpoints property of the ApiSource: those of the sources that are listed.
Listed == {i \in Created : \E n \in Names : sourceMap[n] = i}
Visible == UNION {has[i] : i \in Listed}

\* Whatever requests, expirations, joins and leaves meet, the manager finds a
\* calculator for every endpoint the ApiSource has, so that reading the endpoints
\* of the group does not raise; it keeps one only while some managed source has the
\* endpoint; and none that was replaced runs on.  All of this unless two managed
\* sources have had the endpoint at a time: the leave of the one then takes the
\* calculator of the other.
UnsharedCalculated ==
  /\ Visible \ shared \subseteq calcs
  /\ \A e \in calcs \ shared : \E i \in Created : e \in has[i]
  /\ leaked \subseteq shared

\* "List of SourceEndpoints for sources managed by this ApiSource instance": the
\* endpoints can be read, whoever has them.
EndpointsReadable == Visible \subseteq calcs
=============================================================================
