------------------------------ MODULE ApiSource ------------------------------
(***************************************************************************)
(* The sources an ApiSource manages (source/sources/api.py): PUT and       *)
(* DELETE requests and the expirations.  Each runs in a greenlet of its    *)
(* own, and may be switched away from where a managed source is started or *)
(* stopped, since a ServerSetSource then waits for ZooKeeper; what a       *)
(* request or an expiration does up to such a place is one action.         *)
(*                                                                         *)
(* A managed source is a number, in the order of creation.  What endpoints *)
(* it has is left to SourceGroup and ServerSet.                            *)
(***************************************************************************)
EXTENDS Naturals, FiniteSets

CONSTANTS
  Names,       \* names of managed sources
  Requests,    \* greenlets that serve requests
  MaxSources,  \* bound: how many sources are created
  NoSource,    \* no managed source
  MayFail      \* whether sources may be refused, and starts and stops may raise

Created == 1 .. MaxSources

ASSUME ApiSourceAssumption ==
  /\ MaxSources \in Nat /\ NoSource \notin Nat /\ MayFail \in BOOLEAN
  /\ Requests \cap Nat = {}

VARIABLES
  sourceMap,  \* _source_map
  made,       \* sources created so far
  nameOf,     \* the name each source was created under
  running,    \* how far the start of each source got
  stopped,    \* how far the stop of each source got
  expiration, \* the Expiration of each source
  greenlet,   \* what each greenlet waits for
  raced       \* names for which a request came while another was under way

vars == <<sourceMap, made, nameOf, running, stopped, expiration, greenlet, raced>>

\* An expiration greenlet is named by the source whose Expiration it is.
Greenlets == Requests \cup Created

Idle == [pc |-> "idle"]
Waits(pc, name, i) == [pc |-> pc, name |-> name, source |-> i]

\* "starting": in PUT; "replacing": in PUT, for the stop of the old source;
\* "deleting": in DELETE or an expiration, for the stop.
Waiting == [pc : {"starting", "replacing", "deleting"}, name : Names, source : Created]

TypeOK ==
  /\ sourceMap \in [Names -> Created \cup {NoSource}]
  /\ made \in 0 .. MaxSources
  /\ nameOf \in [1 .. made -> Names]
  /\ running \in [Created -> {"new", "starting", "started", "failed"}]
  /\ stopped \in [Created -> {"no", "stopping", "stopped", "failed"}]
  /\ expiration \in [Created -> {"none", "built", "counting", "cancelled"}]
  /\ greenlet \in [Greenlets -> {Idle} \cup Waiting]
  /\ raced \in SUBSET Names

Init ==
  /\ sourceMap = [n \in Names |-> NoSource]
  /\ made = 0
  /\ nameOf = [i \in {} |-> CHOOSE n \in Names : TRUE]
  /\ running = [i \in Created |-> "new"]
  /\ stopped = [i \in Created |-> "no"]
  /\ expiration = [i \in Created |-> "none"]
  /\ greenlet = [g \in Greenlets |-> Idle]
  /\ raced = {}

-----------------------------------------------------------------------------
\* A request for n comes while another one for n is under way.
Race(r, n) ==
  raced' = IF \E h \in Requests \ {r} : greenlet[h] # Idle /\ greenlet[h].name = n
           THEN raced \cup {n} ELSE raced

Cancelled(i) == IF expiration[i] = "none" THEN "none" ELSE "cancelled"

\* Mutants: the source is looked up, but not popped; its expiration is not
\* cancelled.
DeleteLooksUp(g, n, pc, others) ==
  LET i == sourceMap[n]
  IN /\ expiration' = [j \in Created |-> IF j \in others \cup {i} THEN Cancelled(j)
                                                               ELSE expiration[j]]
     /\ stopped' = [stopped EXCEPT ![i] = "stopping"]
     /\ greenlet' = [greenlet EXCEPT ![g] = Waits(pc, n, i)]
     /\ UNCHANGED <<sourceMap, made, nameOf, running>>

DeleteUncancelled(g, n, pc, others) ==
  LET i == sourceMap[n]
  IN /\ sourceMap' = [sourceMap EXCEPT ![n] = NoSource]
     /\ expiration' = [j \in Created |-> IF j \in others THEN Cancelled(j) ELSE expiration[j]]
     /\ stopped' = [stopped EXCEPT ![i] = "stopping"]
     /\ greenlet' = [greenlet EXCEPT ![g] = Waits(pc, n, i)]
     /\ UNCHANGED <<made, nameOf, running>>

\* _delete_managed_source up to the stop of the source: it is popped and its
\* expiration cancelled.  The expirations of others were cancelled before.
DeleteManaged(g, n, pc, others) ==
  LET i == sourceMap[n]
  IN /\ sourceMap' = [sourceMap EXCEPT ![n] = NoSource]
     /\ expiration' = [j \in Created |-> IF j \in others \cup {i} THEN Cancelled(j)
                                                               ELSE expiration[j]]
     /\ stopped' = [stopped EXCEPT ![i] = "stopping"]
     /\ greenlet' = [greenlet EXCEPT ![g] = Waits(pc, n, i)]
     /\ UNCHANGED <<made, nameOf, running>>

\* _add_managed_source up to the start of the source; or loading it raises,
\* because its class is not in the whitelist or its configuration is no good.
AddManaged(g, n) ==
  \/ /\ MayFail \/ made = MaxSources
     /\ greenlet' = [greenlet EXCEPT ![g] = Idle]
     /\ UNCHANGED <<sourceMap, made, nameOf, running, expiration>>
  \/ /\ made < MaxSources /\ made' = made + 1
     /\ nameOf' = [i \in 1 .. made' |-> IF i = made' THEN n ELSE nameOf[i]]
     /\ \E kind \in {"none", "built"} : expiration' = [expiration EXCEPT ![made'] = kind]
     /\ sourceMap' = [sourceMap EXCEPT ![n] = made']
     /\ running' = [running EXCEPT ![made'] = "starting"]
     /\ greenlet' = [greenlet EXCEPT ![g] = Waits("starting", n, made')]

\* Mutant: PUT writes over the source there is.
PutOverwrites(r, n) ==
  /\ greenlet[r] = Idle /\ Race(r, n)
  /\ AddManaged(r, n) /\ UNCHANGED stopped

\* DynamicSource.put
Put(r, n) ==
  /\ greenlet[r] = Idle /\ Race(r, n)
  /\ \/ sourceMap[n] = NoSource /\ AddManaged(r, n) /\ UNCHANGED stopped
     \/ sourceMap[n] # NoSource /\ DeleteManaged(r, n, "replacing", {})

\* DynamicSource.delete, unless there is no such source.
Delete(r, n) ==
  /\ greenlet[r] = Idle /\ Race(r, n)
  /\ sourceMap[n] # NoSource /\ DeleteManaged(r, n, "deleting", {})

\* Mutant: the expiration is never started.
StartEndsUncounted(r) ==
  /\ greenlet[r].pc = "starting"
  /\ greenlet' = [greenlet EXCEPT ![r] = Idle]
  /\ \E outcome \in {"started"} \cup (IF MayFail THEN {"failed"} ELSE {}) :
       running' = [running EXCEPT ![greenlet[r].source] = outcome]
  /\ UNCHANGED <<sourceMap, made, nameOf, stopped, expiration, raced>>

\* The rest of _add_managed_source: the source is started and its expiration,
\* unless cancelled, begins to count; or starting it raises.
StartEnds(r) ==
  /\ greenlet[r].pc = "starting"
  /\ greenlet' = [greenlet EXCEPT ![r] = Idle]
  /\ LET i == greenlet[r].source
     IN \/ /\ running' = [running EXCEPT ![i] = "started"]
           /\ expiration' = [expiration EXCEPT ![i] = IF @ = "built" THEN "counting" ELSE @]
        \/ /\ MayFail
           /\ running' = [running EXCEPT ![i] = "failed"]
           /\ UNCHANGED expiration
  /\ UNCHANGED <<sourceMap, made, nameOf, stopped, raced>>

\* The stop of a source ends, or raises: because it may, or because the source
\* has no server set yet.  Only a PUT whose stop did not raise goes on.
StopEnds(g) ==
  /\ greenlet[g].pc \in {"replacing", "deleting"}
  /\ LET i == greenlet[g].source
     IN \/ /\ stopped' = [stopped EXCEPT ![i] = "stopped"]
           /\ \/ greenlet[g].pc = "replacing" /\ AddManaged(g, greenlet[g].name)
              \/ /\ greenlet[g].pc = "deleting"
                 /\ greenlet' = [greenlet EXCEPT ![g] = Idle]
                 /\ UNCHANGED <<sourceMap, made, nameOf, running, expiration>>
        \/ /\ MayFail \/ running[i] = "starting"
           /\ stopped' = [stopped EXCEPT ![i] = "failed"]
           /\ greenlet' = [greenlet EXCEPT ![g] = Idle]
           /\ UNCHANGED <<sourceMap, made, nameOf, running, expiration>>
  /\ UNCHANGED raced

\* Expiration._cb: the name is deleted, whatever source it now stands for; if
\* there is none, the KeyError ends the greenlet.
Expire(i) ==
  /\ expiration[i] = "counting"
  /\ LET n == nameOf[i]
     IN \/ sourceMap[n] # NoSource /\ DeleteManaged(i, n, "deleting", {i})
        \/ /\ sourceMap[n] = NoSource
           /\ expiration' = [expiration EXCEPT ![i] = "cancelled"]
           /\ UNCHANGED <<sourceMap, made, nameOf, running, stopped, greenlet>>
  /\ UNCHANGED raced

-----------------------------------------------------------------------------
Next ==
  \/ \E r \in Requests : StartEnds(r) \/ \E n \in Names : Put(r, n) \/ Delete(r, n)
  \/ \E g \in Greenlets : StopEnds(g)
  \/ \E i \in Created : Expire(i)

Spec == Init /\ [][Next]_vars

-----------------------------------------------------------------------------
Stopping(g) == greenlet[g].pc \in {"replacing", "deleting"}

\* However requests and expirations meet, a source is stopped by one greenlet
\* only, and never while it is listed.
OneStopper ==
  /\ \A g, h \in Greenlets :
       Stopping(g) /\ Stopping(h) /\ greenlet[g].source = greenlet[h].source => g = h
  /\ \A n \in Names : sourceMap[n] # NoSource => stopped[sourceMap[n]] = "no"

\* A started source is listed under its name until it is stopped, as long as no
\* two requests for that name overlapped: expirations may come in between.
NoLostSource ==
  \A i \in 1 .. made :
    nameOf[i] \notin raced /\ running[i] = "started" /\ stopped[i] = "no"
      => sourceMap[nameOf[i]] = i

\* Under the same condition the expiration of a source deletes that source, and
\* not one that took its name.
ExpiresItself ==
  [][\A i \in 1 .. made :
       nameOf[i] \notin raced /\ greenlet[i] = Idle /\ greenlet'[i] # Idle
         => greenlet'[i].source = i]_vars

\* A source that was started with an expiration does not stay listed.
ExpiredUnlisted ==
  \A i \in Created :
    (running[i] = "started" /\ expiration[i] # "none")
      ~> (\A n \in Names : sourceMap[n] # i)

\* ApiSource supports "the dynamic addition and removal of other sources": a
\* source that was added can be removed again, since it is listed.
AddedCanBeRemoved ==
  \A i \in 1 .. made :
    running[i] = "started" /\ stopped[i] = "no" => sourceMap[nameOf[i]] = i
=============================================================================
