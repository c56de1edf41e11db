----------------------------- MODULE SourceGroup -----------------------------
(***************************************************************************)
(* A SourceGroupManager (source/manager.py) with its sources               *)
(* (source/source.py), the ShareCalculators it keeps for their endpoints   *)
(* (share/calculator.py) and the updater that renders what it reports.     *)
(*                                                                         *)
(* A calculator's share adjusters work in greenlets of their own and       *)
(* outlive the endpoint by the check in flight when it is removed; an      *)
(* endpoint that comes back gets a new calculator.  Here a calculator has  *)
(* one adjuster of the kind of HttpHealthCheckShareAdjuster, whose share   *)
(* may change whenever a check ends, to any number of 1/Unit: that of the  *)
(* health check itself is 0 or 1 (HealthCheck says when), and a subclass   *)
(* may give any other.                                                     *)
(***************************************************************************)
EXTENDS Weights, FiniteSets, Functions

CONSTANTS
  Primary,     \* sources
  Overflow,    \* overflow_sources
  Endpoints,   \* host:port pairs
  NoCalc,      \* no calculator
  MaxCalcs,    \* bound: how many calculators are made
  BuildFails,  \* whether making a calculator may raise
  StartFails   \* whether starting one may raise

Sources == Primary \cup Overflow
Calcs == 1 .. MaxCalcs

ASSUME SourceGroupAssumption ==
  /\ Primary \cap Overflow = {}
  /\ MaxCalcs \in Nat /\ NoCalc \notin Nat
  /\ BuildFails \in BOOLEAN /\ StartFails \in BOOLEAN

VARIABLES
  endpoints,   \* ProxySource._endpoints of each source
  shareCalcs,  \* _share_calcs[source][endpoint], NoCalc if there is none
  made,        \* calculators made so far
  chain,       \* where the check chain of each calculator is
  stopped,     \* the calculators that were stopped
  share,       \* the auditable_share of each calculator
  adjusting,   \* _weight_adjustment_start has passed
  trigger,     \* the signal that start scheduled for after that moment is to come
  needsUpdate, \* ProxyUpdater._needs_update
  rendered     \* what the endpoints property gave when it was last rendered

calcVars == <<made, chain, stopped, share>>
vars == <<endpoints, shareCalcs, calcVars, adjusting, trigger, needsUpdate, rendered>>

-----------------------------------------------------------------------------
\* The endpoints of the sources, each a pair of source and endpoint.
Listed == {l \in Sources \X Endpoints : l[2] \in endpoints[l[1]]}

\* _get_unadjusted_endpoints: full weight for the primary endpoints, none for
\* the overflow endpoints unless they are all there is.
Unadjusted ==
  {<<l, IF l[1] \in Primary THEN SIGNIFICANCE
        ELSE IF \E p \in Primary : endpoints[p] # {} THEN 0 ELSE 1>> : l \in Listed}

CalcOf(l) == shareCalcs[l[1]][l[2]]
ShareOf(l) == share[CalcOf(l)]

PrimaryListed == {l \in Listed : l[1] \in Primary}
Count == Cardinality(PrimaryListed)

\* _sum_shares of the primary endpoints
Claimed == SumFunction([l \in PrimaryListed |-> ShareOf(l)])

WeightOf(l) ==
  Weight(ShareOf(l), IF l[1] \in Primary THEN EpsFactor(Claimed, Count)
                                         ELSE OepsFactor(Claimed, Count))

\* _generate_normalized_weight_endpoints
Adjusted == {<<l, WeightOf(l)>> : l \in Listed}

\* The endpoints property.
View == IF adjusting THEN Adjusted ELSE Unadjusted

\* Every endpoint of the sources has a calculator.
EndpointsReadable == \A l \in Listed : CalcOf(l) # NoCalc

\* Reading the property raises a KeyError when a calculator is missing.
Readable == adjusting => EndpointsReadable

TypeOK ==
  /\ endpoints \in [Sources -> SUBSET Endpoints]
  /\ shareCalcs \in [Sources -> [Endpoints -> Calcs \cup {NoCalc}]]
  /\ made \in 0 .. MaxCalcs
  /\ chain \in [Calcs -> {"new", "waiting", "inFlight", "ended"}]
  /\ stopped \in SUBSET Calcs
  /\ share \in [Calcs -> 0 .. Unit]
  /\ {adjusting, trigger, needsUpdate} \subseteq BOOLEAN

\* SourceGroupManager.start with a weight_adjustment_start in the future; the
\* sources are started and add what they find.
Init ==
  /\ endpoints = [s \in Sources |-> {}]
  /\ shareCalcs = [s \in Sources |-> [e \in Endpoints |-> NoCalc]]
  /\ made = 0
  /\ chain = [c \in Calcs |-> "new"]
  /\ stopped = {}
  /\ share = [c \in Calcs |-> 0]
  /\ adjusting = FALSE /\ trigger = TRUE
  /\ needsUpdate = TRUE
  /\ rendered = {}

-----------------------------------------------------------------------------
\* ProxySource.add of an unknown endpoint, with on_add_endpoint and the signal:
\* the calculator is made and started, or starting it raises, which is logged.
Add(s, e) ==
  /\ e \notin endpoints[s] /\ made < MaxCalcs
  /\ endpoints' = [endpoints EXCEPT ![s] = @ \cup {e}]
  /\ made' = made + 1
  /\ shareCalcs' = [shareCalcs EXCEPT ![s][e] = made']
  /\ \E pc \in {"waiting"} \cup (IF StartFails THEN {"ended"} ELSE {}) :
       chain' = [chain EXCEPT ![made'] = pc]
  /\ needsUpdate' = TRUE
  /\ UNCHANGED <<stopped, share, adjusting, trigger, rendered>>

\* Mutant: the calculator is started, but not registered when that raises.
AddRaisesLate(s, e) ==
  /\ BuildFails /\ e \notin endpoints[s] /\ made < MaxCalcs
  /\ endpoints' = [endpoints EXCEPT ![s] = @ \cup {e}]
  /\ made' = made + 1 /\ chain' = [chain EXCEPT ![made'] = "waiting"]
  /\ UNCHANGED <<shareCalcs, stopped, share, adjusting, trigger, needsUpdate, rendered>>

\* The same when ShareCalculator.__init__ raises: the endpoint is in the set,
\* the exception goes up to the caller of add, and nothing is signaled.
AddRaises(s, e) ==
  /\ BuildFails /\ e \notin endpoints[s]
  /\ endpoints' = [endpoints EXCEPT ![s] = @ \cup {e}]
  /\ UNCHANGED <<shareCalcs, calcVars, adjusting, trigger, needsUpdate, rendered>>

\* Mutant: the calculator is stopped, but the endpoint stays in the set.
RemoveStopsOnly(s, e) ==
  /\ e \in endpoints[s]
  /\ stopped' = stopped \cup ({shareCalcs[s][e]} \ {NoCalc})
  /\ needsUpdate' = TRUE
  /\ UNCHANGED <<endpoints, shareCalcs, made, chain, share, adjusting, trigger, rendered>>

\* ProxySource.remove of a known endpoint, with on_remove_endpoint and the
\* signal.
Remove(s, e) ==
  /\ e \in endpoints[s]
  /\ endpoints' = [endpoints EXCEPT ![s] = @ \ {e}]
  /\ stopped' = stopped \cup ({shareCalcs[s][e]} \ {NoCalc})
  /\ shareCalcs' = [shareCalcs EXCEPT ![s][e] = NoCalc]
  /\ needsUpdate' = TRUE
  /\ UNCHANGED <<made, chain, share, adjusting, trigger, rendered>>

\* A check of calculator c starts, or its chain ends because c was stopped.
BeginCheck(c) ==
  /\ chain[c] = "waiting"
  /\ chain' = [chain EXCEPT ![c] = IF c \in stopped THEN "ended" ELSE "inFlight"]
  /\ UNCHANGED <<endpoints, shareCalcs, made, stopped, share, adjusting, trigger,
                 needsUpdate, rendered>>

\* Mutant: only the loss of the share is signaled.
EndCheckQuietly(c, new) ==
  /\ chain[c] = "inFlight"
  /\ chain' = [chain EXCEPT ![c] = "waiting"]
  /\ share' = [share EXCEPT ![c] = new]
  /\ needsUpdate' = (needsUpdate \/ new < share[c])
  /\ UNCHANGED <<endpoints, shareCalcs, made, stopped, adjusting, trigger, rendered>>

\* A check ends, stopped or not: a share that changes is signaled.
EndCheck(c, new) ==
  /\ chain[c] = "inFlight"
  /\ chain' = [chain EXCEPT ![c] = "waiting"]
  /\ share' = [share EXCEPT ![c] = new]
  /\ needsUpdate' = (needsUpdate \/ new # share[c])
  /\ UNCHANGED <<endpoints, shareCalcs, made, stopped, adjusting, trigger, rendered>>

\* The weight adjustment start passes; nothing is signaled at that moment.
AdjustmentStarts ==
  /\ ~adjusting /\ adjusting' = TRUE
  /\ UNCHANGED <<endpoints, shareCalcs, calcVars, trigger, needsUpdate, rendered>>

\* Mutant: the signal for the start of the weight adjustment is lost.
TriggerLost ==
  /\ adjusting /\ trigger /\ trigger' = FALSE
  /\ UNCHANGED <<endpoints, shareCalcs, calcVars, adjusting, needsUpdate, rendered>>

\* A second later the signal scheduled by start comes.
Trigger ==
  /\ adjusting /\ trigger /\ trigger' = FALSE
  /\ needsUpdate' = TRUE
  /\ UNCHANGED <<endpoints, shareCalcs, calcVars, adjusting, rendered>>

\* The updater renders the endpoints property; an exception costs the signal.
Render ==
  /\ needsUpdate /\ needsUpdate' = FALSE
  /\ rendered' = IF Readable THEN View ELSE rendered
  /\ UNCHANGED <<endpoints, shareCalcs, calcVars, adjusting, trigger>>

-----------------------------------------------------------------------------
Next ==
  \/ \E s \in Sources, e \in Endpoints : Add(s, e) \/ AddRaises(s, e) \/ Remove(s, e)
  \/ \E c \in Calcs : BeginCheck(c) \/ \E new \in 0 .. Unit : EndCheck(c, new)
  \/ AdjustmentStarts
  \/ Trigger
  \/ Render

Spec == Init /\ [][Next]_vars

\* Timers fire, requests are answered or time out, and the updater runs; the
\* sources are free to add and remove or not to.
FairSpec ==
  /\ Spec
  /\ \A c \in Calcs : WF_vars(BeginCheck(c)) /\ WF_vars(\E new \in 0 .. Unit : EndCheck(c, new))
  /\ WF_vars(AdjustmentStarts) /\ WF_vars(Trigger) /\ WF_vars(Render)

-----------------------------------------------------------------------------
\* Whatever raises on the way, the calculators that were made and not stopped are
\* those of listed endpoints, one for each: none is shared or left running.
NoLeakedCalculator ==
  LET registered == {l \in Listed : CalcOf(l) # NoCalc}
  IN /\ {CalcOf(l) : l \in registered} = (1 .. made) \ stopped
     /\ Cardinality(registered) = Cardinality((1 .. made) \ stopped)

\* The configuration last rendered shows the endpoints with the weights they have
\* now, unless an update is signaled or the signal for the start of the weight
\* adjustment is still to come.
ChangesSignaled == EndpointsReadable /\ rendered # View => needsUpdate \/ trigger

\* The late check of a stopped calculator moves no weight: what moves one is the
\* calculator of a listed endpoint.
LateChecksInvisible ==
  [][\A c \in Calcs :
       EndpointsReadable /\ c \in stopped /\ chain[c] = "inFlight" /\ chain'[c] = "waiting"
         => UNCHANGED View]_vars

\* Within the primary endpoints, as within the overflow endpoints, a higher share
\* never gets a lower weight; and a primary endpoint gets traffic exactly if it
\* claims a share, however little the others claim - unless there are so many
\* endpoints, or so small shares, that the weight is rounded down to none.
WeightsFollowShares ==
  EndpointsReadable =>
    /\ \A k, l \in Listed :
         (k[1] \in Primary <=> l[1] \in Primary) /\ ShareOf(k) <= ShareOf(l)
           => WeightOf(k) <= WeightOf(l)
    /\ \A l \in PrimaryListed :
         /\ ShareOf(l) = 0 => WeightOf(l) = 0
         /\ ShareOf(l) > 0 /\ Unit * Unit * Count <= SIGNIFICANCE => WeightOf(l) > 0

\* As long as no calculator is missing, the configuration catches up with the
\* endpoints and their weights again and again, the start of the weight
\* adjustment included.
ViewRendered == <>[]EndpointsReadable => []<>(EndpointsReadable /\ rendered = View)

\* README: overflow_threshold_pct is the threshold past which traffic is sent to
\* the overflow source.
OverflowUsed ==
  adjusting /\ EndpointsReadable /\ PastThreshold(Claimed, Count)
    => \A l \in Listed \ PrimaryListed : ShareOf(l) > 0 => WeightOf(l) > 0
=============================================================================
