----------------------------- MODULE HealthCheck -----------------------------
(***************************************************************************)
(* HttpHealthCheckShareAdjuster (share/adjusters/health.py): a chain of    *)
(* checks in which each one schedules the next, and the status computed    *)
(* from the latest results.  The chain's greenlet switches while it waits  *)
(* for its timer and while it waits for the HTTP answer, so stop and the   *)
(* reader of the share can run in both places.                             *)
(***************************************************************************)
EXTENDS Naturals, Sequences, FiniteSets

CONSTANTS
  HealthyThreshold,    \* successes before the endpoint is marked healthy
  UnhealthyThreshold,  \* failures before the endpoint is marked unhealthy
  Escapes,             \* whether a check may raise what _check does not catch
  CanStop              \* whether stop may be called

ASSUME HealthCheckAssumption ==
  /\ HealthyThreshold \in Nat /\ UnhealthyThreshold \in Nat
  /\ Escapes \in BOOLEAN /\ CanStop \in BOOLEAN

VARIABLES
  answers,   \* the endpoint answers the check with code 200 now
  chain,     \* where the chain of checks is
  stopped,   \* _stop_event
  results,   \* _check_results, the oldest first
  status,    \* _status
  needsUpdate, \* an update was signaled and not rendered yet
  rendered   \* the share in the last rendered configuration

vars == <<answers, chain, stopped, results, status, needsUpdate, rendered>>

\* The results told apart: those in HEALTHY_RESULTS and in UNHEALTHY_RESULTS.
Result == {"success", "failure"}
Status == {"initializing", "healthy", "unhealthy"}

\* Mutant: the deque of results is as long as one threshold.
MaxResultsShort == HealthyThreshold

MaxResults == HealthyThreshold + UnhealthyThreshold

TypeOK ==
  /\ answers \in BOOLEAN /\ stopped \in BOOLEAN /\ needsUpdate \in BOOLEAN
  /\ chain \in {"new", "waiting", "inFlight", "ended"}
  /\ results \in Seq(Result) /\ Len(results) <= MaxResults
  /\ status \in Status
  /\ rendered \in {0, 1}

\* auditable_share
Share == IF status = "healthy" THEN 1 ELSE 0

Init ==
  /\ answers \in BOOLEAN
  /\ chain = "new" /\ stopped = FALSE
  /\ results = << >> /\ status = "initializing"
  /\ needsUpdate = FALSE /\ rendered = 0

-----------------------------------------------------------------------------
Start ==
  /\ chain = "new" /\ chain' = "waiting"
  /\ UNCHANGED <<answers, stopped, results, status, needsUpdate, rendered>>

Stop ==
  /\ CanStop /\ chain # "new" /\ ~stopped /\ stopped' = TRUE
  /\ UNCHANGED <<answers, chain, results, status, needsUpdate, rendered>>

\* Mutant: the stop event is not looked at.
BeginCheckUnstopped ==
  /\ chain = "waiting" /\ chain' = "inFlight"
  /\ UNCHANGED <<answers, stopped, results, status, needsUpdate, rendered>>

\* The timer fires: _check returns if stopped, else it sends the request.
BeginCheck ==
  /\ chain = "waiting"
  /\ chain' = IF stopped THEN "ended" ELSE "inFlight"
  /\ UNCHANGED <<answers, stopped, results, status, needsUpdate, rendered>>

\* The last n results exist and are all r.  The lookback of a threshold of zero,
\* list[-0:], is the whole list: it has the right length only when it is empty.
LastAre(seq, n, r) ==
  /\ Len(seq) >= n /\ (n = 0 => seq = << >>)
  /\ \A i \in Len(seq) - n + 1 .. Len(seq) : seq[i] = r

\* A deque with maxlen drops its oldest element.
Pushed(r) ==
  LET longer == Append(results, r)
  IN IF Len(longer) > MaxResults THEN Tail(longer) ELSE longer

\* Mutant: only the loss of the share is signaled.
UpdateStatusQuietly(r) ==
  /\ results' = Pushed(r)
  /\ status' = IF LastAre(results', UnhealthyThreshold, "failure") THEN "unhealthy"
               ELSE IF LastAre(results', HealthyThreshold, "success") THEN "healthy"
               ELSE status
  /\ needsUpdate' = (needsUpdate \/ (status' # status /\ status' = "unhealthy"))

\* Mutant: results are counted wherever they are in the deque.
UpdateStatusScattered(r) ==
  LET count(x) == Cardinality({i \in DOMAIN results' : results'[i] = x})
  IN /\ results' = Pushed(r)
     /\ status' = IF count("failure") >= UnhealthyThreshold THEN "unhealthy"
                  ELSE IF count("success") >= HealthyThreshold THEN "healthy"
                  ELSE status
     /\ needsUpdate' = (needsUpdate \/ status' # status)

\* _update_status: failures are looked at last; a change is signaled.
UpdateStatus(r) ==
  /\ results' = Pushed(r)
  /\ status' = IF LastAre(results', UnhealthyThreshold, "failure") THEN "unhealthy"
               ELSE IF LastAre(results', HealthyThreshold, "success") THEN "healthy"
               ELSE status
  /\ needsUpdate' = (needsUpdate \/ status' # status)

\* The answer, or the error that stands for one, comes; the next check is
\* scheduled, stopped or not.
EndCheck ==
  /\ chain = "inFlight" /\ chain' = "waiting"
  /\ UpdateStatus(IF answers THEN "success" ELSE "failure")
  /\ UNCHANGED <<answers, stopped, rendered>>

\* urlopen raises an exception that is no ConnectionError, timeout, HTTPError
\* or URLError, an HTTPException for instance: the greenlet dies.
CheckEscapes ==
  /\ Escapes /\ chain = "inFlight" /\ chain' = "ended"
  /\ UNCHANGED <<answers, stopped, results, status, needsUpdate, rendered>>

\* The endpoint changes.
Flip ==
  /\ answers' = ~answers
  /\ UNCHANGED <<chain, stopped, results, status, needsUpdate, rendered>>

\* The updater renders the share.
Render ==
  /\ needsUpdate /\ needsUpdate' = FALSE /\ rendered' = Share
  /\ UNCHANGED <<answers, chain, stopped, results, status>>

-----------------------------------------------------------------------------
ChainStep == BeginCheck \/ EndCheck \/ CheckEscapes

Next == Start \/ Stop \/ ChainStep \/ Flip \/ Render

Spec == Init /\ [][Next]_vars

\* Timers fire, requests are answered or time out, and the updater runs.
FairSpec == Spec /\ WF_vars(Start) /\ WF_vars(BeginCheck) /\ WF_vars(EndCheck) /\ WF_vars(Render)
-----------------------------------------------------------------------------
\* What is rendered is the share of the moment, unless an update is signaled:
\* no change of status goes unnoticed, and a change back needs no notice.
ShareSignaled == rendered # Share => needsUpdate

\* The deque of the latest results is long enough to see every run of equal
\* results that matters: the check implements the hysteresis it promises.
Run(limit, r) ==
  LET runs == {n \in 0 .. limit : n = 0 \/ LastAre(results, n, r)}
  IN CHOOSE n \in runs : \A m \in runs : m <= n

Hysteresis == INSTANCE HealthHysteresis
                WITH successes <- Run(HealthyThreshold, "success"),
                     failures <- Run(UnhealthyThreshold, "failure")

FollowsHysteresis == Hysteresis!Spec

\* An endpoint that keeps answering is given its share in the end, and one
\* that keeps failing loses it, as long as the check is not stopped and no
\* exception ended it.
ShareFollowsEndpoint ==
  LET checked == ~stopped /\ chain # "ended"
  IN /\ <>[](answers /\ checked) => <>[](rendered = 1)
     /\ <>[](~answers /\ checked) => <>[](rendered = 0)

\* A stopped check comes to rest, whatever was in flight.
StoppedEnds == stopped ~> [](chain = "ended")
=============================================================================
