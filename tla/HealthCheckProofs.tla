------------------------ MODULE HealthCheckProofs ------------------------
(* Theorems about the share adjusters: about HealthCheck, for any          *)
(* thresholds, and about TimedShare, for any delay and ramp.               *)
EXTENDS HealthCheck, TimedShare, TLAPS

\* The deque of results keeps its type and its bound.
LEMMA PushedType ==
  ASSUME TypeOK, NEW r \in Result
  PROVE  Pushed(r) \in Seq(Result) /\ Len(Pushed(r)) <= MaxResults
<1> DEFINE longer == Append(results, r)
<1>1. /\ results \in Seq(Result) /\ Len(results) \in Nat /\ Len(results) <= MaxResults
      /\ MaxResults \in Nat
  BY HealthCheckAssumption DEF TypeOK, MaxResults, HealthCheckAssumption
<1>2. longer \in Seq(Result) /\ Len(longer) = Len(results) + 1 /\ longer # << >>
  BY <1>1
<1>3. Tail(longer) \in Seq(Result) /\ Len(Tail(longer)) = Len(longer) - 1
  BY <1>2
<1>4. Pushed(r) = IF Len(longer) > MaxResults THEN Tail(longer) ELSE longer
  BY DEF Pushed
<1> HIDE DEF longer
<1>5. CASE Len(longer) > MaxResults
  BY <1>1, <1>2, <1>3, <1>4, <1>5
<1>6. CASE ~(Len(longer) > MaxResults)
  <2>1. Len(longer) <= MaxResults
    BY <1>1, <1>2, <1>6
  <2> QED
    BY <1>2, <1>4, <1>6, <2>1
<1> QED
  BY <1>5, <1>6

LEMMA UpdateStatusType ==
  ASSUME TypeOK, NEW r \in Result, UpdateStatus(r)
  PROVE  /\ results' \in Seq(Result) /\ Len(results') <= MaxResults
         /\ status' \in Status /\ needsUpdate' \in BOOLEAN
         /\ status' # status => needsUpdate'
         /\ needsUpdate => needsUpdate'
<1>1. results' = Pushed(r)
  BY DEF UpdateStatus
<1>2. status' \in Status
  BY DEF UpdateStatus, TypeOK, Status
<1>3. needsUpdate' = (needsUpdate \/ status' # status)
  BY DEF UpdateStatus
<1> QED
  BY <1>1, <1>2, <1>3, PushedType

\* The types of HealthCheck; of the deque, that it never outgrows its maxlen.
THEOREM HealthTypeCorrect == Spec => []TypeOK
<1>1. Init => TypeOK
  <2> SUFFICES ASSUME Init PROVE TypeOK
    OBVIOUS
  <2>1. results = << >> /\ Len(results) = 0 /\ MaxResults \in Nat
    BY HealthCheckAssumption DEF Init, MaxResults, HealthCheckAssumption
  <2>2. results \in Seq(Result) /\ Len(results) <= MaxResults
    BY <2>1
  <2> QED
    BY <2>2 DEF Init, TypeOK, Status
<1>2. TypeOK /\ [Next]_vars => TypeOK'
  <2> SUFFICES ASSUME TypeOK, [Next]_vars PROVE TypeOK'
    OBVIOUS
  <2>1. CASE UNCHANGED vars
    BY <2>1 DEF vars, TypeOK, MaxResults
  <2>2. CASE Start \/ Stop \/ BeginCheck \/ CheckEscapes
    BY <2>2 DEF Start, Stop, BeginCheck, CheckEscapes, TypeOK, MaxResults
  <2>3. CASE EndCheck
    <3>1. PICK r \in Result : UpdateStatus(r)
      BY <2>3 DEF EndCheck, Result
    <3>2. UNCHANGED <<answers, stopped, rendered>> /\ chain' = "waiting"
      BY <2>3 DEF EndCheck
    <3> QED
      BY <3>1, <3>2, UpdateStatusType DEF TypeOK, MaxResults
  <2>4. CASE Flip
    BY <2>4 DEF Flip, TypeOK, MaxResults
  <2>5. CASE Render
    BY <2>5 DEF Render, Share, TypeOK, MaxResults
  <2> QED
    BY <2>1, <2>2, <2>3, <2>4, <2>5 DEF Next, ChainStep
<1> QED
  BY <1>1, <1>2, PTL DEF Spec

\* For any thresholds, and however stop, escaping exceptions and the updater
\* interleave with checks in flight: what is rendered is the share of the moment
\* unless an update is signaled.
THEOREM NoShareUnsignaled == Spec => []ShareSignaled
<1>1. Init => ShareSignaled
  BY DEF Init, ShareSignaled, Share
<1>2. TypeOK /\ ShareSignaled /\ [Next]_vars => ShareSignaled'
  <2> SUFFICES ASSUME TypeOK, ShareSignaled, [Next]_vars PROVE ShareSignaled'
    OBVIOUS
  <2>1. CASE UNCHANGED <<status, rendered, needsUpdate>>
    BY <2>1 DEF ShareSignaled, Share
  <2>2. CASE EndCheck
    <3>1. PICK r \in Result : UpdateStatus(r)
      BY <2>2 DEF EndCheck, Result
    <3>2. rendered' = rendered /\ (status' # status => needsUpdate')
            /\ (needsUpdate => needsUpdate')
      BY <2>2, <3>1, UpdateStatusType DEF EndCheck
    <3> QED
      BY <3>2 DEF ShareSignaled, Share
  <2>3. CASE Render
    BY <2>3 DEF Render, ShareSignaled, Share
  <2> QED
    BY <2>1, <2>2, <2>3 DEF Next, ChainStep, Start, Stop, BeginCheck, CheckEscapes, Flip, vars
<1> QED
  BY <1>1, <1>2, HealthTypeCorrect, PTL DEF Spec

-----------------------------------------------------------------------------
(* The deque implements the hysteresis.                                    *)

\* Lengths, up to limit, of runs of r at the end of the deque.
Runs(limit, r) == {n \in 0 .. limit : n = 0 \/ LastAre(results, n, r)}

\* The longest of them.  (That there is one is kept as an invariant.)
IsRun(n, limit, r) == n \in Runs(limit, r) /\ \A m \in Runs(limit, r) : m <= n

\* A threshold of zero never counts a result: LastAre is false of it.
Thresholds == HealthyThreshold > 0 /\ UnhealthyThreshold > 0

\* Every kind of result has a longest run, which is what CHOOSE in Run finds.
RunInv ==
  \A r \in Result, limit \in {HealthyThreshold, UnhealthyThreshold} :
    \E n \in Nat : IsRun(n, limit, r)

LEMMA GreatestChosen ==
  ASSUME NEW S \in SUBSET Nat, NEW n \in S, \A m \in S : m <= n
  PROVE  (CHOOSE x \in S : \A m \in S : m <= x) = n
<1>1. \A x \in S : (\A m \in S : m <= x) => x = n
  OBVIOUS
<1> QED
  BY <1>1

LEMMA RunIs ==
  ASSUME NEW limit \in Nat, NEW r, NEW n
  PROVE  /\ IsRun(n, limit, r) => Run(limit, r) = n
         /\ IsRun(n, limit, r)' => Run(limit, r)' = n
<1>1. Runs(limit, r) \in SUBSET Nat /\ Runs(limit, r)' \in SUBSET Nat
  BY DEF Runs
<1>2. Run(limit, r) = CHOOSE x \in Runs(limit, r) : \A m \in Runs(limit, r) : m <= x
  BY DEF Run, Runs
<1>3. Run(limit, r)' = CHOOSE x \in Runs(limit, r)' : \A m \in Runs(limit, r)' : m <= x
  BY DEF Run, Runs
<1>4. ASSUME IsRun(n, limit, r) PROVE Run(limit, r) = n
  BY <1>1, <1>2, <1>4, GreatestChosen DEF IsRun
<1>5. ASSUME IsRun(n, limit, r)' PROVE Run(limit, r)' = n
  BY <1>1, <1>3, <1>5, GreatestChosen DEF IsRun
<1> QED
  BY <1>4, <1>5

\* A result pushed on the deque is its last, and the others move back by one.
LEMMA PushedElements ==
  ASSUME TypeOK, Thresholds, NEW r \in Result, results' = Pushed(r)
  PROVE  /\ results' \in Seq(Result) /\ Len(results') \in Nat \ {0} /\ Len(results) \in Nat
         /\ results'[Len(results')] = r
         /\ \A k \in 1 .. Len(results') - 1 :
              results'[Len(results') - k] = results[Len(results) + 1 - k]
         /\ \/ Len(results') = Len(results) + 1
            \/ Len(results') = Len(results) /\ Len(results) = MaxResults
<1> DEFINE longer == Append(results, r)
<1>1. /\ results \in Seq(Result) /\ Len(results) \in Nat /\ Len(results) <= MaxResults
      /\ MaxResults \in Nat /\ MaxResults > 0
  BY HealthCheckAssumption DEF TypeOK, MaxResults, HealthCheckAssumption, Thresholds
<1>2. /\ longer \in Seq(Result) /\ Len(longer) = Len(results) + 1
      /\ longer[Len(results) + 1] = r
      /\ \A i \in 1 .. Len(results) : longer[i] = results[i]
  BY <1>1
<1>3. CASE Len(longer) > MaxResults
  <2>1. results' = Tail(longer) /\ Len(results) = MaxResults
    BY <1>1, <1>2, <1>3 DEF Pushed
  <2>2. /\ Tail(longer) \in Seq(Result) /\ Len(Tail(longer)) = Len(results)
        /\ \A i \in 1 .. Len(results) : Tail(longer)[i] = longer[i + 1]
    BY <1>1, <1>2
  <2>3. results'[Len(results)] = longer[Len(results) + 1]
    BY <1>1, <2>1, <2>2
  <2>4. ASSUME NEW k \in 1 .. Len(results) - 1
        PROVE  results'[Len(results) - k] = results[Len(results) + 1 - k]
    <3>1. /\ Len(results) - k \in 1 .. Len(results) /\ Len(results) - k + 1 \in 1 .. Len(results)
          /\ Len(results) - k + 1 = Len(results) + 1 - k
      BY <1>1
    <3> QED
      BY <1>2, <2>1, <2>2, <3>1
  <2>5. results' \in Seq(Result) /\ Len(results') = Len(results)
    BY <2>1, <2>2
  <2>6. Len(results') \in Nat \ {0}
    BY <1>1, <2>1, <2>5
  <2> QED
    BY <1>1, <2>1, <2>3, <2>4, <2>5, <2>6
<1>4. CASE ~(Len(longer) > MaxResults)
  <2>1. results' = longer
    BY <1>4 DEF Pushed
  <2>2. ASSUME NEW k \in 1 .. Len(longer) - 1
        PROVE  results'[Len(longer) - k] = results[Len(results) + 1 - k]
    <3>1. Len(longer) - k \in 1 .. Len(results) /\ Len(longer) - k = Len(results) + 1 - k
      BY <1>1, <1>2
    <3> QED
      BY <1>2, <2>1, <3>1
  <2> QED
    BY <1>1, <1>2, <2>1, <2>2
<1> QED
  BY <1>3, <1>4

\* A run of the new result is one longer than a run before it, up to the length
\* of the deque; there is no run of any other result.
LEMMA LastAreAfter ==
  ASSUME TypeOK, Thresholds, NEW r \in Result, results' = Pushed(r),
         NEW x \in Result, NEW n \in 1 .. MaxResults
  PROVE  LastAre(results', n, x)
           <=> x = r /\ (n = 1 \/ LastAre(results, n - 1, x))
<1> DEFINE old == Len(results)
           new == Len(results')
<1>1. /\ new \in Nat /\ old \in Nat /\ new >= 1 /\ results'[new] = r
      /\ \A k \in 1 .. new - 1 : results'[new - k] = results[old + 1 - k]
      /\ new = old + 1 \/ (new = old /\ old = MaxResults)
      /\ results' # << >>
  BY PushedElements
<1>2. MaxResults \in Nat /\ n \in Nat /\ n >= 1 /\ n <= MaxResults
  BY HealthCheckAssumption DEF MaxResults, HealthCheckAssumption
<1>3. (new >= n) <=> (old >= n - 1)
  BY <1>1, <1>2
<1>4. LastAre(results', n, x) <=> new >= n /\ \A i \in new - n + 1 .. new : results'[i] = x
  BY <1>2 DEF LastAre
<1>5. CASE n = 1
  <2>1. \A i \in new - n + 1 .. new : i = new
    BY <1>1, <1>5
  <2>2. new \in new - n + 1 .. new
    BY <1>1, <1>5
  <2> QED
    BY <1>1, <1>4, <1>5, <2>1, <2>2
<1>6. CASE n > 1
  <2>1. LastAre(results, n - 1, x)
          <=> old >= n - 1 /\ \A i \in old - (n - 1) + 1 .. old : results[i] = x
    BY <1>2, <1>6 DEF LastAre
  <2>2. ASSUME new >= n, \A i \in new - n + 1 .. new : results'[i] = x
        PROVE  x = r /\ \A i \in old - (n - 1) + 1 .. old : results[i] = x
    <3>1. new \in new - n + 1 .. new
      BY <1>1, <1>2
    <3>2. ASSUME NEW i \in old - (n - 1) + 1 .. old PROVE results[i] = x
      <4>1. /\ old + 1 - i \in 1 .. new - 1 /\ old + 1 - (old + 1 - i) = i
            /\ new - (old + 1 - i) \in new - n + 1 .. new
        BY <1>1, <1>2, <2>2
      <4> QED
        BY <1>1, <2>2, <4>1
    <3> QED
      BY <1>1, <2>2, <3>1, <3>2
  <2>3. ASSUME x = r, new >= n, \A i \in old - (n - 1) + 1 .. old : results[i] = x,
               NEW i \in new - n + 1 .. new
        PROVE  results'[i] = x
    <3>1. CASE i = new
      BY <1>1, <2>3, <3>1
    <3>2. CASE i < new
      <4>1. /\ new - i \in 1 .. new - 1 /\ new - (new - i) = i
            /\ old + 1 - (new - i) \in old - (n - 1) + 1 .. old
        BY <1>1, <1>2, <2>3, <3>2
      <4> QED
        BY <1>1, <2>3, <4>1
    <3> QED
      BY <1>1, <3>1, <3>2
  <2> QED
    BY <1>3, <1>4, <1>6, <2>1, <2>2, <2>3
<1> QED
  BY <1>2, <1>5, <1>6

\* How a run is counted.
LEMMA RunAfter ==
  ASSUME TypeOK, Thresholds, NEW r \in Result, results' = Pushed(r), NEW x \in Result,
         NEW limit \in {HealthyThreshold, UnhealthyThreshold},
         NEW n \in Nat, IsRun(n, limit, x)
  PROVE  /\ x = r => IsRun(IF n < limit THEN n + 1 ELSE limit, limit, x)'
         /\ x # r => IsRun(0, limit, x)'
         /\ LastAre(results', limit, x) <=> x = r /\ (n = limit \/ n + 1 = limit)
<1>1. limit \in Nat /\ limit > 0 /\ limit <= MaxResults /\ MaxResults \in Nat
  BY HealthCheckAssumption DEF MaxResults, HealthCheckAssumption, Thresholds
<1>2. \A m \in 1 .. limit : m \in 1 .. MaxResults
  BY <1>1
<1>3. \A m \in 1 .. limit :
        LastAre(results', m, x) <=> x = r /\ (m - 1 = 0 \/ LastAre(results, m - 1, x))
  BY <1>1, <1>2, LastAreAfter
<1>4. Runs(limit, x)' = {m \in 0 .. limit : m = 0 \/ LastAre(results', m, x)}
  BY DEF Runs
<1>5. n \in 0 .. limit /\ (n = 0 \/ LastAre(results, n, x))
        /\ \A m \in 0 .. limit : (m = 0 \/ LastAre(results, m, x)) => m <= n
  BY DEF IsRun, Runs
<1>6. \A m \in 1 .. limit : m - 1 \in 0 .. limit /\ m \in 0 .. limit
  BY <1>1
<1>7. CASE x = r
  <2>1. \A m \in Runs(limit, x)' : m = 0 \/ (m \in 1 .. limit /\ m - 1 <= n)
    BY <1>1, <1>3, <1>4, <1>5, <1>6, <1>7
  <2>2. CASE n < limit
    <3>1. n + 1 \in 1 .. limit /\ n + 1 - 1 = n
      BY <1>1, <2>2
    <3>2. n + 1 \in Runs(limit, x)'
      BY <1>3, <1>4, <1>5, <1>6, <1>7, <3>1
    <3>3. \A m \in Runs(limit, x)' : m <= n + 1
      BY <2>1, <1>1
    <3>4. LastAre(results', limit, x) <=> n + 1 = limit
      <4>1. limit \in 1 .. limit
        BY <1>1
      <4>2. LastAre(results', limit, x) <=> limit - 1 = 0 \/ LastAre(results, limit - 1, x)
        BY <1>3, <1>7, <4>1
      <4>3. limit - 1 \in 0 .. limit
        BY <1>1
      <4> QED
        BY <1>1, <1>5, <2>2, <4>2, <4>3
    <3> QED
      BY <1>7, <2>2, <3>2, <3>3, <3>4 DEF IsRun
  <2>3. CASE ~(n < limit)
    <3>1. n = limit
      BY <1>1, <1>5, <2>3
    <3>2. LastAre(results, limit - 1, x) \/ limit - 1 = 0
      <4>1. Len(results) \in Nat /\ LastAre(results, limit, x)
        BY <1>1, <1>5, <3>1 DEF TypeOK
      <4>2. CASE limit - 1 > 0
        BY <1>1, <4>1, <4>2 DEF LastAre
      <4> QED
        BY <1>1, <4>2
    <3>3. limit \in 1 .. limit /\ limit \in 0 .. limit
      BY <1>1
    <3>4. LastAre(results', limit, x)
      BY <1>3, <1>7, <3>2, <3>3
    <3>5. limit \in Runs(limit, x)' /\ \A m \in Runs(limit, x)' : m <= limit
      BY <1>1, <1>4, <3>3, <3>4
    <3> QED
      BY <1>7, <2>3, <3>1, <3>4, <3>5 DEF IsRun
  <2> QED
    BY <2>2, <2>3
<1>8. CASE x # r
  <2>1. \A m \in 1 .. limit : ~LastAre(results', m, x)
    BY <1>3, <1>8
  <2>2. \A m \in Runs(limit, x)' : m = 0
    BY <1>1, <1>4, <2>1
  <2>3. 0 \in Runs(limit, x)'
    BY <1>1, <1>4
  <2>4. limit \in 1 .. limit
    BY <1>1
  <2> QED
    BY <1>8, <2>1, <2>2, <2>3, <2>4 DEF IsRun
<1> QED
  BY <1>7, <1>8

LEMMA RunInvStep == ASSUME TypeOK, Thresholds, RunInv, [Next]_vars PROVE RunInv'
<1>1. CASE results' = results
  BY <1>1 DEF RunInv, IsRun, Runs
<1>2. CASE EndCheck
  <2>1. PICK r \in Result : UpdateStatus(r)
    BY <1>2 DEF EndCheck, Result
  <2>2. results' = Pushed(r)
    BY <2>1 DEF UpdateStatus
  <2>3. ASSUME NEW x \in Result, NEW limit \in {HealthyThreshold, UnhealthyThreshold}
        PROVE  \E n \in Nat : IsRun(n, limit, x)'
    <3>1. PICK n \in Nat : IsRun(n, limit, x)
      BY DEF RunInv
    <3>2. CASE x = r
      <4>1. IsRun(IF n < limit THEN n + 1 ELSE limit, limit, x)'
        BY <2>2, <3>1, <3>2, RunAfter
      <4>2. (IF n < limit THEN n + 1 ELSE limit) \in Nat
        BY HealthCheckAssumption DEF HealthCheckAssumption
      <4> QED
        BY <4>1, <4>2
    <3>3. CASE x # r
      BY <2>2, <3>1, <3>3, RunAfter
    <3> QED
      BY <3>2, <3>3
  <2> QED
    BY <2>3 DEF RunInv
<1> QED
  BY <1>1, <1>2 DEF Next, ChainStep, Start, Stop, BeginCheck, CheckEscapes, Flip, Render, vars

\* At first there is no run.
LEMMA NoRunYet ==
  ASSUME Init, NEW x \in Result, NEW limit \in {HealthyThreshold, UnhealthyThreshold}
  PROVE  IsRun(0, limit, x)
<1>1. limit \in Nat /\ results = << >> /\ Len(results) = 0
  BY HealthCheckAssumption DEF HealthCheckAssumption, Init
<1>2. \A m \in Runs(limit, x) : m = 0
  BY <1>1 DEF Runs, LastAre
<1>3. 0 \in Runs(limit, x)
  BY <1>1 DEF Runs
<1> QED
  BY <1>2, <1>3 DEF IsRun

LEMMA RunInvInit == ASSUME Init PROVE RunInv
BY NoRunYet DEF RunInv

LEMMA RunStart ==
  ASSUME Init, NEW x \in Result, NEW limit \in {HealthyThreshold, UnhealthyThreshold}
  PROVE  Run(limit, x) = 0
BY NoRunYet, RunIs, HealthCheckAssumption DEF HealthCheckAssumption

\* A check that was answered is a step of the hysteresis, by the same result.
LEMMA HysteresisStep ==
  ASSUME TypeOK, Thresholds, RunInv, RunInv', [Next]_vars
  PROVE  [Hysteresis!Next]_(Hysteresis!hysteresisVars)
<1> DEFINE successes == Run(HealthyThreshold, "success")
           failures == Run(UnhealthyThreshold, "failure")
<1>0. HealthyThreshold \in Nat /\ UnhealthyThreshold \in Nat
  BY HealthCheckAssumption DEF HealthCheckAssumption
<1>1. CASE UNCHANGED <<results, status>>
  <2>1. successes' = successes /\ failures' = failures
    BY <1>1 DEF Run
  <2> QED
    BY <1>1, <2>1 DEF Hysteresis!hysteresisVars
<1>2. CASE EndCheck
  <2>1. PICK r \in Result : UpdateStatus(r)
    BY <1>2 DEF EndCheck, Result
  <2>2. results' = Pushed(r)
    BY <2>1 DEF UpdateStatus
  <2>3. PICK n \in Nat : IsRun(n, HealthyThreshold, "success")
    BY DEF RunInv, Result
  <2>4. PICK m \in Nat : IsRun(m, UnhealthyThreshold, "failure")
    BY DEF RunInv, Result
  <2>5. successes = n /\ failures = m
    BY <1>0, <2>3, <2>4, RunIs
  <2>6. n <= HealthyThreshold /\ m <= UnhealthyThreshold
    BY <1>0, <2>3, <2>4 DEF IsRun, Runs
  <2>7. /\ LastAre(results', HealthyThreshold, "success")
               <=> r = "success" /\ (n = HealthyThreshold \/ n + 1 = HealthyThreshold)
        /\ LastAre(results', UnhealthyThreshold, "failure")
               <=> r = "failure" /\ (m = UnhealthyThreshold \/ m + 1 = UnhealthyThreshold)
    BY <2>2, <2>3, <2>4, RunAfter DEF Result
  <2>8. CASE r = "success"
    <3>1. IsRun(IF n < HealthyThreshold THEN n + 1 ELSE HealthyThreshold,
                HealthyThreshold, "success")'
      BY <2>2, <2>3, <2>8, RunAfter DEF Result
    <3>2. IsRun(0, UnhealthyThreshold, "failure")'
      BY <2>2, <2>4, <2>8, RunAfter DEF Result
    <3>3. successes' = Hysteresis!Counted(successes, HealthyThreshold) /\ failures' = 0
      BY <1>0, <2>5, <3>1, <3>2, RunIs DEF Hysteresis!Counted
    <3>4. status' = IF successes' = HealthyThreshold THEN "healthy" ELSE status
      BY <1>0, <2>1, <2>5, <2>6, <2>7, <2>8, <3>3 DEF UpdateStatus, Hysteresis!Counted
    <3> QED
      BY <3>3, <3>4 DEF Hysteresis!Next, Hysteresis!Success
  <2>9. CASE r = "failure"
    <3>1. IsRun(IF m < UnhealthyThreshold THEN m + 1 ELSE UnhealthyThreshold,
                UnhealthyThreshold, "failure")'
      BY <2>2, <2>4, <2>9, RunAfter DEF Result
    <3>2. IsRun(0, HealthyThreshold, "success")'
      BY <2>2, <2>3, <2>9, RunAfter DEF Result
    <3>3. failures' = Hysteresis!Counted(failures, UnhealthyThreshold) /\ successes' = 0
      BY <1>0, <2>5, <3>1, <3>2, RunIs DEF Hysteresis!Counted
    <3>4. status' = IF failures' = UnhealthyThreshold THEN "unhealthy" ELSE status
      BY <1>0, <2>1, <2>5, <2>6, <2>7, <2>9, <3>3 DEF UpdateStatus, Hysteresis!Counted
    <3> QED
      BY <3>3, <3>4 DEF Hysteresis!Next, Hysteresis!Failure
  <2> QED
    BY <2>8, <2>9 DEF Result
<1> QED
  BY <1>1, <1>2 DEF Next, ChainStep, Start, Stop, BeginCheck, CheckEscapes, Flip, Render, vars

\* For any thresholds above zero: the deque of results, as long as both
\* thresholds together (health.py __init__, _update_status), implements the status
\* with hysteresis that HealthHysteresis describes.
THEOREM HysteresisKept ==
  ASSUME Thresholds PROVE Spec => FollowsHysteresis
<1>1. Init => RunInv /\ Hysteresis!Init
  <2> SUFFICES ASSUME Init PROVE RunInv /\ Hysteresis!Init
    OBVIOUS
  <2>1. RunInv
    BY RunInvInit
  <2>2. \A x \in Result, limit \in {HealthyThreshold, UnhealthyThreshold} : Run(limit, x) = 0
    BY RunStart
  <2> QED
    BY <2>1, <2>2 DEF Hysteresis!Init, Init, Result
<1>2. TypeOK /\ RunInv /\ [Next]_vars => RunInv'
  BY RunInvStep
<1>3. TypeOK /\ RunInv /\ RunInv' /\ [Next]_vars => [Hysteresis!Next]_(Hysteresis!hysteresisVars)
  BY HysteresisStep
<1> QED
  BY <1>1, <1>2, <1>3, HealthTypeCorrect, PTL DEF Spec, FollowsHysteresis, Hysteresis!Spec

-----------------------------------------------------------------------------
(* Theorems about TimedShare, for any delay, ramp and frequency.           *)

\* The numbers of the configuration, and the times computed from them.
LEMMA TimedConstants ==
  ASSUME kind \in Kinds
  PROVE  /\ {Seconds, RampDelay, RampSeconds, Frequency, StartedAt, MaxSetBacks} \subseteq Nat
         /\ kind \in {"delay", "ramp"}
         /\ StartTime \in Nat /\ FullTime \in Nat /\ Horizon \in Nat /\ Whole \in Nat
         /\ FullTime < Horizon
         /\ kind = "ramp" => FullTime = StartTime + RampSeconds
         /\ RampSeconds > 0 /\ kind = "ramp" => Whole = RampSeconds
<1>1. /\ Seconds \in Nat /\ RampDelay \in Nat /\ RampSeconds \in Nat /\ Frequency \in Nat
      /\ StartedAt \in Nat /\ MaxSetBacks \in Nat /\ kind \in {"delay", "ramp"}
  BY TimedShareAssumption DEF TimedShareAssumption
<1>2. Whole \in Nat
  BY <1>1 DEF Whole
<1> QED
  BY <1>1, <1>2 DEF StartTime, FullTime, Horizon, Whole

\* The share is a part of the whole, and all of it once the full time has passed.
LEMMA AuditableShareType ==
  ASSUME TimedTypeOK
  PROVE  /\ AuditableShare \in 0 .. Whole
         /\ wall > FullTime => AuditableShare = Whole
<1>1. wall \in Nat
  BY TimedConstants DEF TimedTypeOK
<1>2. CASE kind = "delay"
  BY <1>1, <1>2, TimedConstants DEF AuditableShare, DelayShare, TimedTypeOK
<1>3. CASE kind = "ramp"
  <2>1. Linear \in 0 .. Whole
    BY <1>1, <1>3, TimedConstants DEF Linear, TimedTypeOK
  <2>2. wall > FullTime => Linear = Whole
    BY <1>1, <1>3, TimedConstants DEF Linear, TimedTypeOK
  <2> QED
    BY <1>3, <2>1, <2>2 DEF AuditableShare
<1> QED
  BY <1>2, <1>3, TimedConstants DEF TimedTypeOK

\* Type correctness, one step per action.
LEMMA TimedTypeInit == ASSUME TimedInit PROVE TimedTypeOK
<1>1. kind \in Kinds
  BY DEF TimedInit
<1>2. timer \in Nat /\ wall \in 0 .. Horizon
  BY <1>1, TimedConstants DEF TimedInit, Later, Horizon
<1>3. shown \in 0 .. Whole /\ setBacks \in 0 .. MaxSetBacks
  BY <1>1, TimedConstants DEF TimedInit
<1> QED
  BY <1>1, <1>2, <1>3 DEF TimedInit, TimedTypeOK

LEMMA TimedTypeStep == ASSUME TimedTypeOK, [TimedNext]_timedVars PROVE TimedTypeOK'
<1>0. kind' = kind /\ Whole' = Whole /\ Horizon' = Horizon
  BY DEF TimedNext, timedVars, Tick, SetBack, StopAdjuster, Update, Signal, RenderShare, Whole,
         Horizon
<1>1. wall' \in 0 .. Horizon /\ timer' \in Nat
  BY TimedConstants
     DEF TimedTypeOK, TimedNext, timedVars, Tick, SetBack, StopAdjuster, Update, Signal,
         RenderShare, Later
<1>2. nextUpdate' \in {"waiting", "ended"} /\ removed' \in BOOLEAN
  BY DEF TimedTypeOK, TimedNext, timedVars, Tick, SetBack, StopAdjuster, Update, Signal, RenderShare
<1>3. signaled' \in BOOLEAN
  BY Zenon
     DEF TimedTypeOK, TimedNext, timedVars, Tick, SetBack, StopAdjuster, Update, Signal, RenderShare
<1>4. shown' \in 0 .. Whole
  BY AuditableShareType
     DEF TimedTypeOK, TimedNext, timedVars, Tick, SetBack, StopAdjuster, Update, Signal, RenderShare
<1>5. setBacks' \in 0 .. MaxSetBacks
  BY TimedConstants
     DEF TimedTypeOK, TimedNext, timedVars, Tick, SetBack, StopAdjuster, Update, Signal, RenderShare
<1>6. misled' \in BOOLEAN
  BY Zenon
     DEF TimedTypeOK, TimedNext, timedVars, Tick, SetBack, StopAdjuster, Update, Signal, RenderShare
<1> QED
  BY <1>0, <1>1, <1>2, <1>3, <1>4, <1>5, <1>6 DEF TimedTypeOK

\* The state of an adjuster that goes by the clock, its timer and what is rendered
\* of its share always have their types (delay.py, ramp.py).
THEOREM TimedTypeCorrect == TimedSpec => []TimedTypeOK
<1>1. TimedInit => TimedTypeOK
  BY TimedTypeInit
<1>2. TimedTypeOK /\ [TimedNext]_timedVars => TimedTypeOK'
  BY TimedTypeStep
<1> QED
  BY <1>1, <1>2, PTL DEF TimedSpec

\* As long as the clock was never set back, what is rendered is at most the share.
ShownReached == setBacks = 0 => shown <= AuditableShare

\* The share grows with the clock.
LEMMA ShareGrows ==
  ASSUME TimedTypeOK, kind' = kind, wall' \in Nat, wall' >= wall
  PROVE  AuditableShare' \in Nat /\ AuditableShare' >= AuditableShare
<1>1. wall \in Nat
  BY TimedConstants DEF TimedTypeOK
<1>2. FullTime' = FullTime /\ StartTime' = StartTime /\ Whole' = Whole
  BY DEF FullTime, StartTime, Whole
<1>3. CASE kind = "delay"
  <2>1. DelayShare' = IF wall' > FullTime THEN Whole ELSE 0
    BY <1>2 DEF DelayShare
  <2>2. AuditableShare = DelayShare /\ AuditableShare' = DelayShare'
    BY <1>3 DEF AuditableShare
  <2> QED
    BY <1>1, <1>3, <2>1, <2>2, TimedConstants DEF DelayShare, TimedTypeOK
<1>4. CASE kind = "ramp"
  <2>1. Linear' = IF StartTime >= wall' THEN 0 ELSE IF FullTime <= wall' THEN Whole
                  ELSE wall' - StartTime
    BY <1>2 DEF Linear
  <2>2. AuditableShare = Linear /\ AuditableShare' = Linear'
    BY <1>4 DEF AuditableShare
  <2> QED
    BY <1>1, <1>4, <2>1, <2>2, TimedConstants DEF Linear, TimedTypeOK
<1> QED
  BY <1>3, <1>4, TimedConstants DEF TimedTypeOK

LEMMA ShownReachedStep ==
  ASSUME TimedTypeOK, ShownReached, [TimedNext]_timedVars
  PROVE  ShownReached'
<1> SUFFICES ASSUME setBacks' = 0 PROVE (shown <= AuditableShare)'
  BY DEF ShownReached
<1>1. setBacks = 0 /\ wall' \in Nat /\ wall' >= wall /\ kind' = kind
  BY TimedConstants
     DEF TimedTypeOK, TimedNext, timedVars, Tick, SetBack, StopAdjuster, Update, Signal, RenderShare
<1>2. AuditableShare' \in Nat /\ AuditableShare' >= AuditableShare
  BY <1>1, ShareGrows
<1>3. AuditableShare \in Nat /\ shown \in Nat
  BY AuditableShareType, TimedConstants DEF TimedTypeOK
<1>4. shown' = shown \/ shown' = AuditableShare
  BY DEF TimedNext, timedVars, Tick, SetBack, StopAdjuster, Update, Signal, RenderShare
<1> QED
  BY <1>1, <1>2, <1>3, <1>4 DEF ShownReached

\* For any delay, ramp and frequency: unless the clock is set back, the rendered
\* share of an endpoint never falls, whenever the updater runs and whoever signals
\* it (ramp.py linear, delay.py auditable_share).
THEOREM ShareNeverFalls == TimedSpec => NeverFalls
<1>1. TimedInit => ShownReached
  <2> SUFFICES ASSUME TimedInit PROVE shown <= AuditableShare
    BY DEF ShownReached
  <2>1. AuditableShare \in 0 .. Whole
    BY TimedTypeInit, AuditableShareType
  <2> QED
    BY <2>1, TimedConstants DEF TimedInit
<1>2. TimedTypeOK /\ ShownReached /\ [TimedNext]_timedVars => ShownReached'
  BY ShownReachedStep
<1>3. TimedTypeOK /\ ShownReached /\ [TimedNext]_timedVars
        => [setBacks = 0 => shown' >= shown]_timedVars
  <2> SUFFICES ASSUME TimedTypeOK, ShownReached, TimedNext, setBacks = 0
               PROVE  shown' >= shown
    OBVIOUS
  <2>1. AuditableShare \in Nat /\ shown \in Nat
    BY AuditableShareType, TimedConstants DEF TimedTypeOK
  <2>2. shown' = shown \/ shown' = AuditableShare
    BY DEF TimedNext, Tick, SetBack, StopAdjuster, Update, Signal, RenderShare
  <2> QED
    BY <2>1, <2>2 DEF ShownReached
<1> QED
  BY <1>1, <1>2, <1>3, TimedTypeCorrect, PTL DEF TimedSpec, NeverFalls

\* The last _update of an endpoint that stays comes when its share is full, and it
\* stays full and is rendered, or is about to be.
RestsOnFull ==
  nextUpdate = "ended" /\ ~removed /\ ~misled
    => AuditableShare = Whole /\ (shown = Whole \/ signaled)

\* Why: a delay's one timer fires only after the delay has passed, and a ramp's
\* chain ends only after its end has.
LastUpdateInv ==
  /\ kind = "delay" /\ nextUpdate = "waiting" /\ ~misled
       => wall + timer > FullTime \/ wall = Horizon
  /\ nextUpdate = "ended" /\ ~removed /\ ~misled
       => wall > FullTime /\ (shown = Whole \/ signaled)

LEMMA LastUpdateStep ==
  ASSUME TimedTypeOK, LastUpdateInv, [TimedNext]_timedVars
  PROVE  LastUpdateInv'
<1>1. /\ wall \in Nat /\ timer \in Nat /\ FullTime \in Nat /\ Horizon \in Nat
      /\ wall <= Horizon /\ FullTime < Horizon /\ kind \in {"delay", "ramp"}
  BY TimedConstants DEF TimedTypeOK
<1>2. kind' = kind /\ FullTime' = FullTime /\ Horizon' = Horizon /\ Whole' = Whole
  BY DEF TimedNext, timedVars, Tick, SetBack, StopAdjuster, Update, Signal, RenderShare, FullTime,
         StartTime, Horizon, Whole
<1>3. CASE Tick
  BY <1>1, <1>2, <1>3 DEF Tick, LastUpdateInv
<1>4. ASSUME NEW time \in 0 .. Horizon, SetBack(time) PROVE LastUpdateInv'
  <2>1. misled' \/ (kind # "delay" /\ nextUpdate' # "ended")
    BY <1>4 DEF SetBack
  <2> QED
    BY <1>2, <2>1 DEF LastUpdateInv
<1>5. CASE StopAdjuster
  BY <1>2, <1>5 DEF StopAdjuster, LastUpdateInv
<1>6. CASE Update
  <2>1. CASE removed
    BY <1>2, <1>6, <2>1 DEF Update, LastUpdateInv
  <2>2. CASE ~removed /\ LastSignal
    <3>1. ~misled => wall > FullTime
      BY <1>1, <1>6, <2>2 DEF Update, LastSignal, LastUpdateInv
    <3> QED
      BY <1>2, <1>6, <2>2, <3>1 DEF Update, LastUpdateInv
  <2>3. CASE ~removed /\ ~LastSignal
    BY <1>2, <1>6, <2>3 DEF Update, LastSignal, LastUpdateInv
  <2> QED
    BY <2>1, <2>2, <2>3
<1>7. CASE Signal
  BY <1>2, <1>7 DEF Signal, LastUpdateInv
<1>8. CASE RenderShare
  <2>1. wall > FullTime /\ ~removed => shown' = Whole
    BY <1>8, AuditableShareType DEF RenderShare
  <2> QED
    BY <1>2, <1>8, <2>1 DEF RenderShare, LastUpdateInv
<1>9. CASE UNCHANGED timedVars
  BY <1>2, <1>9 DEF timedVars, LastUpdateInv
<1> QED
  BY <1>3, <1>4, <1>5, <1>6, <1>7, <1>8, <1>9 DEF TimedNext

\* For any delay, ramp and frequency: when an adjuster has called _update for the
\* last time, the share of the endpoint is full, and the full share is rendered or
\* an update is signaled - the safety half of FullInTheEnd (ramp.py _update,
\* delay.py _update).
THEOREM LastSignalIsFull == TimedSpec => []RestsOnFull
<1>1. TimedInit => LastUpdateInv
  <2> SUFFICES ASSUME TimedInit PROVE LastUpdateInv
    OBVIOUS
  <2>1. kind = "delay" => wall + timer > FullTime
    BY TimedConstants DEF TimedInit, Later, FullTime
  <2> QED
    BY <2>1 DEF TimedInit, LastUpdateInv
<1>2. TimedTypeOK /\ LastUpdateInv /\ [TimedNext]_timedVars => LastUpdateInv'
  BY LastUpdateStep
<1>3. TimedTypeOK /\ LastUpdateInv => RestsOnFull
  BY AuditableShareType DEF LastUpdateInv, RestsOnFull
<1> QED
  BY <1>1, <1>2, <1>3, TimedTypeCorrect, PTL DEF TimedSpec
=============================================================================
