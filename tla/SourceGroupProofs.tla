------------------------- MODULE SourceGroupProofs -------------------------
(* Theorems about SourceGroup, for any sources, endpoints, units of shares *)
(* and number of calculators.                                              *)
EXTENDS SourceGroup, FiniteSetTheorems, TLAPS

CheckStep(c) == BeginCheck(c) \/ \E new \in 0 .. Unit : EndCheck(c, new)

-----------------------------------------------------------------------------
(* Type correctness, one step per action.                                  *)

LEMMA InitType == ASSUME Init PROVE TypeOK
<1>1. 0 \in 0 .. Unit /\ 0 \in 0 .. MaxCalcs
  BY SourceGroupAssumption, WeightsAssumption DEF SourceGroupAssumption, WeightsAssumption
<1>2. endpoints \in [Sources -> SUBSET Endpoints]
  BY DEF Init
<1>3. shareCalcs \in [Sources -> [Endpoints -> Calcs \cup {NoCalc}]]
  BY DEF Init
<1>4. /\ chain \in [Calcs -> {"new", "waiting", "inFlight", "ended"}]
      /\ share \in [Calcs -> 0 .. Unit]
  BY <1>1 DEF Init
<1> QED
  BY <1>1, <1>2, <1>3, <1>4 DEF Init, TypeOK

LEMMA AddType ==
  ASSUME TypeOK, NEW s \in Sources, NEW e \in Endpoints, Add(s, e)
  PROVE  TypeOK' /\ made + 1 \in Calcs /\ made' = made + 1
<1>1. made + 1 \in Calcs /\ made' = made + 1 /\ made' \in 0 .. MaxCalcs
  BY SourceGroupAssumption DEF Add, TypeOK, Calcs, SourceGroupAssumption
<1>2. shareCalcs' \in [Sources -> [Endpoints -> Calcs \cup {NoCalc}]]
  BY <1>1 DEF Add, TypeOK
<1>3. chain' \in [Calcs -> {"new", "waiting", "inFlight", "ended"}]
  BY <1>1 DEF Add, TypeOK
<1>4. endpoints' \in [Sources -> SUBSET Endpoints]
  BY DEF Add, TypeOK
<1> QED
  BY <1>1, <1>2, <1>3, <1>4 DEF Add, TypeOK

LEMMA RemoveType ==
  ASSUME TypeOK, NEW s \in Sources, NEW e \in Endpoints, Remove(s, e) PROVE TypeOK'
<1>1. shareCalcs' \in [Sources -> [Endpoints -> Calcs \cup {NoCalc}]]
  BY DEF Remove, TypeOK
<1>2. endpoints' \in [Sources -> SUBSET Endpoints] /\ stopped' \in SUBSET Calcs
  BY DEF Remove, TypeOK
<1> QED
  BY <1>1, <1>2 DEF Remove, TypeOK

LEMMA CheckType == ASSUME TypeOK, NEW c \in Calcs, CheckStep(c) PROVE TypeOK'
<1>1. chain' \in [Calcs -> {"new", "waiting", "inFlight", "ended"}]
  BY DEF CheckStep, BeginCheck, EndCheck, TypeOK
<1>2. share' \in [Calcs -> 0 .. Unit]
  BY DEF CheckStep, BeginCheck, EndCheck, TypeOK
<1>3. needsUpdate' \in BOOLEAN
  BY DEF CheckStep, BeginCheck, EndCheck, TypeOK
<1> QED
  BY <1>1, <1>2, <1>3 DEF CheckStep, BeginCheck, EndCheck, TypeOK

LEMMA StepType == ASSUME TypeOK, [Next]_vars PROVE TypeOK'
<1>1. CASE UNCHANGED vars
  BY <1>1 DEF vars, calcVars, TypeOK
<1>2. ASSUME NEW s \in Sources, NEW e \in Endpoints, AddRaises(s, e) PROVE TypeOK'
  BY <1>2 DEF AddRaises, calcVars, TypeOK
<1>3. CASE AdjustmentStarts \/ Trigger \/ Render
  BY <1>3 DEF AdjustmentStarts, Trigger, Render, calcVars, TypeOK
<1> QED
  BY <1>1, <1>2, <1>3, AddType, RemoveType, CheckType DEF Next, CheckStep

\* The types of SourceGroup.
THEOREM GroupTypeCorrect == Spec => []TypeOK
BY InitType, StepType, PTL DEF Spec

-----------------------------------------------------------------------------
(* The calculators that are not stopped and the endpoints that have one    *)
(* match one to one.                                                       *)

Live == (1 .. made) \ stopped

CalcInv ==
  /\ stopped \subseteq 1 .. made
  /\ \A s \in Sources, e \in Endpoints :
       shareCalcs[s][e] # NoCalc => e \in endpoints[s] /\ shareCalcs[s][e] \in Live
  /\ \A c \in Live : \E s \in Sources, e \in Endpoints : shareCalcs[s][e] = c
  /\ \A s, t \in Sources, e, f \in Endpoints :
       shareCalcs[s][e] # NoCalc /\ shareCalcs[s][e] = shareCalcs[t][f] => s = t /\ e = f

LEMMA CalcInvInit == ASSUME Init PROVE CalcInv
BY DEF Init, CalcInv, Live

LEMMA CalcInvAdd ==
  ASSUME TypeOK, CalcInv, NEW s \in Sources, NEW e \in Endpoints, Add(s, e) PROVE CalcInv'
<1>1. /\ made \in Nat /\ made' = made + 1 /\ stopped' = stopped
      /\ stopped \subseteq 1 .. made /\ NoCalc \notin Nat
      /\ e \notin endpoints[s] /\ shareCalcs[s][e] = NoCalc
  BY SourceGroupAssumption DEF Add, TypeOK, CalcInv, SourceGroupAssumption
<1>2. Live' = Live \cup {made + 1} /\ made + 1 \notin Live /\ made + 1 # NoCalc /\ NoCalc \notin Live
  BY <1>1 DEF Live
<1>3. shareCalcs'[s][e] = made + 1 /\ e \in endpoints'[s]
  BY <1>1 DEF Add, TypeOK
<1>4. \A t \in Sources, f \in Endpoints :
        (t # s \/ f # e) => shareCalcs'[t][f] = shareCalcs[t][f]
  BY DEF Add, TypeOK
<1>5. \A t \in Sources : endpoints[t] \subseteq endpoints'[t]
  BY DEF Add, TypeOK
<1>6. stopped' \subseteq 1 .. made'
  BY <1>1
<1>7. \A t \in Sources, f \in Endpoints :
        shareCalcs'[t][f] # NoCalc => f \in endpoints'[t] /\ shareCalcs'[t][f] \in Live'
  BY <1>2, <1>3, <1>4, <1>5 DEF CalcInv
<1>8. \A c \in Live' : \E t \in Sources, f \in Endpoints : shareCalcs'[t][f] = c
  <2> SUFFICES ASSUME NEW c \in Live' PROVE \E t \in Sources, f \in Endpoints : shareCalcs'[t][f] = c
    OBVIOUS
  <2>1. CASE c = made + 1
    BY <1>3, <2>1
  <2>2. CASE c \in Live
    <3>1. PICK t \in Sources, f \in Endpoints : shareCalcs[t][f] = c
      BY <2>2 DEF CalcInv
    <3>2. t # s \/ f # e
      BY <1>1, <1>2, <2>2, <3>1
    <3> QED
      BY <1>4, <3>1, <3>2
  <2> QED
    BY <1>2, <2>1, <2>2
<1>9. ASSUME NEW t \in Sources, NEW u \in Sources, NEW f \in Endpoints, NEW g \in Endpoints,
             shareCalcs'[t][f] # NoCalc, shareCalcs'[t][f] = shareCalcs'[u][g]
      PROVE  t = u /\ f = g
  <2>1. ASSUME NEW x \in Sources, NEW y \in Endpoints, x # s \/ y # e
        PROVE  shareCalcs'[x][y] = shareCalcs[x][y] /\ shareCalcs[x][y] # made + 1
    BY <1>2, <1>4, <2>1 DEF CalcInv
  <2>2. CASE (t = s /\ f = e) \/ (u = s /\ g = e)
    BY <1>3, <1>9, <2>1, <2>2
  <2>3. CASE (t # s \/ f # e) /\ (u # s \/ g # e)
    BY <1>9, <2>1, <2>3 DEF CalcInv
  <2> QED
    BY <2>2, <2>3
<1> QED
  BY <1>6, <1>7, <1>8, <1>9 DEF CalcInv

LEMMA CalcInvRemove ==
  ASSUME TypeOK, CalcInv, NEW s \in Sources, NEW e \in Endpoints, Remove(s, e) PROVE CalcInv'
<1> DEFINE old == shareCalcs[s][e]
<1>1. /\ made' = made /\ stopped' = stopped \cup ({old} \ {NoCalc})
      /\ NoCalc \notin Live
  BY SourceGroupAssumption DEF Remove, Live, TypeOK, SourceGroupAssumption
<1>2. old = NoCalc \/ old \in Live
  BY DEF CalcInv
<1>3. Live' = Live \ {old}
  BY <1>1 DEF Live
<1>4. shareCalcs'[s][e] = NoCalc
  BY DEF Remove, TypeOK
<1>5. \A t \in Sources, f \in Endpoints :
        (t # s \/ f # e) => shareCalcs'[t][f] = shareCalcs[t][f]
  BY DEF Remove, TypeOK
<1>6. \A t \in Sources, f \in Endpoints :
        (t # s \/ f # e) => (f \in endpoints'[t] <=> f \in endpoints[t])
  BY DEF Remove, TypeOK
<1> HIDE DEF old
<1>7. stopped' \subseteq 1 .. made'
  BY <1>1, <1>2 DEF CalcInv, Live
<1>8. ASSUME NEW t \in Sources, NEW f \in Endpoints, shareCalcs'[t][f] # NoCalc
      PROVE  f \in endpoints'[t] /\ shareCalcs'[t][f] \in Live'
  <2>1. (t # s \/ f # e) /\ shareCalcs'[t][f] = shareCalcs[t][f]
    BY <1>4, <1>5, <1>8
  <2>2. f \in endpoints'[t] /\ shareCalcs[t][f] \in Live
    BY <1>6, <1>8, <2>1 DEF CalcInv
  <2>3. shareCalcs[t][f] # old
    BY <1>8, <2>1 DEF CalcInv, old
  <2> QED
    BY <1>3, <2>1, <2>2, <2>3
<1>9. ASSUME NEW c \in Live' PROVE \E t \in Sources, f \in Endpoints : shareCalcs'[t][f] = c
  <2>1. c \in Live /\ c # old
    BY <1>3, <1>9
  <2>2. PICK t \in Sources, f \in Endpoints : shareCalcs[t][f] = c
    BY <2>1 DEF CalcInv
  <2>3. t # s \/ f # e
    BY <2>1, <2>2 DEF old
  <2> QED
    BY <1>5, <2>2, <2>3
<1>10. ASSUME NEW t \in Sources, NEW u \in Sources, NEW f \in Endpoints, NEW g \in Endpoints,
              shareCalcs'[t][f] # NoCalc, shareCalcs'[t][f] = shareCalcs'[u][g]
       PROVE  t = u /\ f = g
  <2>1. (t # s \/ f # e) /\ (u # s \/ g # e)
    BY <1>4, <1>10
  <2> QED
    BY <1>5, <1>10, <2>1 DEF CalcInv
<1> QED
  BY <1>7, <1>8, <1>9, <1>10 DEF CalcInv

LEMMA CalcInvStep == ASSUME TypeOK, CalcInv, [Next]_vars PROVE CalcInv'
<1>1. CASE UNCHANGED <<endpoints, shareCalcs, made, stopped>>
  BY <1>1 DEF CalcInv, Live
<1>2. ASSUME NEW s \in Sources, NEW e \in Endpoints, AddRaises(s, e) PROVE CalcInv'
  <2>1. UNCHANGED <<shareCalcs, made, stopped>> /\ \A t \in Sources : endpoints[t] \subseteq endpoints'[t]
    BY <1>2 DEF AddRaises, calcVars, TypeOK
  <2> QED
    BY <2>1 DEF CalcInv, Live
<1>3. ASSUME NEW c \in Calcs, CheckStep(c) PROVE CalcInv'
  BY <1>1, <1>3 DEF CheckStep, BeginCheck, EndCheck
<1>4. CASE AdjustmentStarts \/ Trigger \/ Render \/ UNCHANGED vars
  BY <1>1, <1>4 DEF AdjustmentStarts, Trigger, Render, calcVars, vars
<1> QED
  BY <1>2, <1>3, <1>4, CalcInvAdd, CalcInvRemove DEF Next, CheckStep

\* A one-to-one match makes equal numbers.
LEMMA CalcInvImplies == ASSUME TypeOK, CalcInv PROVE NoLeakedCalculator
<1> DEFINE registered == {l \in Listed : CalcOf(l) # NoCalc}
           calc == [l \in registered |-> CalcOf(l)]
<1>1. \A l \in registered : l[1] \in Sources /\ l[2] \in Endpoints /\ l = <<l[1], l[2]>>
  BY DEF Listed
<1>2. \A l \in registered : CalcOf(l) \in Live
  BY <1>1 DEF CalcInv, CalcOf
<1>3. ASSUME NEW c \in Live PROVE \E l \in registered : CalcOf(l) = c
  <2>1. PICK s \in Sources, e \in Endpoints : shareCalcs[s][e] = c
    BY DEF CalcInv
  <2>2. c # NoCalc
    BY SourceGroupAssumption DEF SourceGroupAssumption, Live, TypeOK
  <2>3. e \in endpoints[s]
    BY <2>1, <2>2 DEF CalcInv
  <2>4. <<s, e>> \in registered /\ CalcOf(<<s, e>>) = c
    BY <2>1, <2>2, <2>3 DEF Listed, CalcOf
  <2> QED
    BY <2>4
<1>4. \A k, l \in registered : CalcOf(k) = CalcOf(l) => k = l
  BY <1>1 DEF CalcInv, CalcOf
<1>5. IsFiniteSet(Live)
  <2>1. made \in Nat /\ 1 \in Int
    BY DEF TypeOK
  <2> QED
    <3>1. IsFiniteSet(1 .. made)
      BY <2>1, FS_Interval
    <3> QED
      BY <3>1, FS_Difference DEF Live
<1>6. calc \in Bijection(registered, Live)
  BY <1>2, <1>3, <1>4 DEF Bijection, Injection, Surjection, IsInjective
<1>7. Cardinality(registered) = Cardinality(Live)
  BY <1>5, <1>6, FS_Injection DEF Bijection
<1>8. {CalcOf(l) : l \in registered} = Live
  BY <1>2, <1>3
<1> QED
  BY <1>7, <1>8 DEF NoLeakedCalculator, Live

\* For any sources and endpoints, and whatever raises when calculators are made and
\* started: those made and not stopped are those of listed endpoints, one for each.
THEOREM NoneLeaked == Spec => []NoLeakedCalculator
BY CalcInvInit, CalcInvStep, CalcInvImplies, GroupTypeCorrect, PTL DEF Spec
-----------------------------------------------------------------------------
(* What is rendered.                                                       *)

\* What the endpoints property reads.
LEMMA ViewFrame ==
  ASSUME UNCHANGED <<endpoints, shareCalcs, share, adjusting>> PROVE View' = View
BY DEF View, Unadjusted, Adjusted, Listed, WeightOf, Claimed, Count, PrimaryListed, ShareOf,
       CalcOf

LEMMA ReadableFrame ==
  ASSUME UNCHANGED <<endpoints, shareCalcs>> PROVE EndpointsReadable' = EndpointsReadable
BY DEF EndpointsReadable, Listed, CalcOf

\* The signal for the start of the weight adjustment is there until that start.
SignaledInv == ChangesSignaled /\ (~adjusting => trigger)

LEMMA SignaledInvStep ==
  ASSUME TypeOK, CalcInv, SignaledInv, [Next]_vars PROVE SignaledInv'
<1>0. needsUpdate \in BOOLEAN /\ trigger \in BOOLEAN /\ adjusting \in BOOLEAN
  BY DEF TypeOK
<1>1. CASE UNCHANGED <<endpoints, shareCalcs, share, adjusting, trigger, rendered>>
           /\ (needsUpdate => needsUpdate')
  BY <1>1, ViewFrame, ReadableFrame DEF SignaledInv, ChangesSignaled
<1>2. CASE needsUpdate' /\ (~adjusting' => trigger')
  BY <1>2 DEF SignaledInv, ChangesSignaled
<1>3. ASSUME NEW s \in Sources, NEW e \in Endpoints, Add(s, e) \/ Remove(s, e) PROVE SignaledInv'
  <2>1. needsUpdate' /\ UNCHANGED <<adjusting, trigger>>
    BY <1>3 DEF Add, Remove
  <2> QED
    BY <1>2, <2>1 DEF SignaledInv
<1>4. ASSUME NEW s \in Sources, NEW e \in Endpoints, AddRaises(s, e) PROVE SignaledInv'
  <2>1. e \in endpoints'[s] /\ e \notin endpoints[s] /\ UNCHANGED <<shareCalcs, adjusting, trigger>>
    BY <1>4 DEF AddRaises, TypeOK
  <2>2. <<s, e>> \in Listed' /\ shareCalcs'[s][e] = NoCalc
    BY <2>1 DEF Listed, CalcInv
  <2>3. ~EndpointsReadable'
    BY <2>2 DEF EndpointsReadable, CalcOf
  <2> QED
    BY <2>1, <2>3 DEF SignaledInv, ChangesSignaled
<1>5. ASSUME NEW c \in Calcs, BeginCheck(c) PROVE SignaledInv'
  BY <1>1, <1>5 DEF BeginCheck
<1>6. ASSUME NEW c \in Calcs, NEW new \in 0 .. Unit, EndCheck(c, new) PROVE SignaledInv'
  <2>1. CASE new = share[c]
    <3>1. share' = share
      BY <1>6, <2>1 DEF EndCheck, TypeOK
    <3> QED
      BY <1>1, <1>6, <3>1 DEF EndCheck
  <2>2. CASE new # share[c]
    BY <1>2, <1>6, <2>2 DEF EndCheck, SignaledInv
  <2> QED
    BY <2>1, <2>2
<1>7. CASE AdjustmentStarts
  BY <1>7 DEF AdjustmentStarts, SignaledInv, ChangesSignaled
<1>8. CASE Trigger
  BY <1>2, <1>8 DEF Trigger
<1>9. CASE Render
  <2>1. UNCHANGED <<endpoints, shareCalcs, share, adjusting, trigger>>
          /\ rendered' = IF Readable THEN View ELSE rendered
    BY <1>9 DEF Render, calcVars
  <2>2. View' = View /\ (EndpointsReadable' => Readable)
    BY <2>1, ViewFrame, ReadableFrame DEF Readable
  <2> QED
    BY <2>1, <2>2 DEF SignaledInv, ChangesSignaled
<1>10. CASE UNCHANGED vars
  BY <1>1, <1>10 DEF vars, calcVars
<1> QED
  BY <1>3, <1>4, <1>5, <1>6, <1>7, <1>8, <1>9, <1>10 DEF Next

\* For any sources, endpoints and units of shares: as long as no calculator is missing,
\* what is rendered is what the manager reports, or an update is signaled, or the signal
\* for the start of the weight adjustment is still to come.
THEOREM NoChangeUnsignaled == Spec => []ChangesSignaled
<1>1. Init => SignaledInv
  BY DEF Init, SignaledInv, ChangesSignaled
<1>2. TypeOK /\ CalcInv /\ SignaledInv /\ [Next]_vars => SignaledInv'
  BY SignaledInvStep
<1>3. SignaledInv => ChangesSignaled
  BY DEF SignaledInv
<1> QED
  BY <1>1, <1>2, <1>3, CalcInvInit, CalcInvStep, GroupTypeCorrect, PTL DEF Spec

-----------------------------------------------------------------------------
(* LateChecksInvisible: what is listed does not read the share of a        *)
(* stopped calculator.                                                     *)

\* Only the checks of calculators that were made can be in flight.
CheckedInv == \A c \in Calcs : c > made => chain[c] = "new"

LEMMA CheckedInvStep == ASSUME TypeOK, CheckedInv, [Next]_vars PROVE CheckedInv'
<1>0. made \in Nat /\ Calcs \subseteq Nat
  BY DEF TypeOK, Calcs
<1>1. CASE UNCHANGED <<made, chain>>
  BY <1>1 DEF CheckedInv
<1>2. ASSUME NEW s \in Sources, NEW e \in Endpoints, Add(s, e) PROVE CheckedInv'
  <2>1. made' = made + 1 /\ \A c \in Calcs : c # made + 1 => chain'[c] = chain[c]
    BY <1>2 DEF Add, TypeOK
  <2> QED
    BY <1>0, <2>1 DEF CheckedInv
<1>3. ASSUME NEW c \in Calcs, CheckStep(c) PROVE CheckedInv'
  <2>1. made' = made /\ chain[c] # "new" /\ \A d \in Calcs : d # c => chain'[d] = chain[d]
    BY <1>3 DEF CheckStep, BeginCheck, EndCheck, TypeOK
  <2> QED
    BY <2>1 DEF CheckedInv
<1>4. ASSUME NEW s \in Sources, NEW e \in Endpoints, AddRaises(s, e) \/ Remove(s, e)
      PROVE  CheckedInv'
  BY <1>1, <1>4 DEF AddRaises, Remove, calcVars
<1>5. CASE AdjustmentStarts \/ Trigger \/ Render \/ UNCHANGED vars
  BY <1>1, <1>5 DEF AdjustmentStarts, Trigger, Render, calcVars, vars
<1> QED
  BY <1>2, <1>3, <1>4, <1>5 DEF Next, CheckStep

\* A share nothing that is listed claims moves no weight.
LEMMA UnclaimedShare ==
  ASSUME TypeOK, CalcInv, NEW c \in stopped, EndpointsReadable,
         UNCHANGED <<endpoints, shareCalcs, adjusting>>,
         \A d \in Calcs : d # c => share'[d] = share[d]
  PROVE  View' = View
<1>1. ASSUME NEW l \in Listed PROVE CalcOf(l) \in Calcs /\ CalcOf(l) # c
  <2>1. l[1] \in Sources /\ l[2] \in Endpoints /\ CalcOf(l) # NoCalc
    BY DEF Listed, EndpointsReadable
  <2> QED
    BY <2>1 DEF CalcOf, CalcInv, Live, TypeOK
<1>2. Listed' = Listed /\ PrimaryListed' = PrimaryListed /\ Count' = Count
  BY DEF Listed, PrimaryListed, Count
<1>3. \A l \in Listed : ShareOf(l)' = ShareOf(l)
  BY <1>1 DEF ShareOf, CalcOf
<1>4. PrimaryListed \subseteq Listed
  BY DEF PrimaryListed
<1>5. Claimed' = Claimed
  <2>1. [l \in PrimaryListed |-> ShareOf(l)]' = [l \in PrimaryListed |-> ShareOf(l)]
    BY <1>2, <1>3, <1>4
  <2> QED
    BY <2>1 DEF Claimed
<1>6. \A l \in Listed : WeightOf(l)' = WeightOf(l)
  BY <1>2, <1>3, <1>5 DEF WeightOf
<1>7. Adjusted' = Adjusted
  BY <1>2, <1>6 DEF Adjusted
<1>8. Unadjusted' = Unadjusted
  BY <1>2 DEF Unadjusted
<1> QED
  BY <1>7, <1>8 DEF View

LEMMA LateCheckStep ==
  ASSUME TypeOK, CalcInv, CheckedInv, [Next]_vars,
         NEW c \in Calcs, EndpointsReadable, c \in stopped,
         chain[c] = "inFlight", chain'[c] = "waiting"
  PROVE  View' = View
<1>1. chain'[c] # chain[c] /\ chain \in [Calcs -> {"new", "waiting", "inFlight", "ended"}]
  BY DEF TypeOK
<1>2. ASSUME NEW s \in Sources, NEW e \in Endpoints, Add(s, e) PROVE FALSE
  <2>1. c # made + 1
    BY DEF CalcInv, TypeOK
  <2> QED
    BY <1>1, <1>2, <2>1 DEF Add
<1>3. ASSUME NEW d \in Calcs, BeginCheck(d) PROVE FALSE
  BY <1>1, <1>3 DEF BeginCheck
<1>4. ASSUME NEW d \in Calcs, NEW new \in 0 .. Unit, EndCheck(d, new) PROVE View' = View
  <2>1. d = c
    BY <1>1, <1>4 DEF EndCheck
  <2>2. \A k \in Calcs : k # c => share'[k] = share[k]
    BY <1>4, <2>1 DEF EndCheck, TypeOK
  <2> QED
    BY <1>4, <2>2, UnclaimedShare DEF EndCheck
<1>5. ASSUME NEW s \in Sources, NEW e \in Endpoints, AddRaises(s, e) \/ Remove(s, e) PROVE FALSE
  BY <1>1, <1>5 DEF AddRaises, Remove, calcVars
<1>6. CASE AdjustmentStarts \/ Trigger \/ Render \/ UNCHANGED vars
  BY <1>1, <1>6 DEF AdjustmentStarts, Trigger, Render, calcVars, vars
<1> QED
  BY <1>2, <1>3, <1>4, <1>5, <1>6 DEF Next

\* For any sources, endpoints and units of shares: the check of a calculator that ends
\* after the calculator was stopped changes nothing of what is rendered.
THEOREM LateChecksUnseen == Spec => LateChecksInvisible
<1>1. Init => CheckedInv
  BY DEF Init, CheckedInv
<1>2. TypeOK /\ CheckedInv /\ [Next]_vars => CheckedInv'
  BY CheckedInvStep
<1>3. TypeOK /\ CalcInv /\ CheckedInv /\ [Next]_vars
        => [\A c \in Calcs :
              EndpointsReadable /\ c \in stopped /\ chain[c] = "inFlight" /\ chain'[c] = "waiting"
                => UNCHANGED View]_vars
  BY LateCheckStep
<1> QED
  BY <1>1, <1>2, <1>3, CalcInvInit, CalcInvStep, GroupTypeCorrect, PTL
     DEF Spec, LateChecksInvisible

-----------------------------------------------------------------------------
(* The sum of the values of a finite function, by induction.               *)

\* Every set of natural numbers that is not empty has a least element.
LEMMA LeastNat ==
  ASSUME NEW T \in SUBSET Nat, T # {}
  PROVE  \E n \in T : \A m \in T : n <= m
<1> DEFINE U == {1 .. n : n \in T}
<1>1. U \subseteq FiniteSubsetsOf(Nat) /\ U # {}
  <2>1. ASSUME NEW n \in T PROVE 1 .. n \in FiniteSubsetsOf(Nat)
    <3>1. n \in Int /\ 1 \in Int /\ 1 .. n \in SUBSET Nat
      OBVIOUS
    <3>2. IsFiniteSet(1 .. n)
      BY <3>1, FS_Interval
    <3> QED
      BY <3>1, <3>2 DEF FiniteSubsetsOf
  <2> QED
    BY <2>1
<1>2. PICK u \in U : \A v \in U : ~(<<v, u>> \in StrictSubsetOrdering(Nat))
  <2> HIDE DEF U
  <2> QED
    BY <1>1, FS_StrictSubsetOrderingWellFounded, WFMin
<1>3. PICK n \in T : u = 1 .. n
  BY <1>2
<1>4. ASSUME NEW m \in T PROVE n <= m
  <2> SUFFICES ASSUME m < n PROVE FALSE
    OBVIOUS
  <2>1. 1 .. m \in U /\ 1 .. m \subseteq 1 .. n /\ n \in 1 .. n /\ n \notin 1 .. m
    OBVIOUS
  <2>2. 1 .. m \subseteq Nat /\ 1 .. n \subseteq Nat
    OBVIOUS
  <2> QED
    BY <1>2, <1>3, <2>1, <2>2 DEF StrictSubsetOrdering
<1> QED
  BY <1>4

\* Induction over the natural numbers, for a set.
LEMMA NatSetInduction ==
  ASSUME NEW T, 0 \in T, \A n \in Nat : n \in T => n + 1 \in T
  PROVE  Nat \subseteq T
<1> SUFFICES ASSUME Nat \ T # {} PROVE FALSE
  OBVIOUS
<1>1. PICK n \in Nat \ T : \A m \in Nat \ T : n <= m
  BY LeastNat
<1>2. n # 0 /\ n - 1 \in Nat /\ ~(n <= n - 1)
  BY <1>1
<1>3. n - 1 \in T
  BY <1>1, <1>2
<1> QED
  BY <1>1, <1>2, <1>3

Pick(s) == CHOOSE x \in s : TRUE

\* What the sum over the domain of f adds up, subset by subset: g does so for the
\* subsets with at most n elements.
Sums(f, g, n) ==
  \A s \in SUBSET DOMAIN f : Cardinality(s) <= n =>
    g[s] = IF s = {} THEN 0 ELSE f[Pick(s)] + g[s \ {Pick(s)}]

LEMMA PickSmaller ==
  ASSUME NEW D, IsFiniteSet(D), NEW s \in SUBSET D
  PROVE  /\ IsFiniteSet(s) /\ Cardinality(s) \in Nat /\ Cardinality(s) <= Cardinality(D)
         /\ Cardinality(s) = 0 <=> s = {}
         /\ s # {} => /\ Pick(s) \in s /\ s \ {Pick(s)} \in SUBSET D
                      /\ Cardinality(s \ {Pick(s)}) = Cardinality(s) - 1
<1>1. IsFiniteSet(s) /\ Cardinality(s) <= Cardinality(D)
  BY FS_Subset
<1>2. Cardinality(s) \in Nat /\ (Cardinality(s) = 0 <=> s = {})
  BY <1>1, FS_CardinalityType, FS_EmptySet
<1>3. s # {} => Pick(s) \in s
  BY DEF Pick
<1>4. s # {} => Cardinality(s \ {Pick(s)}) = Cardinality(s) - 1
  BY <1>1, <1>3, FS_RemoveElement
<1> QED
  BY <1>1, <1>2, <1>3, <1>4

\* The sum of a finite function is what adding up its values gives, in the order in
\* which Pick takes them.
LEMMA SumsExist ==
  ASSUME NEW f, IsFiniteSet(DOMAIN f), NEW n \in Nat
  PROVE  \E g : g = [s \in SUBSET DOMAIN f |-> g[s]] /\ Sums(f, g, n)
<1> DEFINE Solved == {m \in Nat : \E g : g = [s \in SUBSET DOMAIN f |-> g[s]] /\ Sums(f, g, m)}
<1>1. 0 \in Solved
  <2> DEFINE g == [s \in SUBSET DOMAIN f |-> 0]
  <2>1. ASSUME NEW s \in SUBSET DOMAIN f, Cardinality(s) <= 0 PROVE s = {}
    <3>1. Cardinality(s) \in Nat /\ (Cardinality(s) = 0 <=> s = {})
      BY PickSmaller
    <3> QED
      BY <2>1, <3>1
  <2>2. ASSUME NEW s \in SUBSET DOMAIN f PROVE g[s] = 0
    OBVIOUS
  <2>3. Sums(f, g, 0)
    <3> HIDE DEF g
    <3> QED
      BY <2>1, <2>2 DEF Sums
  <2>4. g = [s \in SUBSET DOMAIN f |-> g[s]]
    OBVIOUS
  <2> HIDE DEF g
  <2> QED
    BY <2>3, <2>4
<1>2. ASSUME NEW m \in Nat, m \in Solved PROVE m + 1 \in Solved
  <2>1. PICK g : g = [s \in SUBSET DOMAIN f |-> g[s]] /\ Sums(f, g, m)
    BY <1>2
  <2> DEFINE h == [s \in SUBSET DOMAIN f |->
                     IF s = {} THEN 0 ELSE f[Pick(s)] + g[s \ {Pick(s)}]]
  <2>2. ASSUME NEW s \in SUBSET DOMAIN f, Cardinality(s) <= m PROVE h[s] = g[s]
    BY <2>1, <2>2 DEF Sums
  <2>3. ASSUME NEW s \in SUBSET DOMAIN f, Cardinality(s) <= m + 1, s # {}
        PROVE  h[s] = f[Pick(s)] + h[s \ {Pick(s)}]
    <3>1. /\ Cardinality(s \ {Pick(s)}) <= m /\ s \ {Pick(s)} \in SUBSET DOMAIN f
      BY <2>3, PickSmaller
    <3>2. h[s \ {Pick(s)}] = g[s \ {Pick(s)}]
      BY <2>2, <3>1
    <3> QED
      BY <2>3, <3>2
  <2>4. Sums(f, h, m + 1)
    BY <2>3 DEF Sums
  <2>5. h = [s \in SUBSET DOMAIN f |-> h[s]]
    OBVIOUS
  <2> HIDE DEF h
  <2> QED
    BY <2>4, <2>5
<1>3. Nat \subseteq Solved
  <2> HIDE DEF Solved
  <2> QED
    BY <1>1, <1>2, NatSetInduction
<1> QED
  BY <1>3

\* SumFunction is such a sum.
LEMMA SumFunctionIs ==
  ASSUME NEW f, IsFiniteSet(DOMAIN f)
  PROVE  \E g : SumFunction(f) = g[DOMAIN f] /\ Sums(f, g, Cardinality(DOMAIN f))
<1> DEFINE Adds(g) == g = [s \in SUBSET DOMAIN f |->
                             IF s = {} THEN 0 ELSE f[Pick(s)] + g[s \ {Pick(s)}]]
<1>1. \E g : Adds(g)
  <2>1. Cardinality(DOMAIN f) \in Nat
    BY FS_CardinalityType
  <2>2. PICK g : g = [s \in SUBSET DOMAIN f |-> g[s]] /\ Sums(f, g, Cardinality(DOMAIN f))
    BY <2>1, SumsExist
  <2>3. \A s \in SUBSET DOMAIN f :
          g[s] = IF s = {} THEN 0 ELSE f[Pick(s)] + g[s \ {Pick(s)}]
    BY <2>2, PickSmaller DEF Sums
  <2>4. Adds(g)
    BY <2>2, <2>3
  <2> QED
    BY <2>4
<1>2. SumFunction(f) = (CHOOSE g : Adds(g))[DOMAIN f]
  BY DEF SumFunction, SumFunctionOnSet, FoldFunctionOnSet, MapThenFoldSet, Pick
<1>3. PICK g : g = (CHOOSE h : Adds(h)) /\ Adds(g)
  BY <1>1
<1>4. Sums(f, g, Cardinality(DOMAIN f))
  BY <1>3 DEF Sums
<1> QED
  BY <1>2, <1>3, <1>4

\* The sum of natural numbers is one, and none of them is greater than it.
LEMMA SumBounds ==
  ASSUME NEW f, IsFiniteSet(DOMAIN f), \A x \in DOMAIN f : f[x] \in Nat
  PROVE  SumFunction(f) \in Nat /\ \A x \in DOMAIN f : f[x] <= SumFunction(f)
<1>1. PICK g : SumFunction(f) = g[DOMAIN f] /\ Sums(f, g, Cardinality(DOMAIN f))
  BY SumFunctionIs
<1> DEFINE Bounded == {m \in Nat : \A s \in SUBSET DOMAIN f :
                         Cardinality(s) = m => g[s] \in Nat /\ \A x \in s : f[x] <= g[s]}
<1>2. 0 \in Bounded
  <2>1. ASSUME NEW s \in SUBSET DOMAIN f, Cardinality(s) = 0 PROVE s = {} /\ g[s] = 0
    BY <1>1, <2>1, PickSmaller DEF Sums
  <2> QED
    BY <2>1
<1>3. ASSUME NEW m \in Nat, m \in Bounded PROVE m + 1 \in Bounded
  <2>1. ASSUME NEW s \in SUBSET DOMAIN f, Cardinality(s) = m + 1
        PROVE  g[s] \in Nat /\ \A x \in s : f[x] <= g[s]
    <3> DEFINE rest == s \ {Pick(s)}
    <3>1. /\ s # {} /\ Pick(s) \in s /\ rest \in SUBSET DOMAIN f /\ Cardinality(rest) = m
      BY <2>1, PickSmaller
    <3>2. g[s] = f[Pick(s)] + g[rest]
      BY <1>1, <3>1, PickSmaller DEF Sums
    <3>3. g[rest] \in Nat /\ \A x \in rest : f[x] <= g[rest]
      BY <1>3, <3>1
    <3>4. f[Pick(s)] \in Nat
      BY <3>1
    <3>5. ASSUME NEW x \in s PROVE f[x] <= g[s]
      <4>1. f[x] \in Nat /\ (x = Pick(s) \/ x \in rest)
        OBVIOUS
      <4> HIDE DEF rest
      <4> QED
        BY <3>2, <3>3, <3>4, <4>1
    <3> HIDE DEF rest
    <3> QED
      BY <3>2, <3>3, <3>4, <3>5
  <2> QED
    BY <2>1
<1>4. Nat \subseteq Bounded
  <2> HIDE DEF Bounded
  <2> QED
    BY <1>2, <1>3, NatSetInduction
<1>5. Cardinality(DOMAIN f) \in Bounded
  BY <1>4, FS_CardinalityType
<1> QED
  BY <1>1, <1>5

\* Products and quotients keep the order.
LEMMA TimesKeeps ==
  ASSUME NEW a \in Nat, NEW b \in Nat, NEW d \in Nat, a <= b
  PROVE  a * d <= b * d /\ a * d \in Nat /\ b * d \in Nat /\ (a > 0 /\ d > 0 => a * d > 0)
OBVIOUS

LEMMA DivKeeps ==
  ASSUME NEW a \in Nat, NEW b \in Nat, NEW d \in Nat \ {0}, a <= b
  PROVE  a \div d <= b \div d /\ (a >= d => a \div d > 0) /\ 0 \div d = 0
OBVIOUS

-----------------------------------------------------------------------------
(* Weights follow shares.                                                  *)

\* The factors are not negative, and fractions.
Fraction == Nat \X (Nat \ {0})

LEMMA Factors ==
  ASSUME NEW claimed \in Nat, NEW count \in Nat
  PROVE  /\ EpsFactor(claimed, count) \in Fraction /\ OepsFactor(claimed, count) \in Fraction
         /\ count > 0 => EpsFactor(claimed, count) = <<claimed, Unit * count>>
<1>1. Unit \in Nat \ {0} /\ ThresholdPct \in 0 .. 100
  BY WeightsAssumption DEF WeightsAssumption
<1>2. EpsFactor(claimed, count) \in Fraction
  <2>1. CASE count = 0
    BY <2>1 DEF EpsFactor, Fraction
  <2>2. CASE count # 0
    <3>1. Unit * count \in Nat \ {0}
      BY <1>1, <2>2, TimesKeeps
    <3> QED
      BY <2>2, <3>1 DEF EpsFactor, Fraction
  <2> QED
    BY <2>1, <2>2
<1> DEFINE f == EpsFactor(claimed, count)
<1>3. f[1] \in Nat /\ f[2] \in Nat \ {0}
  BY <1>2 DEF Fraction
<1>4. (100 - ThresholdPct) * f[1] \in Nat /\ 100 * f[2] \in Nat \ {0}
  <2>1. 100 - ThresholdPct \in Nat
    BY <1>1
  <2> HIDE DEF f
  <2> QED
    BY <1>3, <2>1
<1>5. OepsFactor(claimed, count) \in Fraction
  BY <1>4 DEF OepsFactor, Fraction
<1> QED
  BY <1>2, <1>5 DEF EpsFactor

LEMMA WeightKeeps ==
  ASSUME NEW s \in Nat, NEW t \in Nat, s <= t, NEW f \in Fraction
  PROVE  Weight(s, f) <= Weight(t, f) /\ Weight(0, f) = 0
<1>1. f[1] \in Nat /\ f[2] \in Nat \ {0} /\ Unit \in Nat \ {0} /\ SIGNIFICANCE \in Nat
  BY WeightsAssumption DEF WeightsAssumption, Fraction, SIGNIFICANCE
<1>2. s * f[1] <= t * f[1] /\ s * f[1] \in Nat /\ t * f[1] \in Nat
  BY <1>1, TimesKeeps
<1>3. /\ s * f[1] * SIGNIFICANCE <= t * f[1] * SIGNIFICANCE
      /\ s * f[1] * SIGNIFICANCE \in Nat /\ t * f[1] * SIGNIFICANCE \in Nat
  BY <1>1, <1>2, TimesKeeps
<1>4. Unit * f[2] \in Nat \ {0}
  BY <1>1, TimesKeeps
<1>5. (s * f[1] * SIGNIFICANCE) \div (Unit * f[2]) <= (t * f[1] * SIGNIFICANCE) \div (Unit * f[2])
  BY <1>3, <1>4, DivKeeps
<1>6. 0 * f[1] * SIGNIFICANCE = 0 /\ 0 \div (Unit * f[2]) = 0
  BY <1>1, <1>4, DivKeeps
<1> QED
  BY <1>5, <1>6 DEF Weight

\* A share that is claimed gets a weight, if it is not too small a part.
LEMMA WeightPositive ==
  ASSUME NEW s \in Nat, NEW claimed \in Nat, NEW count \in Nat, 0 < s, s <= claimed, count > 0,
         Unit * Unit * count <= SIGNIFICANCE
  PROVE  Weight(s, <<claimed, Unit * count>>) > 0
<1>1. Unit \in Nat \ {0} /\ SIGNIFICANCE \in Nat /\ SIGNIFICANCE > 0
  BY WeightsAssumption DEF WeightsAssumption, SIGNIFICANCE
<1>2. s * claimed \in Nat /\ 1 <= s * claimed
  BY TimesKeeps
<1>3. 1 * SIGNIFICANCE <= s * claimed * SIGNIFICANCE /\ s * claimed * SIGNIFICANCE \in Nat
  BY <1>1, <1>2, TimesKeeps
<1>4. Unit * count \in Nat /\ Unit * count > 0
  BY <1>1, TimesKeeps
<1>5. Unit * (Unit * count) \in Nat \ {0}
  BY <1>1, <1>4, TimesKeeps
<1>6. Unit * (Unit * count) = Unit * Unit * count
  BY <1>1
<1>7. s * claimed * SIGNIFICANCE >= Unit * (Unit * count)
  BY <1>1, <1>3, <1>5, <1>6
<1>8. (s * claimed * SIGNIFICANCE) \div (Unit * (Unit * count)) > 0
  BY <1>3, <1>5, <1>7, DivKeeps
<1> QED
  BY <1>8 DEF Weight

\* The endpoints that have calculators are finitely many, and claim natural numbers.
LEMMA ClaimedFacts ==
  ASSUME TypeOK, CalcInv, EndpointsReadable
  PROVE  /\ Count \in Nat /\ Claimed \in Nat
         /\ \A l \in Listed : ShareOf(l) \in Nat
         /\ \A l \in PrimaryListed : ShareOf(l) <= Claimed /\ Count > 0
<1>1. ASSUME NEW l \in Listed
      PROVE  /\ l[1] \in Sources /\ l[2] \in Endpoints /\ l = <<l[1], l[2]>>
             /\ CalcOf(l) # NoCalc /\ CalcOf(l) \in Calcs
  BY DEF Listed, EndpointsReadable, CalcOf, TypeOK
<1>2. ASSUME NEW l \in Listed PROVE ShareOf(l) \in Nat
  BY <1>1, WeightsAssumption DEF ShareOf, TypeOK, WeightsAssumption
<1>3. IsFiniteSet(PrimaryListed)
  <2> DEFINE calc == [l \in PrimaryListed |-> CalcOf(l)]
  <2>1. PrimaryListed \subseteq Listed
    BY DEF PrimaryListed
  <2>2. \A k, l \in PrimaryListed : CalcOf(k) = CalcOf(l) => k = l
    BY <1>1, <2>1 DEF CalcInv, CalcOf
  <2>3. calc \in Injection(PrimaryListed, Calcs)
    BY <1>1, <2>1, <2>2 DEF Injection, IsInjective
  <2>4. IsFiniteSet(Calcs)
    BY SourceGroupAssumption, FS_Interval DEF Calcs, SourceGroupAssumption
  <2> HIDE DEF calc
  <2> QED
    BY <2>3, <2>4, FS_Injection
<1> DEFINE f == [l \in PrimaryListed |-> ShareOf(l)]
<1>4. DOMAIN f = PrimaryListed /\ (\A l \in PrimaryListed : f[l] = ShareOf(l) /\ f[l] \in Nat)
  BY <1>2 DEF PrimaryListed
<1>5. Claimed = SumFunction(f)
  BY DEF Claimed
<1>6. Claimed \in Nat /\ \A l \in PrimaryListed : f[l] <= Claimed
  <2> HIDE DEF f
  <2> QED
    BY <1>3, <1>4, <1>5, SumBounds
<1>7. Count \in Nat /\ (PrimaryListed # {} => Count > 0)
  BY <1>3, FS_CardinalityType, FS_EmptySet DEF Count
<1> QED
  BY <1>2, <1>4, <1>6, <1>7

LEMMA WeightsFollow == ASSUME TypeOK, CalcInv PROVE WeightsFollowShares
<1> SUFFICES ASSUME EndpointsReadable
             PROVE  /\ \A k, l \in Listed :
                         (k[1] \in Primary <=> l[1] \in Primary) /\ ShareOf(k) <= ShareOf(l)
                           => WeightOf(k) <= WeightOf(l)
                    /\ \A l \in PrimaryListed :
                         /\ ShareOf(l) = 0 => WeightOf(l) = 0
                         /\ ShareOf(l) > 0 /\ Unit * Unit * Count <= SIGNIFICANCE
                              => WeightOf(l) > 0
  BY DEF WeightsFollowShares
<1> DEFINE eps == EpsFactor(Claimed, Count)
           oeps == OepsFactor(Claimed, Count)
<1>1. /\ eps \in Fraction /\ oeps \in Fraction
      /\ Count > 0 => eps = <<Claimed, Unit * Count>>
  BY ClaimedFacts, Factors
<1>2. \A l \in Listed : WeightOf(l) = Weight(ShareOf(l), IF l[1] \in Primary THEN eps ELSE oeps)
  BY DEF WeightOf
<1> HIDE DEF eps, oeps
<1>3. ASSUME NEW k \in Listed, NEW l \in Listed, k[1] \in Primary <=> l[1] \in Primary,
             ShareOf(k) <= ShareOf(l)
      PROVE  WeightOf(k) <= WeightOf(l)
  <2>1. PICK factor \in Fraction :
          WeightOf(k) = Weight(ShareOf(k), factor) /\ WeightOf(l) = Weight(ShareOf(l), factor)
    BY <1>1, <1>2, <1>3
  <2> QED
    BY <1>3, <2>1, ClaimedFacts, WeightKeeps
<1>4. ASSUME NEW l \in PrimaryListed
      PROVE  /\ ShareOf(l) = 0 => WeightOf(l) = 0
             /\ ShareOf(l) > 0 /\ Unit * Unit * Count <= SIGNIFICANCE => WeightOf(l) > 0
  <2>1. l \in Listed /\ WeightOf(l) = Weight(ShareOf(l), eps) /\ Count > 0
    BY <1>2, ClaimedFacts DEF PrimaryListed
  <2>2. ShareOf(l) = 0 => WeightOf(l) = 0
    BY <1>1, <2>1, WeightKeeps
  <2>3. ShareOf(l) > 0 /\ Unit * Unit * Count <= SIGNIFICANCE => WeightOf(l) > 0
    BY <1>1, <2>1, ClaimedFacts, WeightPositive
  <2> QED
    BY <2>2, <2>3
<1> QED
  BY <1>3, <1>4

\* For any sources, endpoints, units of shares and threshold: within the primary
\* endpoints, as within the overflow endpoints, a higher share never gets a lower
\* weight, and a primary endpoint gets traffic exactly if it claims a share that is
\* not too small for the weights (manager.py _generate_normalized_weight_endpoints).
THEOREM WeightsAreFair == Spec => []WeightsFollowShares
BY CalcInvInit, CalcInvStep, WeightsFollow, GroupTypeCorrect, PTL DEF Spec
=============================================================================
