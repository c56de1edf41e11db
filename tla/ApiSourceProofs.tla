--------------------------- MODULE ApiSourceProofs ---------------------------
(***************************************************************************)
(* For any names, requests and number of sources: a source is stopped by   *)
(* one greenlet only and never while it is listed; and as long as the      *)
(* requests for a name do not overlap, no source of that name is lost and  *)
(* every expiration deletes its own source.  All of this is kept when the  *)
(* sources have endpoints (ManagedEndpoints), and there every endpoint no  *)
(* two sources share has its calculator as long as a source has it.        *)
(***************************************************************************)
EXTENDS ManagedEndpoints, TLAPS

\* What is true of a single source: one not created yet has nothing, one that is
\* stopped counts no expiration.
Fresh == \A i \in Created : i > made => stopped[i] = "no" /\ expiration[i] = "none"

Cancels == \A i \in Created : stopped[i] # "no" => expiration[i] \in {"none", "cancelled"}

\* What is listed was created under its name and is not being stopped.
Mapped ==
  \A n \in Names :
    sourceMap[n] # NoSource =>
      /\ sourceMap[n] \in 1 .. made
      /\ stopped[sourceMap[n]] = "no" /\ nameOf[sourceMap[n]] = n

\* What a greenlet stops is being stopped, by that greenlet only.
Stops ==
  /\ \A g \in Greenlets : Stopping(g) => stopped[greenlet[g].source] = "stopping"
  /\ \A g, h \in Greenlets :
       Stopping(g) /\ Stopping(h) /\ greenlet[g].source = greenlet[h].source => g = h

\* Expirations only delete, and only once.
Deleting ==
  \A i \in Created :
    greenlet[i] = Idle \/ (greenlet[i].pc = "deleting" /\ expiration[i] = "cancelled")

\* A name that was never raced for has at most one request under way; while it
\* replaces a source, the name is free; and the source of the name is listed.
OneRequest ==
  \A r, q \in Requests :
    /\ greenlet[r] # Idle /\ greenlet[q] # Idle
    /\ greenlet[r].name = greenlet[q].name /\ greenlet[r].name \notin raced
    => r = q

Freed ==
  \A r \in Requests :
    greenlet[r].pc = "replacing" /\ greenlet[r].name \notin raced
      => sourceMap[greenlet[r].name] = NoSource

NotLost ==
  \A i \in 1 .. made :
    stopped[i] = "no" /\ nameOf[i] \notin raced => sourceMap[nameOf[i]] = i

ApiInv ==
  /\ TypeOK /\ Fresh /\ Cancels /\ Mapped /\ Stops /\ Deleting
  /\ OneRequest /\ Freed /\ NotLost

-----------------------------------------------------------------------------
LEMMA TypeInit == ASSUME Init PROVE TypeOK
BY ApiSourceAssumption DEF Init, TypeOK, Created, Idle

\* What the two halves of a request leave is of the type of the variables they
\* write.
LEMMA DeleteType ==
  ASSUME TypeOK, NEW g \in Greenlets, NEW n \in Names, NEW pc \in {"replacing", "deleting"},
         NEW others, sourceMap[n] # NoSource, DeleteManaged(g, n, pc, others), raced' \in SUBSET Names
  PROVE  TypeOK'
<1> DEFINE i == sourceMap[n]
<1>1. i \in Created
  BY DEF TypeOK
<1>2. Waits(pc, n, i) \in Waiting
  BY <1>1 DEF Waits, Waiting
<1>3. greenlet' \in [Greenlets -> {Idle} \cup Waiting]
  BY <1>2 DEF DeleteManaged, TypeOK
<1>4. stopped' \in [Created -> {"no", "stopping", "stopped", "failed"}]
  BY <1>1 DEF DeleteManaged, TypeOK
<1>5. sourceMap' \in [Names -> Created \cup {NoSource}]
  BY DEF DeleteManaged, TypeOK
<1>6. expiration' \in [Created -> {"none", "built", "counting", "cancelled"}]
  BY DEF DeleteManaged, TypeOK, Cancelled
<1> QED
  BY <1>3, <1>4, <1>5, <1>6 DEF DeleteManaged, TypeOK

LEMMA AddType ==
  ASSUME TypeOK, NEW g \in Greenlets, NEW n \in Names, AddManaged(g, n),
         stopped' \in [Created -> {"no", "stopping", "stopped", "failed"}],
         raced' \in SUBSET Names
  PROVE  TypeOK'
<1>1. CASE greenlet' = [greenlet EXCEPT ![g] = Idle]
           /\ UNCHANGED <<sourceMap, made, nameOf, running, expiration>>
  BY <1>1 DEF TypeOK
<1>2. CASE /\ made < MaxSources /\ made' = made + 1
           /\ nameOf' = [i \in 1 .. made' |-> IF i = made' THEN n ELSE nameOf[i]]
           /\ \E exp \in {"none", "built"} : expiration' = [expiration EXCEPT ![made'] = exp]
           /\ sourceMap' = [sourceMap EXCEPT ![n] = made']
           /\ running' = [running EXCEPT ![made'] = "starting"]
           /\ greenlet' = [greenlet EXCEPT ![g] = Waits("starting", n, made')]
  <2>1. made' \in Created /\ made' \in 0 .. MaxSources /\ 1 .. made' = (1 .. made) \cup {made'}
    BY <1>2, ApiSourceAssumption DEF TypeOK, Created
  <2>2. nameOf' \in [1 .. made' -> Names]
    BY <1>2, <2>1 DEF TypeOK
  <2>3. Waits("starting", n, made') \in Waiting
    BY <2>1 DEF Waits, Waiting
  <2>4. greenlet' \in [Greenlets -> {Idle} \cup Waiting]
    BY <1>2, <2>3 DEF TypeOK
  <2>5. /\ expiration' \in [Created -> {"none", "built", "counting", "cancelled"}]
        /\ sourceMap' \in [Names -> Created \cup {NoSource}]
        /\ running' \in [Created -> {"new", "starting", "started", "failed"}]
    BY <1>2, <2>1 DEF TypeOK
  <2> QED
    BY <2>1, <2>2, <2>4, <2>5 DEF TypeOK
<1> QED
  BY <1>1, <1>2 DEF AddManaged

LEMMA TypeStep == ASSUME TypeOK, Fresh, [Next]_vars PROVE TypeOK'
<1>1. ASSUME NEW r \in Requests, StartEnds(r) PROVE TypeOK'
  <2>1. r \in Greenlets
    BY DEF Greenlets
  <2>2. greenlet[r] \in Waiting
    BY <1>1, <2>1 DEF StartEnds, TypeOK, Idle
  <2>3. greenlet[r].source \in Created
    BY <2>2 DEF Waiting
  <2> QED
    BY <1>1, <2>1, <2>3 DEF StartEnds, TypeOK
<1>2. ASSUME NEW r \in Requests, NEW n \in Names, Put(r, n) PROVE TypeOK'
  <2>1. r \in Greenlets /\ raced' \in SUBSET Names
    BY <1>2 DEF Greenlets, Put, Race, TypeOK
  <2>2. CASE sourceMap[n] = NoSource /\ AddManaged(r, n) /\ UNCHANGED stopped
    BY <2>1, <2>2, AddType DEF TypeOK
  <2>3. CASE sourceMap[n] # NoSource /\ DeleteManaged(r, n, "replacing", {})
    BY <2>1, <2>3, DeleteType
  <2> QED
    BY <1>2, <2>2, <2>3 DEF Put
<1>3. ASSUME NEW r \in Requests, NEW n \in Names, Delete(r, n) PROVE TypeOK'
  <2>1. r \in Greenlets /\ raced' \in SUBSET Names
    BY <1>3 DEF Greenlets, Delete, Race, TypeOK
  <2> QED
    BY <1>3, <2>1, DeleteType DEF Delete
<1>4. ASSUME NEW g \in Greenlets, StopEnds(g) PROVE TypeOK'
  <2>1. greenlet[g] \in Waiting
    BY <1>4 DEF StopEnds, TypeOK, Idle
  <2>2. greenlet[g].source \in Created /\ greenlet[g].name \in Names
    BY <2>1 DEF Waiting
  <2>3. stopped' \in [Created -> {"no", "stopping", "stopped", "failed"}]
    BY <1>4, <2>2 DEF StopEnds, TypeOK
  <2>4. raced' \in SUBSET Names
    BY <1>4 DEF StopEnds, TypeOK
  <2>5. CASE AddManaged(g, greenlet[g].name)
    BY <2>2, <2>3, <2>4, <2>5, AddType
  <2>6. CASE greenlet' = [greenlet EXCEPT ![g] = Idle]
             /\ UNCHANGED <<sourceMap, made, nameOf, running, expiration>>
    BY <2>3, <2>4, <2>6 DEF TypeOK
  <2> QED
    BY <1>4, <2>5, <2>6 DEF StopEnds
<1>5. ASSUME NEW i \in Created, Expire(i) PROVE TypeOK'
  <2>1. i \in Greenlets /\ raced' \in SUBSET Names
    BY <1>5 DEF Greenlets, Expire, TypeOK
  <2>2. nameOf[i] \in Names
    BY <1>5 DEF Expire, Fresh, TypeOK, Created
  <2>3. CASE sourceMap[nameOf[i]] # NoSource /\ DeleteManaged(i, nameOf[i], "deleting", {i})
    BY <2>1, <2>2, <2>3, DeleteType
  <2>4. CASE /\ expiration' = [expiration EXCEPT ![i] = "cancelled"]
             /\ UNCHANGED <<sourceMap, made, nameOf, running, stopped, greenlet>>
    BY <2>1, <2>4 DEF TypeOK
  <2> QED
    BY <1>5, <2>3, <2>4 DEF Expire
<1>6. CASE UNCHANGED vars
  BY <1>6 DEF vars, TypeOK
<1> QED
  BY <1>1, <1>2, <1>3, <1>4, <1>5, <1>6 DEF Next

-----------------------------------------------------------------------------
\* The greenlet of an expiration is no request.
LEMMA Apart == \A i \in Created : i \notin Requests /\ i \in Greenlets
BY ApiSourceAssumption DEF Created, Greenlets

\* A greenlet that has nothing to do pops a source and begins to stop it.
LEMMA DeleteKeeps ==
  ASSUME ApiInv, TypeOK', NEW g \in Greenlets, NEW n \in Names,
         NEW pc \in {"replacing", "deleting"}, NEW others,
         greenlet[g] = Idle, pc = "replacing" => g \in Requests,
         g \in Created => expiration'[g] = "cancelled",
         sourceMap[n] # NoSource, DeleteManaged(g, n, pc, others), raced \subseteq raced',
         g \in Requests =>
           \A h \in Requests \ {g} : greenlet[h] # Idle /\ greenlet[h].name = n => n \in raced'
  PROVE  ApiInv'
<1> DEFINE i == sourceMap[n]
<1> USE DEF ApiInv
<1>1. /\ i \in Created /\ i \in 1 .. made /\ stopped[i] = "no" /\ nameOf[i] = n
  BY DEF Mapped, TypeOK, Created
<1>2. \A h \in Greenlets : greenlet'[h] = IF h = g THEN Waits(pc, n, i) ELSE greenlet[h]
  BY DEF DeleteManaged, TypeOK
<1>3. \A j \in Created : stopped'[j] = IF j = i THEN "stopping" ELSE stopped[j]
  BY DEF DeleteManaged, TypeOK
<1>4. \A j \in Created : expiration'[j] = expiration[j] \/ expiration'[j] = Cancelled(j)
  BY DEF DeleteManaged
<1>5. expiration'[i] \in {"none", "cancelled"}
  BY <1>1 DEF DeleteManaged, Cancelled
<1>6. \A m \in Names : sourceMap'[m] = IF m = n THEN NoSource ELSE sourceMap[m]
  BY DEF DeleteManaged, TypeOK
<1>7. made' = made /\ nameOf' = nameOf
  BY DEF DeleteManaged
<1>8. \A h \in Greenlets : Stopping(h) => greenlet[h].source \in Created
  BY DEF Stopping, TypeOK, Waiting, Idle
<1>9. Fresh'
  BY <1>1, <1>3, <1>4, <1>7, ApiSourceAssumption DEF Fresh, Cancelled, Created, TypeOK
<1>10. Cancels'
  BY <1>3, <1>4, <1>5 DEF Cancels, Cancelled
<1>11. Mapped'
  <2> SUFFICES ASSUME NEW m \in Names, sourceMap'[m] # NoSource
               PROVE  /\ sourceMap'[m] \in 1 .. made
                      /\ stopped'[sourceMap'[m]] = "no" /\ nameOf[sourceMap'[m]] = m
    BY <1>7 DEF Mapped
  <2>1. m # n /\ sourceMap'[m] = sourceMap[m]
    BY <1>6
  <2>2. sourceMap[m] \in 1 .. made /\ stopped[sourceMap[m]] = "no" /\ nameOf[sourceMap[m]] = m
    BY <2>1 DEF Mapped
  <2>3. sourceMap[m] \in Created /\ sourceMap[m] # i
    BY <1>1, <2>1, <2>2 DEF TypeOK
  <2> QED
    BY <1>3, <2>1, <2>2, <2>3
<1>12. Stops'
  <2>1. \A h \in Greenlets \ {g} : Stopping(h)' => Stopping(h) /\ greenlet'[h] = greenlet[h]
    BY <1>2 DEF Stopping
  <2>2. \A h \in Greenlets \ {g} : Stopping(h) => greenlet[h].source # i
    BY <1>1, <1>8 DEF Stops
  <2>3. greenlet'[g].source = i
    BY <1>2 DEF Waits
  <2>4. ASSUME NEW h \in Greenlets, Stopping(h)' PROVE stopped'[greenlet'[h].source] = "stopping"
    BY <1>1, <1>3, <1>8, <2>1, <2>2, <2>3, <2>4 DEF Stops
  <2>5. ASSUME NEW h \in Greenlets, NEW k \in Greenlets, Stopping(h)', Stopping(k)',
               greenlet'[h].source = greenlet'[k].source
        PROVE  h = k
    BY <2>1, <2>2, <2>3, <2>5 DEF Stops
  <2> QED
    BY <2>4, <2>5 DEF Stops
<1>13. Deleting'
  BY <1>2, <1>4, Apart DEF Deleting, Waits, Cancelled
<1>14. OneRequest'
  <2>1. ASSUME NEW r \in Requests, NEW q \in Requests, greenlet'[r] # Idle, greenlet'[q] # Idle,
               greenlet'[r].name = greenlet'[q].name, greenlet'[r].name \notin raced'
        PROVE  r = q
    <3>1. r \in Greenlets /\ q \in Greenlets
      BY DEF Greenlets
    <3>2. CASE r # g /\ q # g
      BY <1>2, <2>1, <3>1, <3>2 DEF OneRequest
    <3>3. CASE r = g \/ q = g
      BY <1>2, <2>1, <3>1, <3>3 DEF Waits
    <3> QED
      BY <3>2, <3>3
  <2> QED
    BY <2>1 DEF OneRequest
<1>15. Freed'
  <2>1. ASSUME NEW r \in Requests, greenlet'[r].pc = "replacing", greenlet'[r].name \notin raced'
        PROVE  sourceMap'[greenlet'[r].name] = NoSource
    <3>1. r \in Greenlets
      BY DEF Greenlets
    <3>2. CASE r = g
      BY <1>2, <1>6, <3>1, <3>2 DEF Waits
    <3>3. CASE r # g
      <4>1. greenlet'[r] = greenlet[r]
        BY <1>2, <3>1, <3>3
      <4>2. greenlet[r].name \in Names
        BY <2>1, <3>1, <4>1 DEF TypeOK, Idle, Waiting
      <4> QED
        BY <1>6, <2>1, <4>1, <4>2 DEF Freed
    <3> QED
      BY <3>2, <3>3
  <2> QED
    BY <2>1 DEF Freed
<1>16. NotLost'
  <2>1. ASSUME NEW j \in 1 .. made, stopped'[j] = "no", nameOf[j] \notin raced'
        PROVE  sourceMap'[nameOf[j]] = j
    <3>1. j \in Created /\ nameOf[j] \in Names
      BY ApiSourceAssumption DEF TypeOK, Created
    <3>2. j # i /\ stopped[j] = "no"
      BY <1>3, <2>1, <3>1
    <3>3. sourceMap[nameOf[j]] = j
      BY <2>1, <3>2 DEF NotLost
    <3>4. nameOf[j] # n
      BY <3>2, <3>3
    <3> QED
      BY <1>6, <3>1, <3>3, <3>4
  <2> QED
    BY <1>7, <2>1 DEF NotLost
<1> QED
  BY <1>9, <1>10, <1>11, <1>12, <1>13, <1>14, <1>15, <1>16

\* A greenlet gets done with what it waited for, a stop or a start.
LEMMA DoneKeeps ==
  ASSUME ApiInv, TypeOK', NEW g \in Greenlets, greenlet' = [greenlet EXCEPT ![g] = Idle],
         UNCHANGED <<sourceMap, made, nameOf>>, raced \subseteq raced',
         \A j \in Created : \/ expiration'[j] = expiration[j]
                            \/ expiration[j] = "built" /\ expiration'[j] = "counting",
         \/ stopped' = stopped
         \/ Stopping(g) /\ \E end \in {"stopped", "failed"} :
                             stopped' = [stopped EXCEPT ![greenlet[g].source] = end]
  PROVE  ApiInv'
<1> USE DEF ApiInv
<1>1. \A h \in Greenlets : greenlet'[h] = IF h = g THEN Idle ELSE greenlet[h]
  BY DEF TypeOK
<1>2. \A h \in Greenlets : Stopping(h) => greenlet[h].source \in Created
  BY DEF Stopping, TypeOK, Waiting, Idle
<1>3. \A j \in Created : stopped'[j] = stopped[j]
                         \/ /\ Stopping(g) /\ j = greenlet[g].source
                            /\ stopped[j] = "stopping" /\ stopped'[j] \in {"stopped", "failed"}
  BY <1>2 DEF TypeOK, Stops
<1>4. \A j \in Created : stopped'[j] = "no" <=> stopped[j] = "no"
  BY <1>3
<1>5. Fresh' /\ Cancels'
  BY <1>4 DEF Fresh, Cancels
<1>6. Mapped'
  <2>1. \A n \in Names : sourceMap[n] # NoSource => sourceMap[n] \in Created
    BY DEF TypeOK
  <2> QED
    BY <1>4, <2>1 DEF Mapped
<1>7. Stops'
  <2>1. \A h \in Greenlets : Stopping(h)' => h # g /\ Stopping(h) /\ greenlet'[h] = greenlet[h]
    BY <1>1 DEF Stopping, Idle
  <2>2. ASSUME NEW h \in Greenlets, Stopping(h)' PROVE stopped'[greenlet'[h].source] = "stopping"
    <3>1. greenlet[h].source \in Created /\ stopped[greenlet[h].source] = "stopping"
      BY <1>2, <2>1, <2>2 DEF Stops
    <3>2. ~(Stopping(g) /\ greenlet[h].source = greenlet[g].source)
      BY <2>1, <2>2 DEF Stops
    <3> QED
      BY <1>3, <2>1, <2>2, <3>1, <3>2
  <2> QED
    BY <2>1, <2>2 DEF Stops
<1>8. Deleting'
  BY <1>1, Apart DEF Deleting
<1>9. OneRequest'
  <2>1. \A r \in Requests : r \in Greenlets
    BY DEF Greenlets
  <2> QED
    BY <1>1, <2>1 DEF OneRequest
<1>10. Freed'
  <2>1. \A r \in Requests : r \in Greenlets
    BY DEF Greenlets
  <2> QED
    BY <1>1, <2>1 DEF Freed, Idle
<1>11. NotLost'
  <2>1. \A j \in 1 .. made : j \in Created
    BY ApiSourceAssumption DEF TypeOK, Created
  <2> QED
    BY <1>4, <2>1 DEF NotLost
<1> QED
  BY <1>5, <1>6, <1>7, <1>8, <1>9, <1>10, <1>11

\* A request adds a source under a name that, unless raced for, is free.
LEMMA AddKeeps ==
  ASSUME ApiInv, TypeOK', NEW g \in Requests, NEW n \in Names, AddManaged(g, n),
         greenlet[g] = Idle \/ greenlet[g].name = n,
         \/ stopped' = stopped
         \/ Stopping(g) /\ stopped' = [stopped EXCEPT ![greenlet[g].source] = "stopped"],
         raced \subseteq raced', n \notin raced' => sourceMap[n] = NoSource,
         \A h \in Requests \ {g} : greenlet[h] # Idle /\ greenlet[h].name = n => n \in raced'
  PROVE  ApiInv'
<1> USE DEF ApiInv
<1>0. g \in Greenlets
  BY DEF Greenlets
<1>1. CASE greenlet' = [greenlet EXCEPT ![g] = Idle]
           /\ UNCHANGED <<sourceMap, made, nameOf, running, expiration>>
  BY <1>0, <1>1, DoneKeeps
<1>2. CASE /\ made < MaxSources /\ made' = made + 1
           /\ nameOf' = [i \in 1 .. made' |-> IF i = made' THEN n ELSE nameOf[i]]
           /\ \E exp \in {"none", "built"} : expiration' = [expiration EXCEPT ![made'] = exp]
           /\ sourceMap' = [sourceMap EXCEPT ![n] = made']
           /\ running' = [running EXCEPT ![made'] = "starting"]
           /\ greenlet' = [greenlet EXCEPT ![g] = Waits("starting", n, made')]
  <2>1. /\ made \in Nat /\ made' = made + 1 /\ made' \in Created
        /\ 1 .. made' = (1 .. made) \cup {made'} /\ made' \notin 1 .. made
    BY <1>2, ApiSourceAssumption DEF TypeOK, Created
  <2>2. \A h \in Greenlets : greenlet'[h] = IF h = g THEN Waits("starting", n, made') ELSE greenlet[h]
    BY <1>2 DEF TypeOK
  <2>3. \A h \in Greenlets : Stopping(h) => greenlet[h].source \in Created
    BY DEF Stopping, TypeOK, Waiting, Idle
  <2>4. \A j \in Created : stopped'[j] = stopped[j]
                           \/ /\ Stopping(g) /\ j = greenlet[g].source
                              /\ stopped[j] = "stopping" /\ stopped'[j] = "stopped"
    BY <1>0, <2>3 DEF TypeOK, Stops
  <2>5. \A j \in Created : stopped'[j] = "no" <=> stopped[j] = "no"
    BY <2>4
  <2>6. stopped[made'] = "no"
    BY <2>1 DEF Fresh
  <2>7. \A m \in Names : sourceMap'[m] = IF m = n THEN made' ELSE sourceMap[m]
    BY <1>2 DEF TypeOK
  <2>8. \A j \in 1 .. made : nameOf'[j] = nameOf[j] /\ j \in Created /\ nameOf[j] \in Names
    BY <1>2, <2>1, ApiSourceAssumption DEF TypeOK, Created
  <2>9. nameOf'[made'] = n
    BY <1>2, <2>1
  <2>10. Fresh'
    <3>1. \A j \in Created : j > made' => j > made /\ j # made' /\ expiration'[j] = expiration[j]
      BY <1>2, <2>1 DEF Created, TypeOK
    <3> QED
      BY <2>5, <3>1 DEF Fresh
  <2>11. Cancels'
    <3>1. \A j \in Created : j # made' => expiration'[j] = expiration[j]
      BY <1>2 DEF TypeOK
    <3> QED
      BY <2>5, <2>6, <3>1 DEF Cancels
  <2>12. Mapped'
    <3>1. ASSUME NEW m \in Names, sourceMap'[m] # NoSource
          PROVE  /\ sourceMap'[m] \in 1 .. made'
                 /\ stopped'[sourceMap'[m]] = "no" /\ nameOf'[sourceMap'[m]] = m
      <4>1. CASE m = n
        BY <2>1, <2>5, <2>6, <2>7, <2>9, <4>1
      <4>2. CASE m # n
        <5>1. /\ sourceMap'[m] = sourceMap[m] /\ sourceMap[m] \in 1 .. made
              /\ stopped[sourceMap[m]] = "no" /\ nameOf[sourceMap[m]] = m
          BY <2>7, <3>1, <4>2 DEF Mapped
        <5> QED
          BY <2>1, <2>5, <2>8, <5>1
      <4> QED
        BY <4>1, <4>2
    <3> QED
      BY <3>1 DEF Mapped
  <2>13. Stops'
    <3>1. \A h \in Greenlets : Stopping(h)' => h # g /\ Stopping(h) /\ greenlet'[h] = greenlet[h]
      BY <2>2 DEF Stopping, Waits
    <3>2. ASSUME NEW h \in Greenlets, Stopping(h)' PROVE stopped'[greenlet'[h].source] = "stopping"
      <4>1. greenlet[h].source \in Created /\ stopped[greenlet[h].source] = "stopping"
        BY <2>3, <3>1, <3>2 DEF Stops
      <4>2. ~(Stopping(g) /\ greenlet[h].source = greenlet[g].source)
        BY <1>0, <3>1, <3>2 DEF Stops
      <4> QED
        BY <2>4, <3>1, <3>2, <4>1, <4>2
    <3> QED
      BY <3>1, <3>2 DEF Stops
  <2>14. Deleting'
    <3>1. expiration[made'] = "none"
      BY <2>1 DEF Fresh
    <3>2. \A j \in Created : j # made' => expiration'[j] = expiration[j]
      BY <1>2 DEF TypeOK
    <3> QED
      BY <2>1, <2>2, <3>1, <3>2, Apart DEF Deleting
  <2>15. OneRequest'
    <3>1. ASSUME NEW r \in Requests, NEW q \in Requests, greenlet'[r] # Idle, greenlet'[q] # Idle,
                 greenlet'[r].name = greenlet'[q].name, greenlet'[r].name \notin raced'
          PROVE  r = q
      <4>1. r \in Greenlets /\ q \in Greenlets
        BY DEF Greenlets
      <4>2. CASE r # g /\ q # g
        BY <2>2, <3>1, <4>1, <4>2 DEF OneRequest
      <4>3. CASE r = g \/ q = g
        BY <2>2, <3>1, <4>1, <4>3 DEF Waits
      <4> QED
        BY <4>2, <4>3
    <3> QED
      BY <3>1 DEF OneRequest
  <2>16. Freed'
    <3>1. ASSUME NEW r \in Requests, greenlet'[r].pc = "replacing", greenlet'[r].name \notin raced'
          PROVE  sourceMap'[greenlet'[r].name] = NoSource
      <4>1. r \in Greenlets
        BY DEF Greenlets
      <4>2. r # g /\ greenlet'[r] = greenlet[r]
        BY <2>2, <3>1, <4>1 DEF Waits
      <4>3. greenlet[r] # Idle
        BY <3>1, <4>2 DEF Idle
      <4>4. greenlet[r].name # n
        BY <3>1, <4>2, <4>3
      <4>5. greenlet[r].name \in Names
        BY <4>1, <4>3 DEF TypeOK, Waiting
      <4> QED
        BY <2>7, <3>1, <4>2, <4>4, <4>5 DEF Freed
    <3> QED
      BY <3>1 DEF Freed
  <2>17. NotLost'
    <3>1. ASSUME NEW j \in 1 .. made', stopped'[j] = "no", nameOf'[j] \notin raced'
          PROVE  sourceMap'[nameOf'[j]] = j
      <4>1. CASE j = made'
        BY <2>7, <2>9, <4>1
      <4>2. CASE j \in 1 .. made
        <5>1. stopped[j] = "no" /\ nameOf'[j] = nameOf[j] /\ nameOf[j] \in Names
          BY <2>5, <2>8, <3>1, <4>2
        <5>2. sourceMap[nameOf[j]] = j
          BY <3>1, <4>2, <5>1 DEF NotLost
        <5>3. j # NoSource
          BY <4>2, ApiSourceAssumption DEF TypeOK
        <5>4. nameOf[j] # n
          BY <3>1, <5>1, <5>2, <5>3
        <5> QED
          BY <2>7, <5>1, <5>2, <5>4
      <4> QED
        BY <2>1, <3>1, <4>1, <4>2
    <3> QED
      BY <3>1 DEF NotLost
  <2> QED
    BY <2>10, <2>11, <2>12, <2>13, <2>14, <2>15, <2>16, <2>17
<1> QED
  BY <1>1, <1>2 DEF AddManaged

LEMMA InvStep == ASSUME ApiInv, [Next]_vars PROVE ApiInv'
<1>0. TypeOK'
  BY TypeStep DEF ApiInv
<1> USE <1>0
<1>1. ASSUME NEW r \in Requests, StartEnds(r) PROVE ApiInv'
  <2>1. r \in Greenlets
    BY DEF Greenlets
  <2>2. greenlet[r].source \in Created
    BY <1>1, <2>1 DEF ApiInv, StartEnds, TypeOK, Idle, Waiting
  <2>3. \A j \in Created : \/ expiration'[j] = expiration[j]
                           \/ expiration[j] = "built" /\ expiration'[j] = "counting"
    BY <1>1, <2>2 DEF ApiInv, StartEnds, TypeOK
  <2> QED
    BY <1>1, <2>1, <2>3, DoneKeeps DEF StartEnds
<1>2. ASSUME NEW r \in Requests, NEW n \in Names, Put(r, n) PROVE ApiInv'
  <2>1. /\ r \in Greenlets /\ greenlet[r] = Idle /\ raced \subseteq raced'
        /\ \A h \in Requests \ {r} : greenlet[h] # Idle /\ greenlet[h].name = n => n \in raced'
    BY <1>2 DEF Greenlets, Put, Race
  <2>2. CASE sourceMap[n] = NoSource /\ AddManaged(r, n) /\ UNCHANGED stopped
    BY <2>1, <2>2, AddKeeps
  <2>3. CASE sourceMap[n] # NoSource /\ DeleteManaged(r, n, "replacing", {})
    BY <2>1, <2>3, Apart, DeleteKeeps
  <2> QED
    BY <1>2, <2>2, <2>3 DEF Put
<1>3. ASSUME NEW r \in Requests, NEW n \in Names, Delete(r, n) PROVE ApiInv'
  <2>1. /\ r \in Greenlets /\ greenlet[r] = Idle /\ raced \subseteq raced'
        /\ \A h \in Requests \ {r} : greenlet[h] # Idle /\ greenlet[h].name = n => n \in raced'
    BY <1>3 DEF Greenlets, Delete, Race
  <2> QED
    BY <1>3, <2>1, Apart, DeleteKeeps DEF Delete
<1>4. ASSUME NEW g \in Greenlets, StopEnds(g) PROVE ApiInv'
  <2> DEFINE n == greenlet[g].name
             i == greenlet[g].source
  <2>1. Stopping(g) /\ raced' = raced /\ greenlet[g] # Idle
    BY <1>4 DEF StopEnds, Stopping, Idle
  <2>2. n \in Names /\ i \in Created
    BY <2>1 DEF ApiInv, TypeOK, Waiting
  <2>3. CASE /\ stopped' = [stopped EXCEPT ![i] = "stopped"]
             /\ greenlet[g].pc = "replacing" /\ AddManaged(g, n)
    <3>1. g \in Requests
      BY <2>1, <2>3 DEF ApiInv, Deleting, Greenlets
    <3>2. n \notin raced' => sourceMap[n] = NoSource
      BY <2>1, <2>3, <3>1 DEF ApiInv, Freed
    <3>3. \A h \in Requests \ {g} : greenlet[h] # Idle /\ greenlet[h].name = n => n \in raced'
      BY <2>1, <3>1 DEF ApiInv, OneRequest
    <3> QED
      BY <2>1, <2>2, <2>3, <3>1, <3>2, <3>3, AddKeeps
  <2>4. CASE /\ \E end \in {"stopped", "failed"} : stopped' = [stopped EXCEPT ![i] = end]
             /\ greenlet' = [greenlet EXCEPT ![g] = Idle]
             /\ UNCHANGED <<sourceMap, made, nameOf, running, expiration>>
    BY <2>1, <2>4, DoneKeeps
  <2> QED
    BY <1>4, <2>3, <2>4 DEF StopEnds
<1>5. ASSUME NEW i \in Created, Expire(i) PROVE ApiInv'
  <2>1. i \in Greenlets /\ i \notin Requests /\ raced' = raced /\ expiration[i] = "counting"
    BY <1>5, Apart DEF Expire
  <2>2. i \in 1 .. made /\ nameOf[i] \in Names
    BY <2>1 DEF ApiInv, Fresh, TypeOK, Created
  <2>3. CASE sourceMap[nameOf[i]] # NoSource /\ DeleteManaged(i, nameOf[i], "deleting", {i})
    <3>1. greenlet[i] = Idle
      BY <2>1 DEF ApiInv, Deleting
    <3>2. expiration'[i] = "cancelled"
      BY <2>1, <2>3 DEF DeleteManaged, Cancelled
    <3> QED
      BY <2>1, <2>2, <2>3, <3>1, <3>2, DeleteKeeps
  <2>4. CASE /\ expiration' = [expiration EXCEPT ![i] = "cancelled"]
             /\ UNCHANGED <<sourceMap, made, nameOf, running, stopped, greenlet>>
    <3>1. \A j \in Created : expiration'[j] = IF j = i THEN "cancelled" ELSE expiration[j]
      BY <2>4 DEF ApiInv, TypeOK
    <3>2. Fresh' /\ Cancels'
      BY <2>2, <2>4, <3>1 DEF ApiInv, Fresh, Cancels, TypeOK
    <3> QED
      BY <2>1, <2>4, <3>2 DEF ApiInv, Mapped, Stops, Stopping, Deleting, OneRequest, Freed, NotLost
  <2> QED
    BY <1>5, <2>3, <2>4 DEF Expire
<1>6. CASE UNCHANGED vars
  BY <1>6 DEF vars, ApiInv, Fresh, Cancels, Mapped, Stops, Stopping, Deleting, OneRequest, Freed,
              NotLost
<1> QED
  BY <1>1, <1>2, <1>3, <1>4, <1>5, <1>6 DEF Next

LEMMA InvInit == ASSUME Init PROVE ApiInv
<1>1. TypeOK /\ made = 0 /\ \A g \in Greenlets : greenlet[g] = Idle
  BY TypeInit DEF Init
<1>2. \A r \in Requests : r \in Greenlets
  BY DEF Greenlets
<1> QED
  BY <1>1, <1>2, Apart DEF Init, ApiInv, Fresh, Cancels, Mapped, Stops, Stopping, Deleting, OneRequest,
              Freed, NotLost, Idle

LEMMA InvAlways == Spec => []ApiInv
<1>1. ApiInv /\ [Next]_vars => ApiInv'
  BY InvStep
<1> QED
  BY InvInit, <1>1, PTL DEF Spec

\* The map, the sources and the greenlets of ApiSource keep their types.
THEOREM ApiTypeCorrect == Spec => []TypeOK
<1>1. ApiInv => TypeOK
  BY DEF ApiInv
<1> QED
  BY <1>1, InvAlways, PTL

\* However many requests and expirations meet in _delete_managed_source, no
\* source is stopped twice at a time or listed while it is stopped.
THEOREM StoppedByOne == Spec => []OneStopper
<1>1. ApiInv => OneStopper
  BY DEF ApiInv, Stops, Mapped, OneStopper
<1> QED
  BY <1>1, InvAlways, PTL

\* A source started under a name for which no requests overlapped stays in
\* _source_map until it is stopped, whatever expires in between.
THEOREM NothingLost == Spec => []NoLostSource
<1>1. ApiInv => NoLostSource
  BY DEF ApiInv, NotLost, NoLostSource
<1> QED
  BY <1>1, InvAlways, PTL

\* Under the same condition an Expiration deletes by name what it was made for.
THEOREM ExpirationOwn == Spec => ExpiresItself
<1> DEFINE Own == \A i \in 1 .. made :
                    nameOf[i] \notin raced /\ greenlet[i] = Idle /\ greenlet'[i] # Idle
                      => greenlet'[i].source = i
<1>1. ApiInv /\ [Next]_vars => [Own]_vars
  <2> SUFFICES ASSUME ApiInv, Next, NEW i \in 1 .. made, nameOf[i] \notin raced,
                      greenlet[i] = Idle, greenlet'[i] # Idle
               PROVE  greenlet'[i].source = i
    BY DEF vars
  <2>1. i \in Created /\ i \in Greenlets /\ i \notin Requests
    BY Apart, ApiSourceAssumption DEF ApiInv, TypeOK, Created
  <2>2. ASSUME NEW g \in Greenlets, g # i,
               \E state : greenlet' = [greenlet EXCEPT ![g] = state]
        PROVE  FALSE
    BY <2>1, <2>2 DEF ApiInv, TypeOK
  <2>3. ~\E r \in Requests : StartEnds(r) \/ \E n \in Names : Put(r, n) \/ Delete(r, n)
    BY <2>1, <2>2 DEF StartEnds, Put, Delete, AddManaged, DeleteManaged, Greenlets
  <2>4. ~\E g \in Greenlets : StopEnds(g)
    <3>1. ASSUME NEW g \in Greenlets, StopEnds(g) PROVE FALSE
      <4>1. g # i
        BY <3>1 DEF StopEnds, Idle
      <4> QED
        BY <2>2, <3>1, <4>1 DEF StopEnds, AddManaged
    <3> QED
      BY <3>1
  <2>5. PICK j \in Created : Expire(j)
    BY <2>3, <2>4 DEF Next
  <2>6. j \in Greenlets
    BY Apart
  <2>7. j = i
    BY <2>1, <2>2, <2>5, <2>6 DEF Expire, DeleteManaged
  <2>8. expiration[i] = "counting" /\ stopped[i] = "no"
    BY <2>1, <2>5, <2>7 DEF Expire, ApiInv, Cancels
  <2>9. sourceMap[nameOf[i]] = i
    BY <2>8 DEF ApiInv, NotLost
  <2>10. greenlet'[i] = Waits("deleting", nameOf[i], sourceMap[nameOf[i]])
    BY <2>1, <2>5, <2>7 DEF Expire, DeleteManaged, ApiInv, TypeOK
  <2> QED
    BY <2>9, <2>10 DEF Waits
<1> QED
  BY <1>1, InvAlways, PTL DEF Spec, ExpiresItself

-----------------------------------------------------------------------------
\* ManagedEndpoints adds to the steps of ApiSource, and changes none of them.
LEMMA ManagedSteps == ASSUME [ManagedNext]_managedVars PROVE [Next]_vars
<1>1. ASSUME NEW r \in Requests, ManagedStartEnds(r) \/ \E n \in Names : Requested(r, n)
      PROVE  Next
  BY <1>1 DEF ManagedStartEnds, Requested, Next
<1>2. ASSUME NEW g \in Greenlets, ManagedStopEnds(g) PROVE Next
  BY <1>2 DEF ManagedStopEnds, Next
<1>3. ASSUME NEW i \in Created, Expired(i) PROVE Next
  BY <1>3 DEF Expired, Next
<1>4. ASSUME NEW i \in Created, NEW e \in Endpoints, Joins(i, e) \/ Leaves(i, e)
      PROVE  UNCHANGED vars
  BY <1>4 DEF Joins, Leaves
<1>5. CASE UNCHANGED managedVars
  BY <1>5 DEF managedVars
<1> QED
  BY <1>1, <1>2, <1>3, <1>4, <1>5 DEF ManagedNext

\* With endpoints and calculators, an ApiSource is still an ApiSource: what the
\* theorems above say of requests and expirations holds of ManagedSpec.
THEOREM ManagedIsApiSource == ManagedSpec => Spec
<1>1. ManagedInit => Init
  BY DEF ManagedInit
<1>2. [ManagedNext]_managedVars => [Next]_vars
  BY ManagedSteps
<1> QED
  BY <1>1, <1>2, PTL DEF ManagedSpec, Spec

\* An endpoint never shared has one calculator exactly while a source has it.
Calculators ==
  /\ leaked \subseteq shared
  /\ \A e : e \notin shared => (e \in calcs <=> \E i \in Created : e \in has[i])
  /\ \A i, j \in Created : \A e : e \in has[i] /\ e \in has[j] /\ e \notin shared => i = j

\* has stays a function on the managed sources.
Had == \E f : has = [i \in Created |-> f[i]]

CalcInv == Had /\ Calculators

LEMMA AddsKeep ==
  ASSUME CalcInv, NEW i \in Created, NEW es, es \cap has[i] = {}, Adds(i, es)
  PROVE  CalcInv'
<1>1. has' = [j \in Created |-> IF j = i THEN has[i] \cup es ELSE has[j]]
  BY DEF Adds, CalcInv, Had
<1>2. Had'
  BY <1>1 DEF Had
<1>3. ASSUME NEW e \in es, e \notin shared' PROVE e \notin calcs /\ \A j \in Created : e \notin has[j]
  BY <1>3 DEF Adds, CalcInv, Calculators
<1> QED
  BY <1>1, <1>2, <1>3 DEF Adds, CalcInv, Calculators

LEMMA RemovesKeep ==
  ASSUME CalcInv, NEW i \in Created, NEW es \in SUBSET has[i], Removes(i, es)
  PROVE  CalcInv'
<1>1. has' = [j \in Created |-> IF j = i THEN has[i] \ es ELSE has[j]]
  BY DEF Removes, CalcInv, Had
<1>2. Had'
  BY <1>1 DEF Had
<1> QED
  BY <1>1, <1>2 DEF Removes, CalcInv, Calculators

LEMMA CalcStep ==
  ASSUME TypeOK, CalcInv, [ManagedNext]_managedVars
  PROVE  CalcInv'
<1>1. ASSUME NEW g \in Greenlets, greenlet[g] # Idle PROVE greenlet[g].source \in Created
  BY <1>1 DEF TypeOK, Waiting
<1>2. ASSUME UNCHANGED endpointVars PROVE CalcInv'
  BY <1>2 DEF endpointVars, CalcInv, Had, Calculators
<1>3. ASSUME NEW r \in Requests, ManagedStartEnds(r) PROVE CalcInv'
  <2>1. greenlet[r].source \in Created
    BY <1>1, <1>3 DEF ManagedStartEnds, Greenlets
  <2>2. PICK es \in SUBSET (Endpoints \ has[greenlet[r].source]) : Adds(greenlet[r].source, es)
    BY <1>3 DEF ManagedStartEnds
  <2> QED
    BY <2>1, <2>2, AddsKeep
<1>4. ASSUME NEW g \in Greenlets, ManagedStopEnds(g) PROVE CalcInv'
  <2>1. greenlet[g].source \in Created
    BY <1>1, <1>4 DEF ManagedStopEnds
  <2>2. PICK es \in SUBSET has[greenlet[g].source] : Removes(greenlet[g].source, es)
    BY <1>4 DEF ManagedStopEnds
  <2> QED
    BY <2>1, <2>2, RemovesKeep
<1>5. ASSUME NEW i \in Created, NEW e \in Endpoints, Joins(i, e) PROVE CalcInv'
  BY <1>5, AddsKeep DEF Joins
<1>6. ASSUME NEW i \in Created, NEW e \in Endpoints, Leaves(i, e) PROVE CalcInv'
  BY <1>6, RemovesKeep DEF Leaves
<1>7. CASE UNCHANGED managedVars
  BY <1>2, <1>7 DEF managedVars
<1>8. ASSUME NEW r \in Requests, NEW n \in Names, Requested(r, n) PROVE CalcInv'
  BY <1>2, <1>8 DEF Requested
<1>9. ASSUME NEW i \in Created, Expired(i) PROVE CalcInv'
  BY <1>2, <1>9 DEF Expired
<1> QED
  BY <1>3, <1>4, <1>5, <1>6, <1>7, <1>8, <1>9 DEF ManagedNext

LEMMA CalcAlways == ManagedSpec => [](ApiInv /\ CalcInv)
<1>1. ManagedInit => ApiInv /\ CalcInv
  <2>1. ManagedInit => CalcInv
    BY DEF ManagedInit, CalcInv, Had, Calculators
  <2> QED
    BY <2>1, InvInit DEF ManagedInit
<1>2. ApiInv /\ CalcInv /\ [ManagedNext]_managedVars => (ApiInv /\ CalcInv)'
  BY InvStep, CalcStep, ManagedSteps DEF ApiInv
<1> QED
  BY <1>1, <1>2, PTL DEF ManagedSpec

\* However requests, expirations, joins and leaves meet: an endpoint that no two
\* managed sources have had at a time can be read, and its calculator is gone when
\* no managed source has it any more.
THEOREM CalculatorsMatch == ManagedSpec => []UnsharedCalculated
<1>1. CalcInv => UnsharedCalculated
  BY DEF CalcInv, Calculators, UnsharedCalculated, Visible, Listed
<1> QED
  BY <1>1, CalcAlways, PTL
=============================================================================
