--------------------------- MODULE Telemetry_proofs ---------------------------
(***************************************************************************)
(* Telemetry in its sessions: at most one collection at a time and no      *)
(* request lost, for any number of executions, backoff cap and bound on    *)
(* stray timers.  The lifecycle manager takes the same steps with its      *)
(* snapshot manager as without, so what Lifecycle_proofs shows of it holds *)
(* here too.                                                               *)
(***************************************************************************)
EXTENDS Telemetry, Lifecycle_proofs

\* What the snapshot manager is built on: one collection, no request lost.
Collections ==
  Snapshots!TypeOK /\ Snapshots!OneCollection /\ Snapshots!NoLostRequest

Busy(j) == job[j] # Snapshots!Free

\* The same said of single executions: the flag is set exactly while one runs,
\* and no two run.
LEMMA OneByOne ==
  /\ Snapshots!OneCollection <=>
       /\ inFlight <=> \E j \in Jobs : Busy(j)
       /\ \A i, j \in Jobs : Busy(i) /\ Busy(j) => i = j
  /\ Snapshots!OneCollection' <=>
       /\ inFlight' <=> \E j \in Jobs : Busy(j)'
       /\ \A i, j \in Jobs : Busy(i)' /\ Busy(j)' => i = j
  BY DEF Snapshots!OneCollection, Snapshots!Busy, Busy

\* The jobs that collect() may be called with.
Slots == {Snapshots!Free} \cup
           [phase : {"collecting", "compressing"}, age : Snapshots!Ages]

\* The end of a session ages its executions and ends none of them.
LEMMA AgedFacts ==
  ASSUME Snapshots!TypeOK
  PROVE  /\ Snapshots!Aged \in [Jobs -> Slots]
         /\ \A j \in Jobs : (Snapshots!Aged[j] = Snapshots!Free) <=> ~Busy(j)
<1> SUFFICES ASSUME NEW j \in Jobs
             PROVE  /\ [job[j] EXCEPT !.age = "stale"] \in Slots
                    /\ ([job[j] EXCEPT !.age = "stale"] = Snapshots!Free) <=> ~Busy(j)
  BY DEF Snapshots!Aged
<1>1. CASE job[j] = Snapshots!Free
  <2>1. [job[j] EXCEPT !.age = "stale"] = Snapshots!Free
    BY <1>1 DEF Snapshots!Free
  <2>2. QED  BY <1>1, <2>1 DEF Slots, Busy
<1>2. CASE job[j] \in [phase : {"collecting", "compressing"}, age : Snapshots!Ages]
  <2>1. [job[j] EXCEPT !.age = "stale"] \in
          [phase : {"collecting", "compressing"}, age : Snapshots!Ages]
    BY <1>2 DEF Snapshots!Ages
  <2>2. /\ job[j].phase # "free"
        /\ [job[j] EXCEPT !.age = "stale"].phase # "free"
    BY <1>2, <2>1
  <2>3. QED  BY <2>1, <2>2 DEF Slots, Busy, Snapshots!Free
<1>3. QED  BY <1>1, <1>2 DEF Snapshots!TypeOK

\* Called with the flag telling whether any of the jobs runs, and none of them
\* twice, collect() leaves the flag so.
LEMMA CollectKeeps ==
  ASSUME NEW trigger, NEW jobs \in [Jobs -> Slots], NEW flying \in BOOLEAN,
         NEW waiting \in BOOLEAN, NEW started \in BOOLEAN,
         flying <=> \E j \in Jobs : jobs[j] # Snapshots!Free,
         \A i, j \in Jobs : jobs[i] # Snapshots!Free /\ jobs[j] # Snapshots!Free => i = j,
         session'.telemetry = TRUE,
         Snapshots!Collect(trigger, jobs, flying, waiting, started)
  PROVE  Collections'
<1>1. inFlight' = TRUE /\ pending' \in BOOLEAN /\ begun' \in BOOLEAN
  BY DEF Snapshots!Collect
<1>2. /\ job' \in [Jobs -> Slots]
      /\ \E j \in Jobs : job'[j] # Snapshots!Free
      /\ \A i, j \in Jobs : job'[i] # Snapshots!Free /\ job'[j] # Snapshots!Free => i = j
  <2>1. CASE flying
    BY <2>1 DEF Snapshots!Collect
  <2>2. CASE ~flying
    <3>1. PICK j \in Jobs :
            job' = [jobs EXCEPT ![j] = Snapshots!Running("current", "collecting")]
      BY <2>2 DEF Snapshots!Collect
    <3> DEFINE new == Snapshots!Running("current", "collecting")
    <3>2. new \in Slots /\ new # Snapshots!Free
      BY DEF Slots, Snapshots!Running, Snapshots!Ages, Snapshots!Free
    <3> HIDE DEF new
    <3>3. \A i \in Jobs : job'[i] = IF i = j THEN new ELSE jobs[i]
      BY <3>1 DEF new
    <3>4. job' \in [Jobs -> Slots]
      BY <3>1, <3>2 DEF new
    <3>5. QED  BY <2>2, <3>2, <3>3, <3>4
  <2>3. QED  BY <2>1, <2>2
<1>3. Snapshots!TypeOK'
  BY <1>1, <1>2 DEF Snapshots!TypeOK, Slots
<1>4. Snapshots!OneCollection'
  BY <1>1, <1>2, OneByOne DEF Busy
<1>5. QED  BY <1>1, <1>3, <1>4 DEF Collections, Snapshots!NoLostRequest

\* No collection, no request.
LEMMA CollectionsStart == Snapshots!Init => Collections
<1> SUFFICES ASSUME Snapshots!Init PROVE Collections
  OBVIOUS
<1>1. ~inFlight /\ ~pending /\ \A j \in Jobs : ~Busy(j)
  BY DEF Snapshots!Init, Busy
<1>2. Snapshots!OneCollection
  BY <1>1, OneByOne
<1>3. QED
  BY <1>1, <1>2 DEF Snapshots!Init, Snapshots!TypeOK, Collections, Snapshots!NoLostRequest

\* A session that starts or ends, or a process that ends.
LEMMA SessionKeeps ==
  ASSUME Collections, Snapshots!Start \/ Snapshots!Stop \/ Snapshots!Reset
  PROVE  Collections'
<1>1. /\ Snapshots!TypeOK
      /\ inFlight <=> \E j \in Jobs : Busy(j)
      /\ \A i, j \in Jobs : Busy(i) /\ Busy(j) => i = j
  BY OneByOne DEF Collections
<1>2. /\ Snapshots!Aged \in [Jobs -> Slots]
      /\ \A j \in Jobs : (Snapshots!Aged[j] = Snapshots!Free) <=> ~Busy(j)
  BY <1>1, AgedFacts
<1>3. CASE Snapshots!Start
  <2>1. Snapshots!Collect("startup", Snapshots!Aged, inFlight, FALSE, FALSE)
        /\ session'.telemetry = TRUE
    BY <1>3 DEF Snapshots!Start
  <2>2. inFlight \in BOOLEAN
    BY <1>1 DEF Snapshots!TypeOK
  <2>3. QED  BY <1>1, <1>2, <2>1, <2>2, CollectKeeps
<1>4. CASE Snapshots!Stop
  <2>1. /\ session'.telemetry = FALSE /\ pending' = FALSE /\ begun' = FALSE
        /\ job' = Snapshots!Aged /\ inFlight' = inFlight
    BY <1>4 DEF Snapshots!Stop
  <2>2. \A j \in Jobs : Busy(j)' <=> Busy(j)
    BY <1>2, <2>1 DEF Busy
  <2>3. Snapshots!OneCollection'
    BY <1>1, <2>1, <2>2, OneByOne
  <2>4. Snapshots!TypeOK'
    BY <1>1, <1>2, <2>1 DEF Snapshots!TypeOK, Slots
  <2>5. QED  BY <2>1, <2>3, <2>4 DEF Collections, Snapshots!NoLostRequest
<1>5. CASE Snapshots!Reset
  <2>1. ~inFlight' /\ ~pending' /\ \A j \in Jobs : ~Busy(j)'
    BY <1>5 DEF Snapshots!Reset, Busy
  <2>2. Snapshots!OneCollection'
    BY <2>1, OneByOne
  <2>3. QED
    BY <1>5, <2>1, <2>2 DEF Snapshots!Reset, Snapshots!TypeOK, Collections, Snapshots!NoLostRequest
<1>6. QED  BY <1>3, <1>4, <1>5

\* A timer or a request asks for a collection.
LEMMA AskKeeps ==
  ASSUME Collections, NEW trigger, Snapshots!Ask(trigger)
  PROVE  Collections'
<1>1. /\ Snapshots!TypeOK
      /\ inFlight <=> \E j \in Jobs : Busy(j)
      /\ \A i, j \in Jobs : Busy(i) /\ Busy(j) => i = j
  BY OneByOne DEF Collections
<1>2. Snapshots!Collect(trigger, job, inFlight, pending, begun)
      /\ session'.telemetry = TRUE
  BY <1>1 DEF Snapshots!Ask, Snapshots!TypeOK
<1>3. /\ job \in [Jobs -> Slots]
      /\ inFlight \in BOOLEAN /\ pending \in BOOLEAN /\ begun \in BOOLEAN
  BY <1>1 DEF Snapshots!TypeOK, Slots
<1>4. /\ inFlight <=> \E j \in Jobs : job[j] # Snapshots!Free
      /\ \A i, j \in Jobs : job[i] # Snapshots!Free /\ job[j] # Snapshots!Free => i = j
  BY <1>1 DEF Busy
<1>5. QED  BY <1>2, <1>3, <1>4, CollectKeeps

\* The finally block of the one execution that runs: no other is left, and a
\* pending request is one of an active session.
LEMMA FinallyKeeps ==
  ASSUME Collections, NEW j \in Jobs, Busy(j), Snapshots!Finally(j)
  PROVE  Collections'
<1> DEFINE rest == [job EXCEPT ![j] = Snapshots!Free]
<1>1. /\ Snapshots!TypeOK
      /\ inFlight <=> \E i \in Jobs : Busy(i)
      /\ \A i, k \in Jobs : Busy(i) /\ Busy(k) => i = k
      /\ pending => inFlight /\ session.telemetry
  BY OneByOne DEF Collections, Snapshots!NoLostRequest
<1>2. /\ job \in [Jobs -> Slots] /\ session.telemetry \in BOOLEAN
      /\ pending \in BOOLEAN /\ begun \in BOOLEAN
  BY <1>1 DEF Snapshots!TypeOK, Slots
<1>3. rest \in [Jobs -> Slots] /\ \A i \in Jobs : rest[i] = Snapshots!Free
  BY <1>1, <1>2 DEF Slots, Busy
<1> HIDE DEF rest
<1>4. CASE pending /\ session.telemetry
  <2>1. Snapshots!Collect("manual", rest, FALSE, FALSE, begun)
        /\ session'.telemetry = TRUE
    BY <1>2, <1>4 DEF Snapshots!Finally, rest
  <2>2. QED  BY <1>2, <1>3, <2>1, CollectKeeps
<1>5. CASE ~(pending /\ session.telemetry)
  <2>1. /\ inFlight' = FALSE /\ job' = rest /\ pending' = pending /\ begun' = begun
        /\ session'.telemetry = session.telemetry
    BY <1>5 DEF Snapshots!Finally, rest
  <2>2. pending = FALSE
    BY <1>1, <1>2, <1>5
  <2>3. \A i \in Jobs : ~Busy(i)'
    BY <1>3, <2>1 DEF Busy
  <2>4. Snapshots!OneCollection'
    BY <2>1, <2>3, OneByOne
  <2>5. Snapshots!TypeOK'
    BY <1>2, <1>3, <2>1 DEF Snapshots!TypeOK, Slots
  <2>6. QED  BY <2>1, <2>2, <2>4, <2>5 DEF Collections, Snapshots!NoLostRequest
<1>6. QED  BY <1>4, <1>5

\* An execution goes on from one of its awaits.
LEMMA ExecutionKeeps ==
  ASSUME Collections, NEW j \in Jobs, Snapshots!Collected(j) \/ Snapshots!Compressed(j)
  PROVE  Collections'
<1>1. Busy(j)
  BY DEF Snapshots!Collected, Snapshots!Compressed, Snapshots!At, Busy, Snapshots!Free
<1>2. CASE Snapshots!Finally(j)
  BY <1>1, <1>2, FinallyKeeps
<1>3. CASE /\ job' = [job EXCEPT ![j] = Snapshots!Running("current", "compressing")]
           /\ UNCHANGED <<session.telemetry, inFlight, pending, begun>>
  <2> DEFINE new == Snapshots!Running("current", "compressing")
  <2>1. new \in Slots /\ new # Snapshots!Free
    BY DEF Slots, Snapshots!Running, Snapshots!Ages, Snapshots!Free
  <2>2. job \in [Jobs -> Slots]
    BY DEF Collections, Snapshots!TypeOK, Slots
  <2> HIDE DEF new
  <2>3. job' \in [Jobs -> Slots]
    BY <1>3, <2>1, <2>2 DEF new
  <2>4. \A i \in Jobs : Busy(i)' <=> Busy(i)
    BY <1>1, <1>3, <2>1, <2>2 DEF Busy, new
  <2>5. Snapshots!OneCollection'
    BY <1>3, <2>4, OneByOne DEF Collections
  <2>6. Snapshots!TypeOK'
    BY <1>3, <2>3 DEF Collections, Snapshots!TypeOK, Slots
  <2>7. QED  BY <1>3, <2>5, <2>6 DEF Collections, Snapshots!NoLostRequest
<1>4. QED  BY <1>2, <1>3 DEF Snapshots!Collected, Snapshots!Compressed

\* Every step of the snapshot manager keeps the invariant.
LEMMA CollectionSteps ==
  Collections /\ [Snapshots!Next]_(Snapshots!vars) => Collections'
<1> SUFFICES ASSUME Collections, [Snapshots!Next]_(Snapshots!vars) PROVE Collections'
  OBVIOUS
<1>1. CASE Snapshots!Start \/ Snapshots!Stop \/ Snapshots!Reset
  BY <1>1, SessionKeeps
<1>2. CASE Snapshots!Ask("interval") \/ Snapshots!Ask("manual")
  BY <1>2, AskKeeps
<1>3. CASE \E j \in Jobs : Snapshots!Collected(j) \/ Snapshots!Compressed(j)
  BY <1>3, ExecutionKeeps
<1>4. CASE UNCHANGED Snapshots!vars
  BY <1>4 DEF Snapshots!vars, Collections, Snapshots!TypeOK, Snapshots!OneCollection,
              Snapshots!NoLostRequest, Snapshots!Busy
<1>5. QED  BY <1>1, <1>2, <1>3, <1>4 DEF Snapshots!Next

\* Whatever the connection does, it starts and stops telemetry in the pattern
\* the snapshot manager is written for (lifecycle.ts:129, 135-140).
THEOREM ContractIsKept == TelemetrySpec => KeepsSnapshotContract
<1>1. TelemetryInit => Snapshots!Init
  BY DEF TelemetryInit
<1>2. [TelemetryNext]_allvars => [Snapshots!Next]_(Snapshots!vars)
  <2> SUFFICES ASSUME [TelemetryNext]_allvars
               PROVE  [Snapshots!Next]_(Snapshots!vars)
    OBVIOUS
  <2>1. CASE Next /\ Coupled
    BY <2>1 DEF Coupled, Snapshots!Next, Snapshots!vars, telemetry
  <2>2. CASE Collecting
    BY <2>2 DEF Collecting, Snapshots!Next
  <2>3. CASE UNCHANGED allvars
    BY <2>3 DEF allvars, vars, owner, transport, handshake, leftover, telemetry, Snapshots!vars
  <2>4. QED  BY <2>1, <2>2, <2>3 DEF TelemetryNext
<1>3. QED
  BY <1>1, <1>2, PTL DEF TelemetrySpec, KeepsSnapshotContract, Snapshots!Spec

\* The invariant holds in every reachable state.
LEMMA CollectionsHold == TelemetrySpec => []Collections
<1>1. KeepsSnapshotContract => []Collections
  BY CollectionsStart, CollectionSteps, PTL DEF KeepsSnapshotContract, Snapshots!Spec
<1>2. QED  BY <1>1, ContractIsKept, PTL

\* The lifecycle manager's steps are those of Lifecycle alone.
LEMMA SameLifecycle == TelemetrySpec => Spec
<1>1. [TelemetryNext]_allvars => [Next]_vars
  BY DEF TelemetryNext, Collecting, allvars
<1>2. QED  BY <1>1, PTL DEF TelemetrySpec, TelemetryInit, Spec

\* Every reachable state of connection and telemetry is well typed.
THEOREM TelemetryTypeCorrect == TelemetrySpec => []TelemetryTypeOK
  BY SameLifecycle, TypeCorrect, CollectionsHold, PTL DEF Collections, TelemetryTypeOK

\* At most one collection of the host runs at a time, across sessions
\* (snapshot-manager.ts:39-43, 98-102).
THEOREM OneAtATime == TelemetrySpec => []OneCollection
  BY CollectionsHold, PTL DEF Collections, OneCollection

\* A coalesced request is kept only while a collection is under way that will
\* serve it (snapshot-manager.ts:40, 99-101).
THEOREM RequestsAreServed == TelemetrySpec => []NoLostRequest
  BY CollectionsHold, PTL DEF Collections, NoLostRequest

\* The two together: what the run of the small instance checks.
THEOREM CollectionsAreShared == TelemetrySpec => []CollectionsShared
  BY CollectionsHold, PTL DEF Collections, CollectionsShared, OneCollection, NoLostRequest
=============================================================================
