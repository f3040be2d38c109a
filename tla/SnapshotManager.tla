-------------------------- MODULE SnapshotManager --------------------------
(***************************************************************************)
(* Telemetry of an authenticated session (core/snapshot-manager.ts): one   *)
(* collection at a time, requests that arrive meanwhile coalesced into one *)
(* more, everything revoked by the end of the session.  The lifecycle      *)
(* manager calls start() when a session becomes ready, stop() when it      *)
(* ends.  Sending changes none of this state.                              *)
(*                                                                         *)
(* A captured generation number is abstracted to its age, as in Lifecycle. *)
(* job[j] is one execution of collect(), suspended at                      *)
(*   collecting   the five host collectors                                 *)
(*   compressing  gzip                                                     *)
(***************************************************************************)
EXTENDS Naturals, FiniteSets

CONSTANT Jobs   \* executions of collect() that may be suspended at once

VARIABLES
  active,     \* between start() and stop(), with the interval timer set
  inFlight,   \* SnapshotManager.inFlight
  pending,    \* SnapshotManager.pending
  job,        \* the suspended executions of collect()
  begun       \* history: this session has begun a collection

vars == <<active, inFlight, pending, job, begun>>

Ages == {"current", "stale"}
Triggers == {"startup", "manual", "interval"}
Free == [phase |-> "free", age |-> "stale"]
Running(age, phase) == [phase |-> phase, age |-> age]
At(j, phase) == job[j].phase = phase

Init ==
  /\ active = FALSE /\ inFlight = FALSE /\ pending = FALSE
  /\ job = [j \in Jobs |-> Free]
  /\ begun = FALSE

\* The generation counter moves on.
Aged == [j \in Jobs |-> [job[j] EXCEPT !.age = "stale"]]

\* Variants the checks must reject: the flag is not tested; only manual requests
\* are remembered.
CollectAnyway(trigger, jobs, flying, waiting, started) ==
  /\ inFlight' = TRUE
  /\ pending' = waiting
  /\ begun' = TRUE
  /\ IF \E j \in Jobs : jobs[j] = Free
     THEN \E j \in Jobs :
            /\ jobs[j] = Free
            /\ job' = [jobs EXCEPT ![j] = Running("current", "collecting")]
     ELSE job' = jobs
CollectManualOnly(trigger, jobs, flying, waiting, started) ==
  IF flying
  THEN /\ inFlight' = TRUE
       /\ pending' = (waiting \/ trigger = "manual")
       /\ job' = jobs
       /\ begun' = started
  ELSE /\ inFlight' = TRUE
       /\ pending' = waiting
       /\ begun' = TRUE
       /\ \E j \in Jobs :
            /\ jobs[j] = Free
            /\ job' = [jobs EXCEPT ![j] = Running("current", "collecting")]

\* collect(), up to its first await, called in a turn that left the jobs as
\* "jobs" and the flags as "flying", "waiting" and "started".
Collect(trigger, jobs, flying, waiting, started) ==
  IF flying
  THEN /\ inFlight' = TRUE
       /\ pending' = (waiting \/ trigger # "interval")
       /\ job' = jobs
       /\ begun' = started
  ELSE /\ inFlight' = TRUE
       /\ pending' = waiting
       /\ begun' = TRUE
       /\ \E j \in Jobs :
            /\ jobs[j] = Free
            /\ job' = [jobs EXCEPT ![j] = Running("current", "collecting")]

\* start() begins with a stop().
Start ==
  /\ ~active
  /\ active' = TRUE
  /\ Collect("startup", Aged, inFlight, FALSE, FALSE)

\* Variant the checks must reject: stop() forgets the pending request.
StopKeepsPending ==
  /\ active' = FALSE
  /\ begun' = FALSE
  /\ job' = Aged
  /\ UNCHANGED <<pending, inFlight>>

Stop ==
  /\ active' = FALSE
  /\ pending' = FALSE /\ begun' = FALSE
  /\ job' = Aged
  /\ UNCHANGED inFlight

\* The process ends; the next one has a new snapshot manager.
Reset ==
  /\ active' = FALSE /\ inFlight' = FALSE /\ pending' = FALSE
  /\ job' = [j \in Jobs |-> Free]
  /\ begun' = FALSE

\* The interval timer fires, or trigger() asks for a snapshot now.
Ask(trigger) ==
  /\ active
  /\ Collect(trigger, job, inFlight, pending, begun)
  /\ UNCHANGED active

\* The finally block: the flag is released, and what was asked for meanwhile
\* is collected at once.
Finally(j) ==
  LET rest == [job EXCEPT ![j] = Free] IN
  /\ IF pending /\ active
     THEN Collect("manual", rest, FALSE, FALSE, begun)
     ELSE inFlight' = FALSE /\ job' = rest /\ UNCHANGED <<pending, begun>>
  /\ UNCHANGED active

\* The collectors have settled; a failed one leaves its section empty.  A stale
\* collection ends here, and so does one whose required sections exceed the
\* byte budget.
Collected(j) ==
  /\ At(j, "collecting")
  /\ \/ /\ active /\ job[j].age = "current"
        /\ job' = [job EXCEPT ![j] = Running("current", "compressing")]
        /\ UNCHANGED <<active, inFlight, pending, begun>>
     \/ Finally(j)

\* gzip returns.  The snapshot is dropped if it is too large, or handed to
\* whatever transport is ready by now: the generation is not compared again.
Compressed(j) == At(j, "compressing") /\ Finally(j)

Next ==
  \/ Start \/ Stop \/ Reset
  \/ Ask("interval") \/ Ask("manual")
  \/ \E j \in Jobs : Collected(j) \/ Compressed(j)

Spec == Init /\ [][Next]_vars

-----------------------------------------------------------------------------
(* Properties. *)

Busy == {j \in Jobs : job[j] # Free}

\* Every variable keeps its type.
TypeOK ==
  /\ active \in BOOLEAN /\ inFlight \in BOOLEAN /\ pending \in BOOLEAN
  /\ job \in [Jobs -> {Free} \cup
       [phase : {"collecting", "compressing"}, age : Ages]]
  /\ begun \in BOOLEAN

\* Across restarts of the session the host is collected by at most one
\* execution at a time, and the flag is released with the last one.
OneCollection ==
  /\ inFlight <=> Busy # {}
  /\ \A i, j \in Busy : i = j

\* A coalesced request is never forgotten: it is kept only while a collection
\* is under way that will serve it, in the session that made it.
NoLostRequest == pending => inFlight /\ active
=============================================================================
