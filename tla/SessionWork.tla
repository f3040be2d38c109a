---------------------------- MODULE SessionWork ----------------------------
(***************************************************************************)
(* What the agent promises about tool calls, without queues, timers or     *)
(* counters: work is admitted and started only for the session that is     *)
(* open, never more of a kind than its concurrency at a time, a success is *)
(* reported only while that session is still open, and a closed session is *)
(* never open again.  A job is overdue when its caller was answered at the *)
(* deadline and its handler is still working.                              *)
(***************************************************************************)
EXTENDS Naturals, FiniteSets

CONSTANTS Jobs, Kinds, Concurrency, Generations

VARIABLES
  session,   \* the open generation, or 0
  latest,    \* the newest generation ever opened, or 0
  job        \* state, kind and generation of each job

vars == <<session, latest, job>>

Job(state, kind, gen) == [state |-> state, kind |-> kind, gen |-> gen]
Idle == Job("idle", "read", 0)
Ended == {"idle", "succeeded", "failed"}

\* Jobs of a kind whose handlers are at work, answered or not.
Working(k) ==
  {j \in Jobs : job[j].kind = k /\ job[j].state \in {"working", "overdue"}}

Init == session = 0 /\ latest = 0 /\ job = [j \in Jobs |-> Idle]

Refuse(j, k) ==
  /\ job[j].state \in Ended
  /\ job' = [job EXCEPT ![j] = Job("failed", k, 0)]
  /\ UNCHANGED <<session, latest>>

Admit(j, k) ==
  /\ session # 0
  /\ job[j].state \in Ended
  /\ job' = [job EXCEPT ![j] = Job("waiting", k, session)]
  /\ UNCHANGED <<session, latest>>

Begin(j) ==
  /\ job[j].state = "waiting" /\ job[j].gen = session
  /\ Cardinality(Working(job[j].kind)) < Concurrency[job[j].kind]
  /\ job' = [job EXCEPT ![j] = Job("working", job[j].kind, session)]
  /\ UNCHANGED <<session, latest>>

Succeed(j) ==
  /\ job[j].state = "working" /\ job[j].gen = session
  /\ job' = [job EXCEPT ![j] = Job("succeeded", job[j].kind, 0)]
  /\ UNCHANGED <<session, latest>>

Fail(j) ==
  /\ job[j].state \in {"waiting", "working", "overdue"}
  /\ job' = [job EXCEPT ![j] = Job("failed", job[j].kind, 0)]
  /\ UNCHANGED <<session, latest>>

Expire(j) ==
  /\ job[j].state = "working"
  /\ job' = [job EXCEPT ![j] = Job("overdue", job[j].kind, 0)]
  /\ UNCHANGED <<session, latest>>

\* A change of session may turn waiting jobs away at once.
Switch(g) ==
  /\ g = 0 \/ (g \in Generations /\ g > latest)
  /\ session' = g
  /\ latest' = IF g = 0 THEN latest ELSE g
  /\ \E out \in SUBSET {j \in Jobs : job[j].state = "waiting"} :
       job' = [j \in Jobs |-> IF j \in out THEN Job("failed", job[j].kind, 0)
                              ELSE job[j]]

Next ==
  \/ \E g \in {0} \cup Generations : Switch(g)
  \/ \E j \in Jobs :
       \/ \E k \in Kinds : Refuse(j, k) \/ Admit(j, k)
       \/ Begin(j) \/ Succeed(j) \/ Fail(j) \/ Expire(j)

Spec == Init /\ [][Next]_vars
=============================================================================
