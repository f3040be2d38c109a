---------------------------- MODULE ToolExecutor ----------------------------
(***************************************************************************)
(* Tool calls of an authenticated session (mcp/router.ts) through the      *)
(* bounded executor (tools/executor.ts): one gate of execution slots per   *)
(* capability, one queue budget shared by both gates, a deadline per call, *)
(* and revocation of everything a session had under way when it ends.      *)
(*                                                                         *)
(* The agent is one Node.js process.  Each action runs from one await to   *)
(* the next; call[c].phase names the await at which a call is suspended:   *)
(*   queued    in a gate's queue, with its queue timer running             *)
(*   granted   holds a slot, acquire() about to return                     *)
(*   running   the tool's handler and the execution timer are racing       *)
(*   settled   the handler has settled, execute() about to go on           *)
(*   draining  answered at its deadline; holds its slot until the handler  *)
(*             settles                                                     *)
(*   answered  the response is with the lifecycle manager                  *)
(* "granted" and "settled" are gaps of a few microtasks, in which another  *)
(* call's continuation can end the session.                                *)
(***************************************************************************)
EXTENDS Naturals, FiniteSets, SequencesExt

CONSTANTS
  Calls,         \* tools/call requests that may be outstanding at once
  Concurrency,   \* slots of each gate (4 read, 1 write in the code)
  QueueLimit,    \* the shared queue budget (16 in the code)
  Generations,   \* bound: connection generations that may be authenticated
  Results        \* kind -> what a handler of that kind may settle with

Kinds == {"read", "write"}
Codes == {"OK", "TOOL_NOT_ALLOWED", "WRITE_DISABLED", "INVALID_ARGUMENTS",
          "TOOL_BUSY", "TOOL_TIMEOUT", "PRECONDITION_FAILED",
          "OUTPUT_TOO_LARGE", "HOST_UNAVAILABLE", "INTERNAL_ERROR"}
\* The outcome a response's error data carries; "none" when it has no such key.
Outcomes == {"none", "failed", "not_started", "unknown"}
Reply == [code : Codes, outcome : Outcomes]

ASSUME ExecutorAssumption ==
  /\ IsFiniteSet(Calls)
  /\ Concurrency \in [Kinds -> Nat \ {0}]
  /\ QueueLimit \in Nat
  /\ Generations \subseteq Nat \ {0}
  /\ Results \in [Kinds -> SUBSET Reply]

VARIABLES
  policy,    \* McpRouter.policy and ToolExecutor.activeGeneration
  latest,    \* history: the newest generation a policy was set for
  slots,     \* Gate.active
  queue,     \* Gate.queue
  queued,    \* QueueBudget.queued
  call       \* each request's progress through execute()

vars == <<policy, latest, slots, queue, queued, call>>
session == <<policy, latest>>
gates == <<slots, queue, queued>>

NoPolicy == [generation |-> 0, write |-> FALSE]
Silent == [code |-> "INTERNAL_ERROR", outcome |-> "none"]
Idle == [phase |-> "idle", kind |-> "read", gen |-> 0, aborted |-> FALSE,
         started |-> FALSE, said |-> Silent, answer |-> Silent]
Phases == {"idle", "queued", "granted", "running", "settled", "draining",
           "answered"}

active == policy.generation
Kind(c) == call[c].kind
At(c, phase) == call[c].phase = phase
Free(c) == call[c].phase \in {"idle", "answered"}

Response(code, outcome) == [code |-> code, outcome |-> outcome]

\* The call has its answer; how it got there is kept for the properties.
Answered(c, answer) ==
  [call[c] EXCEPT !.phase = "answered", !.gen = 0, !.aborted = FALSE,
                  !.answer = answer]
Refused(k, answer) ==
  [Idle EXCEPT !.phase = "answered", !.kind = k, !.answer = answer]

\* Variant the checks must reject: errors keep whatever outcome they carry.
PlainFailure(c, answer) == answer

\* The catch block: a write that carries no outcome is reported unknown.
Ambiguous(c, answer) ==
  IF Kind(c) = "write" /\ answer.outcome = "none"
  THEN [answer EXCEPT !.outcome = "unknown"] ELSE answer
Revoked(c) == Ambiguous(c, Response("TOOL_NOT_ALLOWED", "none"))

\* Variant the checks must reject: retryable by its code alone.
RetryableCode(c) == call[c].answer.code \in {"TOOL_BUSY", "HOST_UNAVAILABLE"}

\* McpRouter's verdict on a failure it returns.
Retryable(c) ==
  /\ call[c].answer.code \in {"TOOL_BUSY", "HOST_UNAVAILABLE"}
  /\ Kind(c) = "read" \/ call[c].answer.outcome = "not_started"

Init ==
  /\ policy = NoPolicy /\ latest = 0
  /\ slots = [k \in Kinds |-> 0]
  /\ queue = [k \in Kinds |-> <<>>] /\ queued = 0
  /\ call = [c \in Calls |-> Idle]

-----------------------------------------------------------------------------
(* The session. *)

Cancelled(signal) ==
  [c \in Calls |->
     IF At(c, "queued")
     THEN Answered(c, Response("TOOL_NOT_ALLOWED", "none"))
     ELSE IF signal /\ call[c].phase \in {"running", "settled"}
          THEN [call[c] EXCEPT !.aborted = TRUE]
          ELSE call[c]]
Waiters == Len(queue["read"]) + Len(queue["write"])
NoWaiters == [k \in Kinds |-> <<>>]

\* Variants the checks must reject: the cancelled items stay in the budget; only
\* the waiting calls are cancelled.
CancelLeaks ==
  /\ queue' = NoWaiters /\ call' = Cancelled(TRUE)
  /\ UNCHANGED <<queued, slots>>
CancelWithoutAbort ==
  /\ queue' = NoWaiters /\ queued' = queued - Waiters
  /\ call' = Cancelled(FALSE)
  /\ UNCHANGED slots

\* Both queues are emptied, every waiting call is turned away, and every
\* registered controller is aborted, whatever its generation.
CancelQueued ==
  /\ queue' = NoWaiters /\ queued' = queued - Waiters
  /\ call' = Cancelled(TRUE)
  /\ UNCHANGED slots

\* setSessionPolicy: the lifecycle manager numbers its sessions upwards.
SetSessionPolicy(g, w) ==
  /\ g > latest
  /\ policy' = [generation |-> g, write |-> w]
  /\ latest' = g
  /\ IF active # 0 THEN CancelQueued ELSE UNCHANGED <<gates, call>>

ClearSessionPolicy ==
  /\ policy' = NoPolicy
  /\ CancelQueued
  /\ UNCHANGED latest

-----------------------------------------------------------------------------
(* A call up to its slot. *)

\* No session; or the tool is unknown or not allowed, writes are disabled, or
\* the arguments are invalid.  The router passes the policy of the moment, so
\* execute() sees its own generation active.
Refuse(c, k) ==
  /\ Free(c)
  /\ \E code \in {"TOOL_NOT_ALLOWED"}
          \cup (IF active = 0 THEN {} ELSE {"INVALID_ARGUMENTS"})
          \cup (IF active # 0 /\ k = "write" THEN {"WRITE_DISABLED"} ELSE {}) :
       call' = [call EXCEPT ![c] = Refused(k, Response(code, "none"))]
  /\ UNCHANGED <<session, gates>>

Permitted(c, k) == Free(c) /\ active # 0 /\ (k = "write" => policy.write)
Accepted(k, phase) ==
  [Idle EXCEPT !.phase = phase, !.kind = k, !.gen = active]

\* acquire(): a free slot, a place in the queue, or "queue is full".
Acquire(c, k) ==
  /\ Permitted(c, k)
  /\ slots[k] < Concurrency[k]
  /\ slots' = [slots EXCEPT ![k] = @ + 1]
  /\ call' = [call EXCEPT ![c] = Accepted(k, "granted")]
  /\ UNCHANGED <<session, queue, queued>>

Enqueue(c, k) ==
  /\ Permitted(c, k)
  /\ slots[k] >= Concurrency[k] /\ queued < QueueLimit
  /\ queued' = queued + 1
  /\ queue' = [queue EXCEPT ![k] = Append(@, c)]
  /\ call' = [call EXCEPT ![c] = Accepted(k, "queued")]
  /\ UNCHANGED <<session, slots>>

Saturated(c, k) ==
  /\ Permitted(c, k)
  /\ slots[k] >= Concurrency[k] /\ queued >= QueueLimit
  /\ call' = [call EXCEPT ![c] = Refused(k, Response("TOOL_BUSY", "none"))]
  /\ UNCHANGED <<session, gates>>

\* indexOf() and splice()
Spliced(s, c) ==
  IF \E i \in DOMAIN s : s[i] = c
  THEN RemoveAt(s, CHOOSE i \in DOMAIN s : s[i] = c)
  ELSE s

\* The queue timer fires first.
QueueTimeout(c) ==
  /\ At(c, "queued")
  /\ queue' = [queue EXCEPT ![Kind(c)] = Spliced(@, c)]
  /\ queued' = queued - 1
  /\ call' = [call EXCEPT ![c] =
                Answered(c, Response("TOOL_TIMEOUT", "not_started"))]
  /\ UNCHANGED <<session, slots>>

\* c goes on as "after", and d, which was waiting for a slot, gets one.
HandOver(c, after, d) ==
  [e \in Calls |-> IF e = c THEN after
                   ELSE IF e = d THEN [call[e] EXCEPT !.phase = "granted"]
                   ELSE call[e]]
FreeSlot(c, after) ==
  /\ queue[Kind(c)] = <<>>
  /\ slots' = [slots EXCEPT ![Kind(c)] = @ - 1]
  /\ call' = [call EXCEPT ![c] = after]
  /\ UNCHANGED <<queue, queued>>

\* Variants the checks must reject: the slot is freed and handed over as well;
\* the newest waiter is served first.
LeaveTwice(c, after) ==
  \/ FreeSlot(c, after)
  \/ /\ queue[Kind(c)] # <<>>
     /\ slots' = [slots EXCEPT ![Kind(c)] = @ - 1]
     /\ queue' = [queue EXCEPT ![Kind(c)] = Tail(@)]
     /\ queued' = queued - 1
     /\ call' = HandOver(c, after, Head(queue[Kind(c)]))
LeaveNewestFirst(c, after) ==
  \/ FreeSlot(c, after)
  \/ /\ queue[Kind(c)] # <<>>
     /\ queue' = [queue EXCEPT ![Kind(c)] = Front(@)]
     /\ queued' = queued - 1
     /\ call' = HandOver(c, after, Last(queue[Kind(c)]))
     /\ UNCHANGED slots

\* release(): c leaves its slot, to the head of its gate's queue if there is
\* one; the slot is then never free in between.
Leave(c, after) ==
  \/ FreeSlot(c, after)
  \/ /\ queue[Kind(c)] # <<>>
     /\ queue' = [queue EXCEPT ![Kind(c)] = Tail(@)]
     /\ queued' = queued - 1
     /\ call' = HandOver(c, after, Head(queue[Kind(c)]))
     /\ UNCHANGED slots

-----------------------------------------------------------------------------
(* A call in its slot. *)

Started(c) ==
  /\ call' = [call EXCEPT ![c] =
                [@ EXCEPT !.phase = "running", !.started = TRUE]]
  /\ UNCHANGED <<session, gates>>

\* Variant the checks must reject: the generation is not tested again.
BeginAnyway(c) == At(c, "granted") /\ Started(c)

\* acquire() returns: the generation is tested again, then the handler starts.
Begin(c) == At(c, "granted") /\ call[c].gen = active /\ Started(c)

TurnBack(c) ==
  /\ At(c, "granted")
  /\ call[c].gen # active
  /\ Leave(c, Answered(c, Revoked(c)))
  /\ UNCHANGED session

\* The handler's promise settles: by itself, or because it was aborted.
HandlerSettles(c) ==
  /\ At(c, "running")
  /\ \E r \in Results[Kind(c)] :
       call' = [call EXCEPT ![c] = [@ EXCEPT !.phase = "settled", !.said = r]]
  /\ UNCHANGED <<session, gates>>

\* A result is returned only to the session that asked for it, and only if
\* there is one and it is small enough; an error whatever the session.
Verdicts(c) ==
  IF call[c].said.code # "OK" THEN {call[c].said}
  ELSE IF call[c].gen # active THEN {Response("TOOL_NOT_ALLOWED", "none")}
  ELSE {call[c].said, Response("INTERNAL_ERROR", "none"),
        Response("OUTPUT_TOO_LARGE", "none")}

Finish(c) ==
  /\ At(c, "settled")
  /\ \E r \in Verdicts(c) :
       Leave(c, Answered(c, IF r.code = "OK" THEN r ELSE Ambiguous(c, r)))
  /\ UNCHANGED session

Expired(c) ==
  [Answered(c, Ambiguous(c, Response("TOOL_TIMEOUT", "none")))
     EXCEPT !.phase = "draining"]

\* Variants the checks must reject: the slot is released at the deadline; a
\* revoked call's timer is cleared.
TimeoutReleases(c) ==
  At(c, "running") /\ Leave(c, Expired(c)) /\ UNCHANGED session
TimeoutUnlessAborted(c) ==
  /\ At(c, "running") /\ ~call[c].aborted
  /\ call' = [call EXCEPT ![c] = Expired(c)]
  /\ UNCHANGED <<session, gates>>

\* The execution timer fires: the handler is aborted and the call answered,
\* but its slot stays taken.
ExecutionTimeout(c) ==
  /\ At(c, "running")
  /\ call' = [call EXCEPT ![c] = Expired(c)]
  /\ UNCHANGED <<session, gates>>

\* The abandoned handler settles at last.
Drained(c) ==
  /\ At(c, "draining")
  /\ Leave(c, [call[c] EXCEPT !.phase = "answered"])
  /\ UNCHANGED session

Proceed(c) == Begin(c) \/ TurnBack(c) \/ Finish(c)

Next ==
  \/ ClearSessionPolicy
  \/ \E g \in Generations, w \in BOOLEAN : SetSessionPolicy(g, w)
  \/ \E c \in Calls :
       \/ \E k \in Kinds :
            Refuse(c, k) \/ Acquire(c, k) \/ Enqueue(c, k) \/ Saturated(c, k)
       \/ QueueTimeout(c) \/ HandlerSettles(c) \/ ExecutionTimeout(c)
       \/ Proceed(c) \/ Drained(c)

Spec == Init /\ [][Next]_vars

\* Continuations run, execution timers fire, and an aborted handler settles
\* (child processes are killed, the helper socket is destroyed).  No queue
\* timer and no handler is assumed to help otherwise.
FairSpec ==
  Spec /\ \A c \in Calls :
    WF_vars(Proceed(c)) /\ WF_vars(ExecutionTimeout(c)) /\ WF_vars(Drained(c))

-----------------------------------------------------------------------------
(* Properties. *)

Holding == {"granted", "running", "settled", "draining"}
Holders(k) == {c \in Calls : call[c].phase \in Holding /\ Kind(c) = k}
Waiting(k) == {c \in Calls : At(c, "queued") /\ Kind(c) = k}

\* Every variable keeps its type, and no gate queues a call twice.
TypeOK ==
  /\ policy \in [generation : {0} \cup Generations, write : BOOLEAN]
  /\ latest \in {0} \cup Generations
  /\ slots \in [Kinds -> Nat]
  /\ queue \in [Kinds -> Seq(Calls)]
  /\ queued \in Nat
  /\ call \in [Calls -> [phase : Phases, kind : Kinds,
                         gen : {0} \cup Generations, aborted : BOOLEAN,
                         started : BOOLEAN, said : Reply, answer : Reply]]

\* Through hand-offs, timeouts, aborts and revocations a gate counts exactly
\* the calls that hold its slots, and never more than its concurrency; a call
\* waits only while every slot is taken (executor.ts:47-80, 182).
SlotsAccounted ==
  \A k \in Kinds :
    /\ slots[k] = Cardinality(Holders(k))
    /\ slots[k] <= Concurrency[k]
    /\ queue[k] # <<>> => slots[k] = Concurrency[k]

\* The two gates share one budget that neither leaks nor overdraws: it counts
\* the queued calls of both, each in its own gate's queue once
\* (executor.ts:35-40, 49-71).
BudgetAccounted ==
  /\ queued = Len(queue["read"]) + Len(queue["write"])
  /\ queued <= QueueLimit
  /\ \A k \in Kinds :
       /\ ToSet(queue[k]) = Waiting(k)
       /\ Len(queue[k]) = Cardinality(Waiting(k))

\* A change of session reaches everything under way: no call waits for a
\* session that is not open, and every handler of another session has had its
\* signal aborted (executor.ts:100-105, 185-188).
RevokedWorkStopped ==
  \A c \in Calls :
    /\ At(c, "queued") => call[c].gen = active
    /\ call[c].phase \in {"running", "settled"} =>
         call[c].gen = active \/ call[c].aborted

\* A write whose handler was started is answered with what the handler
\* definitely said, or is reported as unknown: no timeout, revocation,
\* truncation or error in between turns it into a plain failure.
HonestWrite ==
  \A c \in Calls :
    call[c].phase \in {"draining", "answered"} /\ Kind(c) = "write"
      /\ call[c].started =>
        \/ call[c].answer.outcome = "unknown"
        \/ /\ call[c].answer = call[c].said
           /\ \/ call[c].said.code = "OK"
              \/ call[c].said.outcome \in {"failed", "not_started"}

\* The control plane is told to retry a write only if nothing was started.
RetrySafe ==
  \A c \in Calls :
    At(c, "answered") /\ Kind(c) = "write" /\ Retryable(c) =>
      ~call[c].started \/ call[c].said.outcome = "not_started"

\* Together: what is said of a write, and whether it may be repeated, never
\* claims more than is known (executor.ts:152-180, router.ts:44-52).
WritesReported == HonestWrite /\ RetrySafe

\* The executor, with its queues, timers and counters, keeps the promise of
\* SessionWork.
Stage(phase) ==
  IF phase \in {"queued", "granted"} THEN "waiting"
  ELSE IF phase \in {"running", "settled"} THEN "working"
  ELSE IF phase = "draining" THEN "overdue" ELSE "idle"
JobOf(c) ==
  [state |-> IF At(c, "answered")
             THEN IF call[c].answer.code = "OK" THEN "succeeded" ELSE "failed"
             ELSE Stage(call[c].phase),
   kind |-> Kind(c), gen |-> call[c].gen]
Promise == INSTANCE SessionWork WITH
  Jobs <- Calls, session <- active, job <- [c \in Calls |-> JobOf(c)]
KeepsSessionPromise == Promise!Spec

\* Even if its queue timer never fires, a waiting call gets a slot or is turned
\* away: hand-off is in order of arrival, and no slot is lost.
NobodyStarves == \A c \in Calls : At(c, "queued") ~> ~At(c, "queued")

\* Every slot that is taken is given back.
SlotsReturned == \A c \in Calls :
  call[c].phase \in Holding ~> call[c].phase \notin Holding

\* Together: whatever is asked of the executor is over some day (executor.ts:47-80,
\* 152-182).
CallsEnd == NobodyStarves /\ SlotsReturned
=============================================================================
