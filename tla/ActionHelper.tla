---------------------------- MODULE ActionHelper ----------------------------
(***************************************************************************)
(* The root-owned helper that restarts one allowlisted unit (actions/      *)
(* helper.ts) with its durable ledger of receipts (actions/ledger.ts).     *)
(*                                                                         *)
(* The helper is one Node.js process: everything between two awaits is one *)
(* step, and requests on different connections interleave at the awaits.   *)
(* conn[c].phase names the await at which the request on connection c is   *)
(* suspended.  A crash loses every connection and the busy flag; only the  *)
(* ledger survives.  The unit and the restart job systemd has queued for   *)
(* it live outside the helper and survive it too.                          *)
(***************************************************************************)
EXTENDS Naturals, FiniteSets

CONSTANTS
  Conns,          \* connections that may be open at the same time
  Ops,            \* operation IDs
  Invocations,    \* bound: the unit's invocation IDs, 0 .. MaxInvocation
  Requests,       \* the restart requests clients may send
  LedgerLimit     \* records prune() keeps (1000 in the code)

NoRecord == [done |-> FALSE, outcome |-> "none"]

\* invs: the expected_invocation_id, or every ID when that field is absent.
Request == [op : Ops, active : BOOLEAN, invs : SUBSET Invocations]

ASSUME HelperAssumption ==
  /\ Invocations \subseteq Nat /\ 0 \in Invocations
  /\ Requests # {} /\ Requests \subseteq Request
  /\ LedgerLimit \in Nat \ {0}

VARIABLES
  running,   \* the helper process is up and listening
  conn,      \* the request on each connection and where it is suspended
  busy,      \* ActionHelper.busy
  ledger,    \* op -> receipt; the durable directory of records
  older,     \* <<a, b>>: record a was last written before record b (mtime)
  unit,      \* the systemd unit: active state and invocation ID
  job,       \* systemd has a restart job queued for the unit
  commands,  \* history: restart commands issued for op since its record began
  told       \* history: definite outcomes delivered to senders of a request

vars == <<running, conn, busy, ledger, older, unit, job, commands, told>>
host == <<unit, job>>

Definite == {"success", "failed"}
Outcome == Definite \cup {"not_started", "unknown"}
\* Awaits after busy has been claimed, in program order.
Held == {"before", "put1", "synced1", "restart", "after", "put2", "synced2"}
Phase == {"closed", "policy", "ledger"} \cup Held
Unit == [active : BOOLEAN, inv : Invocations]
InProgress == [done : {FALSE}, outcome : {"unknown"}, request : Request]
Completed == [done : {TRUE}, outcome : {"success", "failed", "unknown"},
              request : Request]
Record == InProgress \cup Completed
Closed == [phase |-> "closed"]
Pending == [phase : Phase \ {"closed"}, request : Requests, peer : BOOLEAN,
            before : Invocations, verdict : {"success", "failed", "unknown"}]

Recorded == {o \in Ops : ledger[o] # NoRecord}
Opn(c) == conn[c].request.op
At(c, phase) == running /\ conn[c].phase = phase
Go(c, phase) == conn' = [conn EXCEPT ![c].phase = phase]
Decide(c, phase, verdict) ==
  conn' = [conn EXCEPT ![c] = [@ EXCEPT !.phase = phase, !.verdict = verdict]]

(***************************************************************************)
(* reply(): the connection ends, and its sender learns the outcome unless  *)
(* it has already left.  "gone" are operations whose records were unlinked *)
(* in the same step; their history starts again.                           *)
(***************************************************************************)
Tell(gone, c, outcome) ==
  told' = [r \in Requests |->
             IF r.op \in gone THEN {}
             ELSE IF r = conn[c].request /\ conn[c].peer
                  THEN told[r] \cup ({outcome} \cap Definite)
                  ELSE told[r]]

Reply(c, outcome) ==
  /\ conn' = [conn EXCEPT ![c] = Closed]
  /\ Tell({}, c, outcome)

Init ==
  /\ running = FALSE
  /\ conn = [c \in Conns |-> Closed]
  /\ busy = FALSE
  /\ ledger = [o \in Ops |-> NoRecord]
  /\ older = {}
  /\ unit \in {u \in Unit : u.inv = 0}
  /\ job = FALSE
  /\ commands = [o \in Ops |-> 0]
  /\ told = [r \in Requests |-> {}]

-----------------------------------------------------------------------------
(* The ledger directory. *)

\* put() up to its rename: the record replaces any earlier one atomically.
Put(o, record) ==
  /\ ledger' = [ledger EXCEPT ![o] = record]
  /\ older' = {p \in older : o \notin {p[1], p[2]}}
                \cup {<<a, o>> : a \in Recorded \ {o}}

\* The record files past the newest LedgerLimit, or past seven days, are those
\* no kept file is older than.
Stale(gone) ==
  /\ gone \subseteq Recorded
  /\ Cardinality(Recorded \ gone) <= LedgerLimit
  /\ \A a \in gone, b \in Recorded \ gone : <<a, b>> \in older

\* Unlinking a record forgets its operation: the history restarts with it.
Unlink(gone) ==
  /\ ledger' = [o \in Ops |-> IF o \in gone THEN NoRecord ELSE ledger[o]]
  /\ older' = {p \in older : p[1] \notin gone /\ p[2] \notin gone}
  /\ commands' = [o \in Ops |-> IF o \in gone THEN 0 ELSE commands[o]]

-----------------------------------------------------------------------------
(* Process life cycle. *)

\* Socket activation: start() initializes the ledger, which prunes it.
Start ==
  /\ ~running
  /\ running' = TRUE
  /\ \E gone \in SUBSET Recorded :
       /\ Stale(gone)
       /\ Unlink(gone)
       /\ told' = [r \in Requests |-> IF r.op \in gone THEN {} ELSE told[r]]
  /\ UNCHANGED <<conn, busy, host>>

\* The process dies at any await: it is killed, stopped, or a reply to a peer
\* that has closed raises an 'error' event that nothing handles.
Crash ==
  /\ running
  /\ running' = FALSE
  /\ conn' = [c \in Conns |-> Closed]
  /\ busy' = FALSE
  /\ UNCHANGED <<ledger, older, host, commands, told>>

-----------------------------------------------------------------------------
(* One request, from its line to its reply. *)

\* A valid restart line arrives, whose sender may have left by then; loadPolicy()
\* is awaited.
Accept(c, r) ==
  /\ running /\ conn[c].phase = "closed"
  /\ \E here \in BOOLEAN : conn' = [conn EXCEPT ![c] =
       [phase |-> "policy", request |-> r, peer |-> here,
        before |-> 0, verdict |-> "unknown"]]
  /\ UNCHANGED <<running, busy, ledger, older, host, commands, told>>

\* The sender destroys its socket (abort, its own deadline, agent restart).
PeerLeaves(c) ==
  /\ running /\ conn[c].phase # "closed" /\ conn[c].peer
  /\ conn' = [conn EXCEPT ![c].peer = FALSE]
  /\ UNCHANGED <<running, busy, ledger, older, host, commands, told>>

\* The policy is unreadable, invalid, or does not list the unit.
Refuse(c) ==
  /\ At(c, "policy")
  /\ Reply(c, "not_started")
  /\ UNCHANGED <<running, busy, ledger, older, host, commands>>

Allow(c) ==
  /\ At(c, "policy")
  /\ Go(c, "ledger")
  /\ UNCHANGED <<running, busy, ledger, older, host, commands, told>>

(***************************************************************************)
(* ledger.get() and the code up to the next await are one step: the failed *)
(* open that proves there is no record is delivered before any later I/O   *)
(* of another request, so nothing runs between it and the busy test.       *)
(***************************************************************************)
SameRequest(c) == ledger[Opn(c)].request = conn[c].request
Replay(c) ==
  /\ At(c, "ledger")
  /\ Opn(c) \in Recorded
  /\ Reply(c, IF SameRequest(c)
              THEN ledger[Opn(c)].outcome ELSE "not_started")
  /\ UNCHANGED <<running, busy, ledger, older, host, commands>>

\* The record file exists but cannot be read, or is not a record.
Unreadable(c) ==
  /\ At(c, "ledger")
  /\ Opn(c) \in Recorded
  /\ Reply(c, "not_started")
  /\ UNCHANGED <<running, busy, ledger, older, host, commands>>

\* Variant the checks must reject: wait for the running restart instead.
TurnAwayWaits(c) ==
  At(c, "ledger") /\ Opn(c) \notin Recorded /\ busy /\ UNCHANGED vars

TurnAway(c) ==
  /\ At(c, "ledger")
  /\ Opn(c) \notin Recorded /\ busy
  /\ Reply(c, "not_started")
  /\ UNCHANGED <<running, busy, ledger, older, host, commands>>

\* Variants the checks must reject: no busy test; a test of completed receipts
\* only; a test of successful receipts only.
ClaimIf(c, guard) ==
  /\ At(c, "ledger")
  /\ guard
  /\ busy' = TRUE
  /\ Go(c, "before")
  /\ UNCHANGED <<running, ledger, older, host, commands, told>>
ClaimWhileBusy(c) == ClaimIf(c, Opn(c) \notin Recorded)
ClaimUnlessDone(c) == ClaimIf(c, ~ledger[Opn(c)].done /\ ~busy)
ClaimUnlessSuccess(c) == ClaimIf(c, ledger[Opn(c)].outcome # "success" /\ ~busy)

Claim(c) ==
  /\ At(c, "ledger")
  /\ Opn(c) \notin Recorded /\ ~busy
  /\ busy' = TRUE
  /\ Go(c, "before")
  /\ UNCHANGED <<running, ledger, older, host, commands, told>>

Matches(r, u) == r.active = u.active /\ u.inv \in r.invs

\* Variant the checks must reject: restart first, record afterwards.
ObserveThenCommand(c) ==
  /\ At(c, "before")
  /\ Matches(conn[c].request, unit)
  /\ conn' = [conn EXCEPT ![c] =
                [@ EXCEPT !.phase = "synced1", !.before = unit.inv]]
  /\ UNCHANGED <<running, busy, ledger, older, host, commands, told>>

\* systemd.get() answers with the state the request expects.
Observe(c) ==
  /\ At(c, "before")
  /\ Matches(conn[c].request, unit)
  /\ conn' = [conn EXCEPT ![c] =
                [@ EXCEPT !.phase = "put1", !.before = unit.inv]]
  /\ UNCHANGED <<running, busy, ledger, older, host, commands, told>>

\* Variant the checks must reject: an early error leaves busy set.
GiveUpBusy(c) ==
  /\ \/ At(c, "before")
     \/ At(c, "put1")
     \/ At(c, "synced1")
  /\ Reply(c, "not_started")
  /\ UNCHANGED <<running, busy, ledger, older, host, commands>>

\* Nothing was started: systemd.get() failed or saw another state, or the
\* first put() failed, before its rename ("put1") or after it ("synced1").
GiveUp(c) ==
  /\ \/ At(c, "before")
     \/ At(c, "put1")
     \/ At(c, "synced1")
  /\ busy' = FALSE
  /\ Reply(c, "not_started")
  /\ UNCHANGED <<running, ledger, older, host, commands>>

\* Variant the checks must reject: the in-progress receipt is never written.
RecordNothing(c) ==
  /\ At(c, "put1")
  /\ Go(c, "synced1")
  /\ UNCHANGED <<running, busy, ledger, older, host, commands, told>>

\* The first put() renames the in-progress receipt into place.
RecordInProgress(c) ==
  /\ At(c, "put1")
  /\ Put(Opn(c), [done |-> FALSE, outcome |-> "unknown",
                  request |-> conn[c].request])
  /\ Go(c, "synced1")
  /\ UNCHANGED <<running, busy, host, commands, told>>

\* The first put() returns: systemctl restart is spawned in the same turn.
\* systemd merges it with a restart job already queued for the unit.
Command(c) ==
  /\ At(c, "synced1")
  /\ commands' = [commands EXCEPT ![Opn(c)] = @ + 1]
  /\ job' = TRUE
  /\ Go(c, "restart")
  /\ UNCHANGED <<running, busy, ledger, older, unit, told>>

\* systemctl exits: done once no job is left, else failed or timed out, with
\* the job possibly still queued.  (receipt.outcome is decided in Inspect.)
CommandReturns(c) ==
  /\ At(c, "restart")
  /\ \E result \in {"success", "failed", "unknown"} :
       /\ result = "success" => ~job
       /\ Decide(c, "after", result)
  /\ UNCHANGED <<running, busy, ledger, older, host, commands, told>>

Changed(c) == unit.active /\ unit.inv # conn[c].before

\* The second systemd.get(): "done" is a success only if the unit is active
\* under a new invocation; a failed get leaves the outcome unknown.
Inspect(c) ==
  /\ At(c, "after")
  /\ \E seen \in BOOLEAN :
       LET result == conn[c].verdict IN
       Decide(c, "put2", IF ~seen \/ result = "unknown" THEN "unknown"
                         ELSE IF result = "success" /\ Changed(c)
                              THEN "success" ELSE "failed")
  /\ UNCHANGED <<running, busy, ledger, older, host, commands, told>>

\* Variant the checks must reject: the completed receipt keeps no verdict.
RecordUndecided(c) ==
  /\ At(c, "put2")
  /\ Put(Opn(c), [done |-> TRUE, outcome |-> "not_started",
                  request |-> conn[c].request])
  /\ Go(c, "synced2")
  /\ UNCHANGED <<running, busy, host, commands, told>>

\* The second put() renames the completed receipt over the first.
RecordCompleted(c) ==
  /\ At(c, "put2")
  /\ Put(Opn(c), [done |-> TRUE, outcome |-> conn[c].verdict,
                  request |-> conn[c].request])
  /\ Go(c, "synced2")
  /\ UNCHANGED <<running, busy, host, commands, told>>

\* prune() unlinks the stale records and the receipt is returned.
Finish(c) ==
  /\ At(c, "synced2")
  /\ busy' = FALSE
  /\ conn' = [conn EXCEPT ![c] = Closed]
  /\ \E gone \in SUBSET (Recorded \ {Opn(c)}) :
       /\ Stale(gone)
       /\ Unlink(gone)
       /\ Tell(gone, c, conn[c].verdict)
  /\ UNCHANGED <<running, host>>

\* Variant the checks must reject: a failed second put() reports the verdict.
DoubtIgnored(c) ==
  /\ At(c, "put2")
  /\ busy' = FALSE
  /\ Reply(c, conn[c].verdict)
  /\ UNCHANGED <<running, ledger, older, host, commands>>

\* The second put() fails, before or after its rename, or prune() fails before
\* or after some unlinks: past the boundary every failure is "unknown".
Doubt(c) ==
  /\ At(c, "put2") \/ At(c, "synced2")
  /\ busy' = FALSE
  /\ conn' = [conn EXCEPT ![c] = Closed]
  /\ \E stale \in SUBSET (Recorded \ {Opn(c)}) : \E gone \in SUBSET stale :
       /\ IF conn[c].phase = "put2" THEN gone = {} ELSE Stale(stale)
       /\ Unlink(gone)
       /\ Tell(gone, c, "unknown")
  /\ UNCHANGED <<running, host>>

-----------------------------------------------------------------------------
(* The host. *)

\* systemd runs the queued job: a new invocation, which may fail to stay up.
JobRuns ==
  /\ job
  /\ job' = FALSE
  /\ \E u \in Unit : u.inv = unit.inv + 1 /\ unit' = u
  /\ UNCHANGED <<running, conn, busy, ledger, older, commands, told>>

\* The unit stops, or is started again by an administrator, unasked.
UnitChanges ==
  /\ \E u \in Unit : /\ u.inv \in {unit.inv, unit.inv + 1}
                     /\ u.inv = unit.inv => unit.active /\ ~u.active
                     /\ unit' = u
  /\ UNCHANGED <<running, conn, busy, ledger, older, job, commands, told>>

Handle(c) ==
  \/ Refuse(c) \/ Allow(c)
  \/ Replay(c) \/ Unreadable(c) \/ TurnAway(c) \/ Claim(c)
  \/ Observe(c) \/ GiveUp(c) \/ RecordInProgress(c)
  \/ Command(c) \/ CommandReturns(c) \/ Inspect(c)
  \/ RecordCompleted(c) \/ Finish(c) \/ Doubt(c)

Next ==
  \/ Start \/ Crash
  \/ \E c \in Conns : Handle(c) \/ PeerLeaves(c)
                      \/ \E r \in Requests : Accept(c, r)
  \/ JobRuns \/ UnitChanges

Spec == Init /\ [][Next]_vars

\* Every await ends: file operations return, and both systemctl calls are
\* killed after 8 s and 30 s.  Nothing else (start, job, peers) is assumed.
FairSpec == Spec /\ \A c \in Conns : WF_vars(Handle(c))

-----------------------------------------------------------------------------
(* Properties. *)

\* Every variable keeps its type: an open connection carries a request of the
\* configured set, and the ledger holds in-progress or completed receipts.
TypeOK ==
  /\ running \in BOOLEAN /\ busy \in BOOLEAN /\ job \in BOOLEAN
  /\ conn \in [Conns -> {Closed} \cup Pending]
  /\ ledger \in [Ops -> {NoRecord} \cup Record]
  /\ older \in SUBSET (Ops \X Ops)
  /\ unit \in Unit
  /\ commands \in [Ops -> Nat]
  /\ told \in [Requests -> SUBSET Definite]

Holders == {c \in Conns : conn[c].phase \in Held}

\* The busy flag serializes restarts across all connections, operations and
\* crashes: it is set exactly while one request is between claiming it and its
\* reply, and two requests never are (helper.ts:126-154).
Serialized ==
  /\ busy <=> Holders # {}
  /\ \A c, d \in Holders : c = d

\* Write-ahead: a restart that was ever commanded has a ledger record, through
\* every failed put, crash and prune, until that record itself is retired.
WriteAhead == \A o \in Ops : commands[o] # 0 => o \in Recorded

\* However often one operation ID is sent, on however many connections, before
\* and after crashes, its restart is commanded at most once while its record
\* is retained.
ExecutedOnce == \A o \in Ops : commands[o] <= 1

\* A definite outcome was earned and is the only one: whoever is told
\* "success" or "failed" for an operation is told what the completed receipt
\* says, after a restart was commanded for it.
DefiniteOutcome ==
  \A r \in Requests : \A v \in told[r] :
    /\ ledger[r.op].done /\ ledger[r.op].outcome = v
    /\ commands[r.op] = 1

\* A completed receipt is final: no later request, crash or prune changes it
\* other than by retiring it.
ReceiptFinal ==
  [][\A o \in Ops : ledger[o].done =>
        ledger'[o] \in {ledger[o], NoRecord}]_vars

Stage(o) ==
  IF o \notin Recorded THEN "fresh"
  ELSE IF ledger[o].done THEN "settled"
  ELSE IF commands[o] = 0 THEN "claimed" ELSE "commanded"
Answered(o) == UNION {told[r] : r \in {q \in Requests : q.op = o}}

Promise == INSTANCE RestartPromise WITH
  stage    <- [o \in Ops |-> Stage(o)],
  verdict  <- [o \in Ops |-> ledger[o].outcome],
  answered <- [o \in Ops |-> Answered(o)]

\* The helper implements the promise: each operation is claimed in the ledger,
\* commanded at most once, settled once and answered only with that verdict.
KeepsPromise == Promise!Spec

\* A claim never outlives its work: the busy flag is always released, so one
\* stuck, failed or abandoned request cannot turn away every later one.
BusyReleased == busy ~> ~busy

\* Every request that reaches the helper is answered or loses its connection.
EveryRequestEnds ==
  \A c \in Conns : conn[c].phase # "closed" ~> conn[c].phase = "closed"

\* Together: a helper whose awaits end is there for the next request
\* (helper.ts:126-155).
HelperRecovers == BusyReleased /\ EveryRequestEnds
=============================================================================
