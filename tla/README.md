# A verification of the AcornOps VM agent (agentv)

TLA+ models of the agent's control logic, the TLC runs that check them on small
instances, and TLAPS proofs of the most important results for every instance.
Paths are relative to the repository; line numbers refer to the commit the
models were written from.

## 1. The system

agentv runs on a Linux VM as two processes. The **agent** (`src/index.ts`) is
unprivileged and keeps one outbound WebSocket to a control plane. The **action
helper** (`src/helper.ts`) runs as root, is socket activated and can do one
thing: restart an allowlisted systemd unit. An **installer** replaces releases
and credentials as a transaction that survives a crash.

| Component | State it keeps | Operations | Talks to |
|---|---|---|---|
| WebSocket transport `src/transport/websocket-client.ts` | socket, ping/pong/reconnect timers, attempts | connect, send, forceReconnect, close, ping, pong, schedule | emits open, message, close to the lifecycle manager |
| Lifecycle manager `src/core/lifecycle.ts` | generation, ready, helperReady, handshake deadline, heartbeat | start, stop, open (awaits the helper), message (awaits the router), acceptHandshake, closed | transport, router, snapshot manager, helper client, marker |
| MCP router `src/mcp/router.ts`, tool executor `src/tools/executor.ts` | session policy, active generation, two gates with queues, shared budget, controllers | set/clear policy, execute, acquire, release, cancel, time out | tool handlers, that is adapters and helper client |
| Snapshot manager `src/core/snapshot-manager.ts` | active, generation, inFlight, pending, interval | start, stop, trigger, collect (two awaits) | adapters, transport |
| Helper client `src/actions/client.ts` | one exchange: settled, requestSent, timer | capabilities, restart | helper's Unix socket |
| Action helper `src/actions/helper.ts`, ledger `src/actions/ledger.ts` | connections, busy flag, one durable record per operation | handleRequest, get, put, prune | systemd |
| Agent process `src/index.ts` | readiness marker, watchdog | start, signals | systemd, installer |
| Installer `packaging/systemd/install.sh`, `install-worker.sh`, `acornops-agentv-install-recover` | journal, staged files, active release link | exchange, cut over, commit, roll back, recover | systemd, control plane, marker |
| Host adapters, command runner `src/adapters/*` | reads under way, children with their timers, the lookup of `ss` | read files, run commands under `Promise.all`, abort, page the journal | procfs, `systemctl`, `journalctl`, `df`, `ss` |
| Result projection `src/tools/model-context.ts` | none | make a result fit the model's context | tool handlers |
| Configuration `src/config.ts` | ranges and defaults | load, refuse | lifecycle manager |
| Registry, schemas, logging, doctor, mocks | none, or constant | validation, formatting | - |

Both processes are single threaded: code between two `await`s is atomic and
everything else interleaves. What is hard about them:

* *stale continuations*: an operation suspended on one connection resumes on a
  later one (`open`, `message`, `collect`, `execute`), and generation numbers
  are what keeps it harmless;
* *several callbacks for one event*: a slot is granted, handed over, timed out,
  cancelled or revoked; a socket is closed by its peer or by force, from inside
  each other's callbacks;
* *a mutation that cannot be undone or repeated*: the restart must happen at
  most once for an operation ID across crashes, lost replies and retries, and
  every doubt about it must be reported as `unknown`;
* *timers that nobody cancels*, and waits that nothing bounds;
* *results that are cut to fit*: every cut has to be counted or told, through
  several limits in a row.

PROJECT.json lists these as hazards, each at its line with the properties that
would catch it.

What makes each component correct: the helper executes a recorded operation at
most once and never revises what it said; the executor's counters are exact and
a revoked session has nothing left running for it; the lifecycle manager is
always connected or about to be, exposes tools and telemetry only on the
authenticated connection, and its timers belong to it; the snapshot manager
collects once at a time and forgets no request; the client says that nothing
was started only if nothing was and nothing will be; a read of the host ends
when its call does; what is left out of a result is counted; no answer of the
control plane exceeds the local limits; the installer ends in the old or the
new installation.

## 2. Modules

| Module | Models | Role |
|---|---|---|
| `RestartPromise` | - | what the helper promises about one operation ID: at most one execution, one final verdict |
| `ActionHelper` | helper and ledger, with the unit and systemd's job | implements `RestartPromise` |
| `ActionHelper_proofs` | - | theorems about `ActionHelper` |
| `WritePath` | helper client and the handler of `restart_service`, composed with `ActionHelper` | extends `ActionHelper`, which it implements |
| `SessionWork` | - | what the executor promises: work is started and its results are returned only for the session that asked |
| `ToolExecutor` | router and executor | implements `SessionWork` |
| `Lifecycle` | transport, lifecycle manager, process, marker | |
| `SnapshotManager` | snapshot manager alone | |
| `Telemetry` | `Lifecycle` composed with `SnapshotManager` | shows that the lifecycle manager implements the snapshot manager's environment |
| `SessionLimits` | configuration and handshake: limits and tools of a session | |
| `HostReads` | adapters and command runner: what runs, ends and is left behind | |
| `SnapshotTrim`, `LogPaging`, `ModelContext` | the three ways in which results are cut | algorithms against what they promise |
| `Subsequences` | - | what a loop leaves that skips elements; used by the last two |
| `InstallTransaction` | installer, its exit handler, recovery program, with systemd and the control plane's enrollment | |
| `ActionHelper_proofs`, `WritePath_proofs`, `ToolExecutor_proofs`, `Lifecycle_proofs`, `Telemetry_proofs`, `SessionLimits_proofs`, `InstallTransaction_proofs`, `Host_proofs` | - | theorems, see section 5 |
| `MCActionHelper`, `MCWritePath`, `MCToolExecutor`, `MCHost`, `MCInstall` | - | constants, symmetry sets and sets of requests for TLC |

`PROJECT.json` maps every definition to its lines. How to read the models:

**ActionHelper.** `conn[c].phase` is the await at which the request on
connection `c` is suspended; an action is the code from there to the next
await. `Crash` at any point loses connections, busy flag and unsent replies,
and keeps `ledger`, `unit` and `job` (systemd goes on with a restart it has
accepted). A failed `put` is a choice between "nothing written" and "renamed,
then failed" (directory open or close). `commands` and `told` are history
variables; they are forgotten together with a pruned record, because pruning
ends the helper's promise about that ID. Syntax errors of a request are left
out: they are answered before anything is read. Ages of records are kept as an
order (`older`), from which `prune` takes the oldest beyond the limit or, as a
free choice, those that have expired.

**WritePath.** Slot `c` is one connection seen from both ends: `conn[c]` is the
helper's, `call[c]` the agent's. The agent's actions are the events of the
client's exchange: connected, 31 s timer or abort, connection error, reply,
death of the process. `requestSent` is the phase `waiting`. systemd owns the
listening socket, so that a line can be written while the helper is down and is
read when it has started (`unread`); a connection that the helper had accepted
without reading from it dies with it. Only one call is made at a time, since
the write gate has one slot, but an attempt that was given up can be at work in
the helper while the next is made. `acted` is a history variable.

**ToolExecutor.** `call[c].phase` is the await of one `execute()`. The time
between a promise's settling and its continuation is a state of its own
(`granted`, `settled`), because the continuation of another call can run in
between. Which test refuses a call, and what a handler returns, are free
choices among the codes the code can give (`Results`); for writes these include
each outcome the helper client reports.

**Lifecycle.** Only equality of generations is ever tested, so a captured
generation is `current` or `stale` and the model needs no bound on the number
of connections: it is finite as it is, and every run of it is exhaustive for
the code's control. `opening` and `replying` are sets of ages, not counts: two
stale continuations of the same kind behave alike. `strays` counts provisional
timers left behind by earlier connections, up to `MaxStrays`. The control plane
answers a handshake at most once; a message that comes before the handshake was
sent is left out, any other rejected message is `Reject`. Removing the marker
is assumed to succeed, writing it may fail.

**SnapshotManager, Telemetry.** `job` holds the suspended executions of
`collect()`. Building and trimming the snapshot is one choice: it is produced
or dropped. In `Telemetry` each step of `Lifecycle` that begins or ends a
session starts or stops the snapshot manager in the same step, as
`acceptHandshake` and `clearSession` do.

**HostReads.** A read is a sequence of stages, and the parts of a stage are
files and commands started together. Parts of one kind are interchangeable, so
`read[r].work` counts them by what has become of them: a child whose timer is
armed, one that was signalled by its timer, for its output or by an abort, one
that does not die of it (`deaf`). A read settles with its last part or, where
the code is strict, with the first failure, and what is still running goes on
without it. `Plan` gives the stages of the eight kinds of read. The lookup of
`ss` is started once by the constructor, and a missing `ss` ends the process
unless a read is waiting for it. The text of the commands' output is not
modelled; what an adapter concludes of it is a free choice.

**SnapshotTrim, LogPaging, ModelContext.** Entries, records and strings are
their lengths. `SnapshotTrim` takes one entry in each step, as the loop does.
In `LogPaging` the journal grows between two pages. The passes of
`ModelContext` are steps; a value is the sequence of its members, each with the
path that leads to it, in the order in which the recursion of `compactValue`
has done with them. So a pass is a selection (`Reached`: what the recursion
gets to) and a change of each member it keeps (`Shown`, `Note`), which is what
lets it be reasoned about without recursion over a tree.

**SessionLimits.** `Load` is `loadConfig` for some environment, `Accept` the
tests and the assignments of `acceptHandshake` for some answer. Both limits,
interval and size, go through the same operators with their own bounds, as they
do in the code.

**MCHost** puts these five in one state space. They share no state: the first
state chooses the machine that runs, and the others are parked in a state
without work. What it checks are the five machines' own properties.

**InstallTransaction.** One installation (`given`: first one, replacement or
repair, of a running agent or not, of the same release or another, with or
without the action socket) from the publication of its journal to the journal's
removal. `at` is the step that the running program takes next; one counter is
enough because installer and recovery hold the same lock. A step is one effect
on the disk, on systemd or on the control plane; `reg` holds the shell
variables and is lost when a program ends. `Fragile` names the programs that
may be cut short, so that a run can tell what depends on which interruption.
The release link, the environment and the action files are restored one by one;
policy and socket of the action files in one step. Exit code 75 of recovery is
"back to idle with the journal in place". The control plane's exchange, commit
and authentication are those of the server that the repository's smoke test
installs against (`scripts/systemd-smoke-server.mjs`); grace, expiry and
rollback are external, taken from what the scripts expect: a rollback that was
carried out answers as before when it is repeated, an expired enrollment or one
whose grace has ended cannot be rolled back. A reply may be lost after its
effect. A
renamed file is taken to be durable, the copies of the exit handler are taken
to succeed (the shell's `errexit` is off where it runs, so that a failing copy
would go unnoticed), and the agent may start before recovery does, although the
unit asks for the opposite order at boot.

## 3. Runs

| Run | Shows | Bounds | States |
|---|---|---|---|
| `helper` | type correctness, `Serialized`, `WriteAhead`, `ExecutedOnce`, `DefiniteOutcome`, refinement of `RestartPromise`; the busy flag is released, every request ends (`HelperRecovers`) | 2 connections, 2 operations, 2 invocations, 1 retained record | 175 k |
| `write_path` | `NotStartedIsExact`: an attempt answered "not started" has not restarted the unit and nothing of it is left that could; a call ends whatever the helper does | 2 connections, 1 operation with 2 argument sets, 1 retained record | 454 k |
| `executor_safety` | exact slots and budget, revocation, writes reported honestly and retried safely, refinement of `SessionWork` | 4 calls, 1 slot per gate, 2 queue places, 2 sessions | 410 k |
| `executor_liveness` | no waiting call starves, every slot comes back | 3 calls | 83 k |
| `sessions` | of the connection: timers, sessions, marker, stale continuations, backoff; an open connection is decided, a silent peer is dropped, the agent is authenticated for good once disturbances end. Of telemetry: one collection at a time, no lost request, a collection for each session | backoff capped after 2, 2 stray timers, 2 executions of `collect` | 48 k |
| `host_reads` | reads: every process accounted for, aborted reads end, no command is left for ever; trimming: `TrimExact`; paging: no gaps, no silent end; projection: the model is told what was cut; sessions: local limits are a ceiling for the control plane and no obstacle to it | 2 reads, 3 processes in batches of 2; sections of up to 3 entries cut at 2; 4 records, pages of 2; trees of depth 2; settings around every bound | 113 k |
| `install_safety` | type correctness; a committed credential can always be restored; a transaction closes with the old or the new installation, in agreement with the control plane, unless the exit handler was cut short | none: every request, every program may be cut short | 502 k |
| `install_ends` | the agent that runs is the one installed; every transaction is closed | same release or agent not running; the installer may be cut short | 99 k |
| `lifecycle_stray_timer`, `lifecycle_connecting` | *violated*: see findings | cap 1, 1 stray timer | |
| `install_upgrade`, `install_torn` | *violated*: see findings | | |

Why the bounds are enough. Helper: busy admits one request beyond the first
awaits, so a second connection already gives every overlap; with two operations
and one retained record prune removes a record on every completion; two
invocation IDs allow a restart or a change by others, a precondition on the
older one and one on the newer. Write path: since the client has one exchange
at a time, a second connection is the next attempt, and two argument sets make
it the same request or a conflicting one. Executor: with one slot per gate and
two places in the shared queue, four calls fill a gate and the budget from both
sides at once and are turned away; two sessions are the newest and a revoked
one. Lifecycle needs no such argument except for `MaxStrays`: timers are
independent, one that is left behind and one more already show every
interaction. Telemetry: a second execution of `collect` is there so that an
overlap could be seen. Reads: of the second, only listeners matter to the
first, through the lookup of `ss` they share; three processes in batches of two
give a full batch and a rest, and entries, records and strings come in the
sizes below, at and above each limit they meet. The four sections of a snapshot
are those of the code. The install runs need no bound: the model has no
counter, and what their requests and `Fragile` leave out is what findings 3 to
6 are about.

Fairness. `ActionHelper`: every await ends: commands are killed at their
timeouts, file system calls return. `ToolExecutor`: continuations run,
execution timers fire, an abandoned handler settles after its abort; queue
timers and handlers in time are *not* assumed. `Lifecycle`: timers, the
capabilities call (2 s timeout in the client), the closing handshake (30 s in
the ws library), `Restart=always` of the unit; the network and the control
plane owe nothing, except in the premise of `EventuallyReady` (`Calm`), where
from some time on attempts succeed. `Telemetry`: collectors settle and gzip
returns. Every condition is weak fairness. `InstallTransaction`: every step of
a program ends, recovery is started when a transaction is left behind (at boot,
by its unit's retry, or by the command the documentation names) and systemd
starts an agent it has been told to start; a valid credential connects once
`calm` has come, from which time nothing is killed and no request is lost.
`WritePath`: the client's own timer, and nothing of the helper or the socket.
`HostReads`: local files are read, a child's timer fires, a signalled child
that is not deaf closes, the lookup of `ss` ends, and the executor aborts a
call at its deadline; that a command ends by itself is *not* assumed. Trimming
is synchronous code; a reader of the journal asks for the next page if there is
one. `RunsInstalled` speaks of transactions that met a running agent: recovery
does not stop a candidate if there was no agent before. `RecoveryEnds` leaves
out that the recovery program may not be there yet (finding 5).

Only the install runs and `host_reads` turn the deadlock check off: a host on
which a first installation was undone has nothing left that could take a step,
and a snapshot that was sent, a reader at its last page and a projected result
are done. Every other model can always take a step.

## 4. Findings

1. `lifecycle_stray_timer` (`src/core/lifecycle.ts:121`): the one-second timer
   of a provisional response is not cancelled when its connection ends. If a
   committed session follows within the second (the first backoff is 0.5-1 s),
   the timer drops it.
2. `lifecycle_connecting` (`src/transport/websocket-client.ts:25`): a
   connection attempt has no deadline. A peer that accepts TCP and never
   answers the upgrade keeps the agent connecting for ever.
3. `install_upgrade` (`acornops-agentv-install-recover:74`): recovery decides
   whether the release link changed by comparing two files of the journal, not
   the link. When another release is replaced and the installer is cut short
   after it has saved `candidate-current`, each attempt finds a change, removes
   the marker and restarts the agent, and exits 75 because there is no marker:
   the agent is restarted every 30 s and the transaction never ends.
4. `install_torn` (`install-worker.sh:179`): `previous-selected` is written
   last. An exit handler that is cut short before, after a commit whose reply
   was lost, leaves recovery to keep a mixture of old and new files with the
   new credential committed (`EndsWhole`; `EndsDecided` excludes the case with
   the history variable `cut`).
5. Without a run (`install-worker.sh:322`): on a first installation the journal
   is published before the recovery unit is on the disk. The documentation
   names a command that does not exist yet.
6. Without a run (`acornops-agentv-install-recover:115`): an attempt of
   recovery that is cut short between restoring a file and restarting the agent
   leaves an agent with the candidate loaded that no later attempt restarts.

   Findings 5 and 6 are the exceptions that `install_ends` makes: with
   `"recover"` added to `Fragile`, or without the second disjunct of
   `RecoveryEnds`, TLC finds them.

Observed while modelling, and kept out of every property, so that no run shows
them as violations:

* `src/actions/helper.ts:126`: a request for the operation that is being
  executed, arriving before its first record is on disk, is answered
  `TOOL_BUSY` with `not_started`, and the operation is then carried out by the
  other request. `docs/contracts/README.md:83` calls ambiguous writes `unknown`
  and never retryable. The answer is exact for the attempt it answers, which is
  what `NotStartedIsExact` says; a retry finds the record, so nothing is
  executed twice.
* `src/core/snapshot-manager.ts:93`: the generation is not tested again after
  gzip, so a snapshot of an ended session can go out on the next. It needs a
  reconnect within one gzip.
* `src/adapters/sockets.ts:32`: an agent on a host without `ss` is ended by the
  unhandled rejection of the lookup, at every start, unless a list is waiting
  for it at that moment. `docs/RELIABILITY.md:7` says that a missing command is
  logged and tried again.
* `src/core/snapshot-manager.ts:45`: collections have no signal. A command that
  cannot be killed keeps the collection waiting, and with it every later one
  (`CollectionsEnd` excepts `deaf` commands; reads of tools do not need the
  exception).
* `src/adapters/journal.ts:53`: an entry that alone exceeds the byte limit
  gives a page without entries and without a cursor. The page is marked as
  truncated (`StopsKnowingly`), but older entries cannot be reached through it.
* `src/tools/model-context.ts:56`: a list of omissions that is cut at 16 can
  keep entries of the first pass whose counts the second pass has made stale
  (`CutsReported` excepts `ListCut`).
* `src/config.ts:102`: setting only `MAX_REMOTE_SNAPSHOT_BYTES` below the
  default size makes `loadConfig` refuse to start.

## 5. Proofs

Eight modules hold proofs, for every value of the constants that the named
assumptions allow: `HelperAssumption` (invocation IDs are numbers, requests are
requests, the ledger retains at least one record), `LifecycleAssumption` (the
bounds are positive), `ExecutorAssumption` (finitely many calls, at least one
slot per gate, positive generations, well-formed results), `InstallAssumption`
(requests are requests, `Fragile` names programs), `ReadsAssumption` (at least
one candidate in a batch, numbers where numbers are meant), `TrimAssumption`,
`PagingAssumption` and `LimitsAssumption` (types of the entries, bounds and
settings), `ContextAssumption` (results are trees, the second pass has limits
no looser than the first, what replaces a result is within the target).

**`ActionHelper_proofs`.** The invariant that is inductive is

    IInv = TypeOK /\ Serialized /\ DownIsEmpty /\ WriteAhead /\ ExecutedOnce
           /\ Progress /\ DoneIsEarned /\ DefiniteOutcome

`ExecutedOnce` alone is not inductive. `Progress` says for each phase of the
connection that holds the busy flag what is on disk and how often its command
was issued: not recorded and never commanded before the first `put`, recorded
and never commanded until the restart, commanded once afterwards.
`DoneIsEarned` excludes a completed record without a command, and `DownIsEmpty`
says that a crash leaves nobody who could go on. The step lemma has one case
for each action; `OnlyHolder` and `SameHolders` say that no other connection is
between claiming the flag and its reply, which is what the cases need of the
actions that only move a connection. `TypeCorrect`, `AtMostOneRestart`,
`RecordedBeforeCommanded`, `RestartsSerialized` and `OutcomesAreEarned` follow.
`ReceiptsAreFinal` (an action property) and `HelperKeepsPromise` (refinement of
`RestartPromise`) rest on `StepEffect`, the list of what a step can do to
ledger, commands and verdicts.

**`Lifecycle_proofs`.** The inductive invariant is

    IInv = TypeOK /\ TimersFit /\ AlwaysReconnecting /\ TimersOwned
           /\ SessionEarned /\ MarkerTruthful

`TimersFit` is the strengthening: a provisional timer of the present connection
exists only with its ping timer, after an answer, and with room for it among
the strays; without it a loss could not be shown to keep `strays` within its
bound. Every way of losing a connection (peer, force, silence, stop, crash)
goes through one operator, and `LosePreserves` is proved once for it;
`LosingStep` applies it to the actions that lose a connection and
`StepPreserves` treats the others. Theorems: `TypeCorrect`, `NeverCutOff`,
`TimersBelong`, `SessionsAreEarned`, `MarkerTellsTruth`, and the action
property `BackoffIsKept`, which needs only the type part of the invariant. What
an earlier connection awaited does when it comes back is no property of its
own: a stale answer that armed a deadline would break `TimersOwned`, and one
that gave a session would break `SessionEarned`.

**`WritePath_proofs`.** The invariant adds to the types, for each slot, that
the unread line, the helper's request and its reply exist one after the other,
and that an attempt acts in the second only, after its first record (`Slot`).
It needs nothing of the ledger: `NotStartedIsSafe` rests on the order of events
on one connection. `PathImplementsHelper` shows that every step of the
composition is a step of `ActionHelper` or a stutter, so that what is proved of
the helper holds below the client as well (`PathRestartsOnce`).

**`ToolExecutor_proofs`.** The inductive invariant is

    ExecutorInv = TypeOK /\ BudgetOK
                  /\ (for each gate) GateOK /\ (for each call) CallOK

`GateOK` says that a gate counts its holders and that its queue holds each
waiting call exactly once. That a queue has no call twice is the strengthening:
it makes the length of a queue the number of those that wait in it, and
`SplicedFacts` and `TailFacts` keep it so when a call leaves from the middle or
the front. `CallOK` says of each call alone which generation it works for and
what it may have answered. The actions are grouped by what they do to a gate:
nothing (`QuietStep`), admission, a free slot or one handed over (`LeaveStep`),
a cancelled session (`CancelStep`). `PromiseIsKept` maps each call to the job
of `SessionWork` that it is (`View`) and shows for each action the step of
`SessionWork` that it implements.

`WritesReported` is proved as the conjunction of `HonestWrite` and `RetrySafe`;
since a write is retryable only if its answer says "not started", the second
follows from the first.

**`Telemetry_proofs`.** `Collections` (one collection, no lost request) is
inductive over the snapshot manager's steps; `ContractIsKept` shows that the
lifecycle manager uses it only as `SnapshotManager` allows, and `SameLifecycle`
that the composition does nothing to the connection, so that the theorems of
`Lifecycle_proofs` hold of it.

**`SessionLimits_proofs`.** `LimitsInv` adds that a loaded configuration has
passed its checks (`Configured`) and that offer, answer and session follow each
other (`Ordered`). That an administrator's range never refuses a silent control
plane needs the first, that a session's tools were offered the second.

**`InstallTransaction_proofs`.** `CommitRestorable` speaks of the moment in
which the control plane has committed a credential; that the journal holds the
candidate then depends on everything the three programs have done before, so
the invariant says what each step has left behind it:

    IInv = TypeOK /\ Open /\ InstallProgress /\ ControlProgress /\ UndoProgress
           /\ RecoveryProgress /\ CommitRecorded /\ CommitKept

`Open` ties the journal to the program at work and its snapshot to the old
host. The three `Progress` parts of the programs are like annotations of a
script: after `Switch` the candidate's release is linked, after `SaveCandidate`
the journal has it, after `UndoEnv` the old environment is back.
`ControlProgress` says the same of the enrollment. `CommitRecorded` is
`CommitRestorable` with the journal's flags, `CommitKept` that whoever finds a
committed credential finds the new installation whole, unless the exit handler
was at work or was cut short. A program that is cut short loses `reg` and `at`,
so the steps of the next one can only rest on what these parts say of the
journal and the host: that is why they are needed. `CommitIsRestorable` and
`TransactionsEndDecided` (`EndsDecided`, an action property: a transaction
closes with the old or the new installation, in agreement with the control
plane) follow. `RunsWhatIsInstalled` (`RunsInstalled`) needs two things
besides, which are the constants of run `install_ends` and hypotheses of the
theorem: only the installer may be cut short, and the release of a running
agent stays the same. Finding 6 is what the first excludes, and the second a
release that the exit handler has put back and that recovery does not notice
(the test of finding 3). Its own invariant is `AgentProgress`: at which steps a
running agent has loaded what is installed.

**`Host_proofs`.**

* Reads. `Listing` says of a list of processes at each stage that entries,
  failures and files still being read are the processes of the batches begun;
  one that has settled without a verdict against it has therefore counted every
  candidate (`ReadsAreCounted`, for any number of reads and candidates and any
  size of a batch).
* Trimming. The three parts of `TrimExact` need each other: that the entry
  taken last was needed is known of the section that was trimmed last, and
  which that is follows from the order. Bytes are never computed.
* Paging (`PagesAreTrue`). `ReturnedFacts` says what a page is: the readable
  among the newest lines, as far as they fit. `Covers` is the strengthening:
  what the reader was given is what is readable from the record its cursor
  names to where it began; a page with entries extends that downwards, a record
  that arrives is above it. A page without a warning leaves nothing below
  (`QueryTells`).
* The model's context (`ContextIsTrue`). The invariant says which pass has made
  what the model sees and what it is told; that both agree is then a matter of
  one pass over the source. `CutTold`: the greatest entry with a member's path
  is a note of the last pass, and a path leads to one member only, so it is the
  note of that member. `NotesTell`: a pass notes nothing exactly if it changes
  nothing (if no member it gets to is cut, it gets to all, by the least depth
  at which it could be stopped). `TighterTells`: so the list is empty after two
  passes only if nothing was cut. `CompactIsTree`: what is left is a whole
  value again.

Induction over numbers is used there without the library's induction theorems,
whose parameter is an operator: `LeastElement` comes from the well-foundedness
of `<`, `Induct` from it, for a set of numbers in the place of a formula.
`OnlyFacts` is what `Subsequences` promises, by that induction over the rounds
of its loop. For these proofs the models count with sums instead of folds
(`Outstanding`) and write loops as recursive functions (`Only`).

Every safety invariant and every action property that a run expects to hold is
proved. Only model-checked are the liveness properties (`HelperRecovers`,
`CallEnds`, `CallsEnd`, `OpenedIsDecided`, `SilentPeerDropped`,
`EventuallyReady`, `SessionCollects`, `MachinesEnd`, `RecoveryEnds`): fairness
and ENABLED are out of the provers' reach. What the sizes in `LogPaging` and
`ModelContext` add up to is computed by folds, of which the proofs use nothing:
they hold for any measure of length.

## 6. Plan

Modelled first is what cannot be undone (restart), then what everything else
runs inside (sessions), then what depends on them. Done: 1-11.

1. `ActionHelper` with `RestartPromise`, theorems.
2. `ToolExecutor` with `SessionWork`.
3. `Lifecycle`, theorems.
4. `SnapshotManager` and `Telemetry`.
5. First proofs: every safety property of 1 and the invariants of 3.
6. `InstallTransaction`: installer, recovery and the agent under systemd, with
   crashes between any two steps and a control plane that loses replies.
7. `WritePath`: helper client and helper composed, with the client's timers,
   aborts and `requestSent`.
8. What the agent reads and how it cuts it: `HostReads`, `SnapshotTrim`,
   `LogPaging`, `ModelContext`, `SessionLimits`.
9. Proofs of 2, 4, 7, of the trimming and of the limits, with the refinements
   of `SessionWork` and of the snapshot manager's contract.
10. Proofs of 6: what the journal and the host hold at each step of three
    programs, and which agent runs.
11. Proofs of the rest of 8: reads, paging, the model's context; no safety
    property is left that is only model-checked.

Left to do: the composition of the executor with the write path, where the
executor's abort and the client's timer meet, and the theorem that an answer
of the executor that says "not started" is one of `NotStartedIsSafe`.

## 7. What is not modelled

* The text of requests, replies and command output: its parsing, and the
  validation of arguments and of settings other than the session's limits, are
  free choices among the verdicts the code can give.
* The registry and the schemas, which are constant; redaction, logging,
  metrics and the doctor, which keep no state of a protocol; the mocks.
* READY and WATCHDOG notification.
* Durations: a timer may fire at any moment after it was set, so no result
  depends on a duration, and none says anything about one. That an unanswered
  ping ends the connection (`SilentPeerDropped`) rests on the fairness of
  `PongDeadline`, which the code earns with a deadline (10 s) shorter than the
  interval of the pings (30 s) that renew it: a change of the two that let each
  ping renew the deadline would not be noticed.
* A collection whose collectors never settle: `SessionCollects` assumes that
  they do, and `CollectionsEnd` shows it but for commands that are `deaf`.
* A projection that throws after its tool has succeeded
  (`src/mcp/router.ts:39`): the call would be answered `INTERNAL_ERROR`, a
  write's without an outcome. The only write returns the helper's receipt, and
  its projection does not throw on one.
* Of the installation scripts the bootstrap download and the uninstaller:
  neither takes part in a transaction. The scripts that build and check
  releases are sequential and end at their first failure.
