----------------------------- MODULE HostReads -----------------------------
(***************************************************************************)
(* Reads of the host (adapters/*.ts): what runs when an adapter reads      *)
(* files and runs commands under Promise.all, when each read settles and   *)
(* with what, and what it leaves running behind it.                        *)
(*                                                                         *)
(* Every read of the adapters is a sequence of stages; the parts of one    *)
(* stage are started together.  Parts of one kind are interchangeable, so  *)
(* a read's outstanding parts are counted by the state they are in:        *)
(*   file     a file being read, or the CPU sample's sleep: an abort       *)
(*            reaches it                                                   *)
(*   bare     readdir, readlink, passwd, the lookup of ss: none reaches it *)
(*   command  a child process of execFile(), its timer armed               *)
(*   expired  a child signalled by its timer, not closed yet               *)
(*   flooded  a child signalled for its output's length, not closed yet    *)
(*   killed   a child signalled by the abort, its callback already called  *)
(*   deaf     a signalled child that never ends (uninterruptible sleep)    *)
(* A tool's read has the executor's signal; those of the snapshot manager  *)
(* and the doctor have none.                                               *)
(***************************************************************************)
EXTENDS Integers, Sequences

CONSTANTS
  Reads,        \* reads that may be under way at once
  Kinds,        \* the kinds of read that each of them may be
  Candidates,   \* processes that readdir finds
  Batch         \* PROC_READ_CONCURRENCY (32 in the code)

AllKinds == {"services", "service", "logs", "filesystems", "listeners", "host",
             "processes", "process"}
States == {"file", "bare", "command", "expired", "flooded", "killed", "deaf"}

ASSUME ReadsAssumption ==
  /\ Kinds \in [Reads -> SUBSET AllKinds]
  /\ Candidates \in Nat /\ Batch \in Nat \ {0}

Stage(fail, file, bare, command) ==
  [fail |-> fail, file |-> file, bare |-> bare, command |-> command]
Batches == (Candidates + Batch - 1) \div Batch

\* fail: what a failed part does to the read: reject it, be counted in its
\* health, skip the rest of the CPU sample, or leave no trace.
OneCommand == <<Stage("reject", 0, 0, 1)>>

\* Both df commands and mountinfo.
Filesystems == <<Stage("reject", 1, 0, 2)>>

\* ss, once it has been found, for both protocols.
Listeners == <<Stage("reject", 0, 1, 0), Stage("reject", 0, 0, 2)>>

\* The CPU sample: /proc/stat, the sleep, /proc/stat again.
CpuSample == [k \in 1 .. 3 |-> Stage("sample", 1, 0, 0)]
HostSummary == <<Stage("reject", 5, 0, 0)>> \o CpuSample \o <<Stage("ignore", 1, 0, 0)>>

\* readdir and the context, then the processes in batches; one read of a
\* process is one part, in which the passwd file is not counted.
ProcessList ==
  <<Stage("reject", 2, 1, 0)>> \o
  [k \in 1 .. Batches |->
     Stage("count", IF k < Batches THEN Batch ELSE Candidates - Batch * (k - 1), 0, 0)]

\* The context, the four files of the process, and the passwd file.
OneProcess ==
  <<Stage("reject", 2, 0, 0), Stage("reject", 3, 1, 0), Stage("reject", 0, 1, 0)>>

Plan ==
  [services |-> OneCommand, service |-> OneCommand, logs |-> OneCommand,
   filesystems |-> Filesystems, listeners |-> Listeners, host |-> HostSummary,
   processes |-> ProcessList, process |-> OneProcess]

VARIABLES
  up,     \* the agent's process runs
  ss,     \* SocketAdapter.executable: "pending", "found" or "missing"
  read    \* each read's progress and outstanding parts

readVars == <<up, ss, read>>

Codes == {"OK", "TOOL_TIMEOUT", "OUTPUT_TOO_LARGE", "HOST_UNAVAILABLE",
          "PERMISSION_DENIED", "COMMAND_UNAVAILABLE", "RESOURCE_NOT_FOUND",
          "raw"}  \* an error of the file system, or of its abort
NoWork == [s \in States |-> 0]
NoRead == [kind |-> "services", stage |-> 0, signal |-> FALSE, aborted |-> FALSE,
         work |-> NoWork, failures |-> 0, items |-> 0, verdict |-> "OK"]

ReadsInit ==
  /\ up = TRUE /\ ss = "pending"
  /\ read = [r \in Reads |-> NoRead]

Active(r) == read[r].stage # 0
Outstanding(w) ==
  w["file"] + w["bare"] + w["command"] + w["expired"] + w["flooded"]
    + w["killed"] + w["deaf"]

\* One part of w, or every one, in state s goes to state t.
Moved(w, s, t) == [w EXCEPT ![s] = @ - 1, ![t] = @ + 1]
Ended(w, s) == [w EXCEPT ![s] = @ - 1]
\* The parts of a stage are started together.
Started(w, stage) ==
  [s \in States |-> IF s \in DOMAIN stage THEN w[s] + stage[s] ELSE w[s]]
\* The abort signals every child that has not closed; some may be deaf.
Kills(w) ==
  LET children == w["command"] + w["expired"] + w["flooded"] IN
  {[w EXCEPT !["killed"] = children - d, !["deaf"] = @ + d,
             !["command"] = 0, !["expired"] = 0, !["flooded"] = 0] :
     d \in 0 .. children}

-----------------------------------------------------------------------------
(* Stages and verdicts. *)

\* The read's promise settles; parts that are outstanding go on without it.
Settled(x, verdict) == [x EXCEPT !.stage = 0, !.verdict = verdict]

\* A child that has not closed may still call back.
Listening(w) == w["command"] + w["expired"] + w["flooded"] + w["deaf"] > 0

\* An aborted child's callback is called at once, and rejects the read.
Cut(x) == {Settled([x EXCEPT !.work = w], "TOOL_TIMEOUT") : w \in Kills(x.work)}

\* What the adapter makes of complete output: systemctl show may name no unit,
\* journalctl may say on stderr that it was not permitted.
ServiceFound == {"OK", "RESOURCE_NOT_FOUND"}
LogsReadable == {"OK", "PERMISSION_DENIED"}
Final(kind) ==
  CASE kind = "service" -> ServiceFound
    [] kind = "logs" -> LogsReadable
    [] OTHER -> {"OK"}

\* journalArgs() refuses a query outside the allowed units.
Refused(kind) == IF kind = "logs" THEN {"PERMISSION_DENIED"} ELSE {}

\* ensureActive() precedes the context, every batch, and the files of a
\* process, but not the passwd file, which is read without the signal.
EnsuresActive(kind, s) ==
  kind = "processes" \/ (kind = "process" /\ s < Len(OneProcess))

\* The read goes on to stage s: ensureActive(), and a child spawned under an
\* aborted signal, end it with a timeout.
Entered(x, s) ==
  IF s > Len(Plan[x.kind])
  THEN {Settled(x, verdict) : verdict \in Final(x.kind)}
  ELSE LET stage == Plan[x.kind][s]
           begun == [x EXCEPT !.stage = s, !.work = Started(@, stage)]
       IN  IF x.aborted /\ EnsuresActive(x.kind, s)
           THEN {Settled(x, "TOOL_TIMEOUT")}
           ELSE IF x.aborted /\ stage.command > 0
           THEN Cut(begun)
           ELSE {begun}

\* A part has ended and left work w, with one item more or none: Promise.all
\* resolves with the last one.
Resolved(x, w, item) ==
  LET next == [x EXCEPT !.work = w, !.items = @ + item] IN
  IF Outstanding(w) = 0 THEN Entered(next, x.stage + 1) ELSE {next}

\* Variant the checks must reject: an unreadable process leaves no trace.
FailedUncounted(x, w, code) ==
  IF x.stage = 0 THEN {[x EXCEPT !.work = w]}
  ELSE IF Plan[x.kind][x.stage].fail = "reject"
  THEN {Settled([x EXCEPT !.work = w], code)}
  ELSE Resolved(x, w, 0)

\* Variant the checks must reject: a tolerated failure is not a completion.
FailedStuck(x, w, code) ==
  IF x.stage = 0 THEN {[x EXCEPT !.work = w]}
  ELSE IF Plan[x.kind][x.stage].fail = "reject"
  THEN {Settled([x EXCEPT !.work = w], code)}
  ELSE {[x EXCEPT !.failures = @ + 1, !.work = w]}

\* A part has failed: Promise.all rejects with the first failure of a strict
\* stage; a failure of a settled read is lost.
Failed(x, w, code) ==
  LET on == Plan[x.kind][x.stage].fail IN
  CASE x.stage = 0 -> {[x EXCEPT !.work = w]}
    [] x.stage # 0 /\ on = "reject" -> {Settled([x EXCEPT !.work = w], code)}
    [] x.stage # 0 /\ on = "count" ->
         Resolved([x EXCEPT !.failures = @ + 1], w, 0)
    [] x.stage # 0 /\ on = "sample" ->
         Entered([x EXCEPT !.failures = @ + 1, !.work = w], Len(Plan.host))
    [] x.stage # 0 /\ on = "ignore" -> Resolved(x, w, 0)

Succeeded(x, w) ==
  IF x.stage = 0 THEN {[x EXCEPT !.work = w]}
  ELSE Resolved(x, w, IF Plan[x.kind][x.stage].fail = "count" THEN 1 ELSE 0)

\* What the snapshot manager writes about a section in the collector health.
Health(x) ==
  CASE x.verdict = "OK" -> IF x.failures > 0 THEN "partial" ELSE "ok"
    [] x.verdict = "PERMISSION_DENIED" -> "permission_denied"
    [] x.verdict = "TOOL_TIMEOUT" -> "timed_out"
    [] OTHER -> "unavailable"

Becomes(r, outcomes) == \E x \in outcomes : read' = [read EXCEPT ![r] = x]

-----------------------------------------------------------------------------
(* Steps. *)

\* A tool's handler, a section of a snapshot or the doctor asks for a read.
Begin(r, kind, signal) ==
  /\ up /\ ~Active(r) /\ Outstanding(read[r].work) = 0
  /\ LET x == [NoRead EXCEPT !.kind = kind, !.signal = signal] IN
     Becomes(r, Entered(x, 1) \cup {Settled(x, code) : code \in Refused(kind)})
  /\ UNCHANGED <<up, ss>>

\* Variant the checks must reject: the signal is not passed to the commands.
AbortUnheard(r) ==
  /\ up /\ Active(r) /\ read[r].signal /\ ~read[r].aborted
  /\ Becomes(r, {[read[r] EXCEPT !.aborted = TRUE]})
  /\ UNCHANGED <<up, ss>>

\* The executor aborts the call, at its deadline or with its session: the
\* children are signalled, and their callbacks called, in the same turn.
Abort(r) ==
  /\ up /\ Active(r) /\ read[r].signal /\ ~read[r].aborted
  /\ LET x == [read[r] EXCEPT !.aborted = TRUE] IN
     Becomes(r, IF Listening(x.work) THEN Cut(x) ELSE {x})
  /\ UNCHANGED <<up, ss>>

\* Reading has ended or, if the signal was aborted, been given up.
FileEnds(r) ==
  /\ up /\ read[r].work["file"] > 0
  /\ LET w == Ended(read[r].work, "file") IN
     \/ Becomes(r, Succeeded(read[r], w))
     \/ Becomes(r, Failed(read[r], w, "raw"))
     \/ /\ read[r].kind = "process"
        /\ Becomes(r, Failed(read[r], w, "RESOURCE_NOT_FOUND"))
  /\ UNCHANGED <<up, ss>>

\* readdir, readlink (which tolerates failure) or the passwd file answers, or
\* the memoized lookup of ss does.
BareEnds(r) ==
  /\ up /\ read[r].work["bare"] > 0
  /\ LET x == read[r]
         w == Ended(x.work, "bare") IN
     IF x.kind = "listeners"
     THEN \/ ss = "found" /\ Becomes(r, Succeeded(x, w))
          \/ ss = "missing" /\ Becomes(r, Failed(x, w, "COMMAND_UNAVAILABLE"))
     ELSE \/ Becomes(r, Succeeded(x, w))
          \/ ~(x.kind = "process" /\ x.stage = 2) /\ Becomes(r, Failed(x, w, "raw"))
  /\ UNCHANGED <<up, ss>>

\* Variant the checks must reject: an aborted child calls back when it closes.
CommandEndsTwice(r) ==
  /\ up /\ read[r].work["command"] + read[r].work["killed"] > 0
  /\ Becomes(r, Failed(read[r], Ended(read[r].work, "command"),
                       "HOST_UNAVAILABLE"))
  /\ UNCHANGED <<up, ss>>

\* The child closes by itself, or cannot be spawned.
CommandEnds(r) ==
  /\ up /\ read[r].work["command"] > 0
  /\ LET w == Ended(read[r].work, "command") IN
     \/ Becomes(r, Succeeded(read[r], w))
     \/ \E code \in {"HOST_UNAVAILABLE", "PERMISSION_DENIED",
                     "COMMAND_UNAVAILABLE"} :
          Becomes(r, Failed(read[r], w, code))
  /\ UNCHANGED <<up, ss>>

\* Variant the checks must reject: a settled read clears its children's timers.
ExpireActive(r) ==
  /\ up /\ read[r].work["command"] > 0 /\ Active(r)
  /\ \E s \in {"expired", "deaf"} :
       Becomes(r, {[read[r] EXCEPT !.work = Moved(@, "command", s)]})
  /\ UNCHANGED <<up, ss>>

\* execFile() signals a child at its timeout; the callback waits for it to close.
Expire(r) ==
  /\ up /\ read[r].work["command"] > 0
  /\ \E s \in {"expired", "deaf"} :
       Becomes(r, {[read[r] EXCEPT !.work = Moved(@, "command", s)]})
  /\ UNCHANGED <<up, ss>>

\* It also signals a child that has written more than maxBytes.
Flood(r) ==
  /\ up /\ read[r].work["command"] > 0
  /\ \E s \in {"flooded", "deaf"} :
       Becomes(r, {[read[r] EXCEPT !.work = Moved(@, "command", s)]})
  /\ UNCHANGED <<up, ss>>

\* A signalled child closes: the cause it was signalled for decides.
ChildCloses(r) ==
  /\ up
  /\ \/ /\ read[r].work["expired"] > 0
        /\ Becomes(r, Failed(read[r], Ended(read[r].work, "expired"),
                             "TOOL_TIMEOUT"))
     \/ /\ read[r].work["flooded"] > 0
        /\ Becomes(r, Failed(read[r], Ended(read[r].work, "flooded"),
                             "OUTPUT_TOO_LARGE"))
     \/ /\ read[r].work["killed"] > 0
        /\ Becomes(r, {[read[r] EXCEPT !.work = Ended(@, "killed")]})
  /\ UNCHANGED <<up, ss>>

Waiting(r) == read[r].kind = "listeners" /\ read[r].work["bare"] > 0

\* The process ends, and its control group with it.
Stops ==
  /\ up /\ up' = FALSE
  /\ read' = [r \in Reads |-> NoRead]

\* The constructor's lookup of ss ends.  Nothing handles its rejection but a
\* list that is waiting for it: without one the process ends.
Resolve ==
  /\ up /\ ss = "pending"
  /\ \/ ss' = "found" /\ UNCHANGED <<up, read>>
     \/ (\E r \in Reads : Waiting(r)) /\ ss' = "missing" /\ UNCHANGED <<up, read>>
     \/ ~(\E r \in Reads : Waiting(r)) /\ Stops /\ UNCHANGED ss

Stop == Stops /\ UNCHANGED ss

\* systemd starts the agent.
Restart ==
  /\ ~up
  /\ up' = TRUE /\ ss' = "pending"
  /\ UNCHANGED read

ReadStep(r) ==
  \/ \E kind \in Kinds[r], signal \in BOOLEAN : Begin(r, kind, signal)
  \/ Abort(r) \/ FileEnds(r) \/ BareEnds(r)
  \/ CommandEnds(r) \/ Expire(r) \/ Flood(r) \/ ChildCloses(r)

ReadsNext == (\E r \in Reads : ReadStep(r)) \/ Resolve \/ Stop \/ Restart

\* Files of the host are local and are read; a child may run for ever, but its
\* timer does not; a signalled child that is not deaf closes; the executor
\* aborts every call that has not settled at its deadline.
ReadsFairness ==
  /\ WF_readVars(Resolve)
  /\ \A r \in Reads :
       /\ WF_readVars(FileEnds(r)) /\ WF_readVars(BareEnds(r)) /\ WF_readVars(Abort(r))
       /\ WF_readVars(Expire(r)) /\ WF_readVars(ChildCloses(r))

ReadsSpec == ReadsInit /\ [][ReadsNext]_readVars /\ ReadsFairness

-----------------------------------------------------------------------------
(* Properties. *)

\* Every variable keeps its type; no part is counted twice or below zero.
ReadsTypeOK ==
  /\ up \in BOOLEAN /\ ss \in {"pending", "found", "missing"}
  /\ \A r \in Reads :
       /\ read[r].kind \in AllKinds /\ read[r].verdict \in Codes
       /\ read[r].stage \in 0 .. Len(Plan[read[r].kind])
       /\ \A s \in States : read[r].work[s] \in Nat

\* A list of processes accounts for every process it set out to read, over all
\* its batches, whatever vanished, failed or was aborted on the way; and what
\* is reported healthy is complete.
ListsEverything ==
  \A r \in Reads :
    LET x == read[r] IN
    ~Active(r) /\ x.kind = "processes" /\ x.verdict = "OK" =>
      /\ x.items + x.failures = Candidates
      /\ Health(x) = "ok" => x.items = Candidates

\* Together: the parts of a read and the entries of its result are counted
\* exactly (procfs.ts:45-62).
ReadsCounted == ReadsTypeOK /\ ListsEverything

\* A tool's read settles once its call is aborted, even if a command hangs in
\* the kernel and cannot be killed.
ToolReadsEnd ==
  \A r \in Reads : Active(r) /\ read[r].signal ~> ~Active(r)

\* Without a signal, as in the snapshot manager and the doctor, a read settles
\* unless one of its commands cannot be killed.
CollectionsEnd ==
  \A r \in Reads : Active(r) ~> ~Active(r) \/ read[r].work["deaf"] > 0

\* The commands a rejected or aborted read leaves behind end as well.
Children(r) == read[r].work["command"] + read[r].work["expired"]
                 + read[r].work["flooded"] + read[r].work["killed"]
ChildrenEnd == \A r \in Reads : Children(r) > 0 ~> Children(r) = 0
=============================================================================
