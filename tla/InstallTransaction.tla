------------------------- MODULE InstallTransaction -------------------------
(***************************************************************************)
(* One installation of the agent as a transaction over the host's files,   *)
(* its systemd units and the control plane's enrollment: install-worker.sh *)
(* with install.sh and its exit handler, and the recovery program that     *)
(* finishes what an installer left behind.  Both hold the installation     *)
(* lock while they run, so there is one program counter.  Every step is    *)
(* one effect on the disk, systemd or the control plane; between any two   *)
(* the program may fail, the process may be killed and the host may lose   *)
(* power.                                                                  *)
(*                                                                         *)
(* What is installed is four pieces: the release link, the environment     *)
(* with the credential, the action policy and the action socket, each of   *)
(* them absent, old or new.                                                *)
(***************************************************************************)
CONSTANTS
  Requests,  \* the installations to consider
  Fragile    \* the programs that may be cut short: killed, interrupted by a
             \* power loss or, the exit handler, failing at a restoration

Request ==
  {r \in [kind : {"initial", "replace", "repair"}, active : BOOLEAN,
          sameRelease : BOOLEAN, oldSocket : BOOLEAN, newSocket : BOOLEAN] :
     /\ r.kind = "initial" => ~r.active /\ ~r.sameRelease /\ ~r.oldSocket
     /\ r.kind = "repair" => r.oldSocket = r.newSocket}

ASSUME InstallAssumption ==
  Requests \subseteq Request /\ Fragile \subseteq {"install", "exit", "recover"}

VARIABLES
  given,    \* the request, and the state of the installation it meets
  host,     \* the four installed pieces
  system,   \* units and recovery program, enablement, candidate's directory
  service,  \* the agent under systemd, and its readiness marker
  journal,  \* the transaction directory and the link to it
  at,       \* the step the installer or the recovery is about to take
  reg,      \* shell variables of the running program
  cp,       \* the control plane: enrollment, accepted credential, grace
  calm,     \* from here on: no kill, no power loss, no network failure
  cut       \* history: the exit handler failed, or was cut short

program == <<at, reg>>
luck == <<calm, cut>>
vars == <<given, host, system, service, journal, program, cp, luck>>

HasPrevious == given.kind # "initial"
Exchanging == given.kind # "repair"
Candidate == IF given.sameRelease THEN "old" ELSE "new"

OldHost ==
  IF HasPrevious
  THEN [release |-> "old", env |-> "old", policy |-> "old",
        socket |-> given.oldSocket]
  ELSE [release |-> "none", env |-> "none", policy |-> "none", socket |-> FALSE]
NewHost ==
  [release |-> Candidate, env |-> "new", policy |-> "new",
   socket |-> given.newSocket]

\* The credential an environment file carries.
Key(env) == IF env = "new" /\ ~Exchanging THEN "old" ELSE env

NoAgent == [release |-> "none", env |-> "none"]
Loaded == [release |-> host.release, env |-> host.env]
IsActive == service.agent # NoAgent

\* `systemctl restart` once it has returned, and `systemctl stop`, which
\* removes the runtime directory with the marker.  A process that starts
\* removes the marker before it connects.
Restarted ==
  [agent |-> Loaded, marker |-> FALSE, online |-> FALSE, queued |-> FALSE,
   wanted |-> TRUE]
Stopped ==
  [agent |-> NoAgent, marker |-> FALSE, online |-> FALSE, queued |-> FALSE,
   wanted |-> FALSE]
\* rm marker; systemctl restart --no-block
Queued == [service EXCEPT !.marker = FALSE, !.queued = TRUE, !.wanted = TRUE]

NoJournal ==
  [link |-> FALSE, prev |-> OldHost, active |-> FALSE, control |-> FALSE,
   candidate |-> "none", socket |-> FALSE, selected |-> FALSE,
   committed |-> FALSE]
NoReg ==
  [local |-> "none", remote |-> "none", seen |-> "none", connected |-> FALSE,
   changed |-> FALSE, revoked |-> FALSE]

Init ==
  /\ given \in Requests
  /\ host = OldHost
  /\ system = [units |-> HasPrevious, enabled |-> HasPrevious,
               staged |-> given.sameRelease]
  /\ service = IF given.active
               THEN [agent |-> Loaded, marker |-> TRUE, online |-> TRUE,
                     queued |-> FALSE, wanted |-> TRUE]
               ELSE Stopped
  /\ journal = NoJournal
  /\ at = "begin" /\ reg = NoReg
  /\ cp = [status |-> IF Exchanging THEN "issued" ELSE "none",
           active |-> IF HasPrevious THEN "old" ELSE "none", grace |-> FALSE]
  /\ calm = FALSE /\ cut = FALSE

Installing ==
  {"save", "stage", "units", "switch", "env", "policy", "link", "files",
   "socket", "start", "await", "verify", "commit", "restart", "confirm",
   "settle"}
Exiting ==
  {"undo_release", "undo_env", "undo_actions", "undo_agent", "select",
   "cancel", "remove", "await_old", "conclude"}
Recovering ==
  {"query", "retain", "revoke", "back_release", "back_env", "back_actions",
   "back_units", "judge", "redo_release", "redo_env", "redo_actions",
   "redo_agent", "unselect"}
Running(part) ==
  at \in CASE part = "install" -> Installing \cup {"exchange", "cleanup"}
           [] part = "exit" -> Exiting
           [] part = "recover" -> Recovering
-----------------------------------------------------------------------------
(* The control plane, after its stand-in in scripts/systemd-smoke-server.mjs *)
(* where that has the case.  A reply may be lost after its effect.          *)

\* A connection with the active credential counts; one with that of a pending
\* enrollment is provisional.
Accepted(env) == env \in {"old", "new"} /\ Key(env) = cp.active
Pending(env) == env = "new" /\ cp.status = "exchanged"

\* An enrollment token is good for one exchange, and verified by the handshake
\* of the agent that holds its credential.
Exchanged == [cp EXCEPT !.status = "exchanged"]
Verified == [cp EXCEPT !.status = "verified"]

\* POST rollback cancels a pending enrollment, or a committed one in grace.
Revocable ==
  \/ cp.status \in {"exchanged", "verified", "cancelled"}
  \/ cp.status = "completed" /\ cp.grace
Revoked ==
  [status |-> "cancelled", active |-> IF HasPrevious THEN "old" ELSE "none",
   grace |-> FALSE]
Committed == [status |-> "completed", active |-> "new", grace |-> TRUE]

\* A connection with a credential that is no longer active does not count.
Recount(c) ==
  service' = [service EXCEPT !.online = @ /\ c.active = cp.active]

Expire ==
  /\ cp.status \in {"exchanged", "verified"}
  /\ cp' = [cp EXCEPT !.status = "expired"]
  /\ UNCHANGED <<given, host, system, service, journal, program, luck>>

GraceEnds ==
  /\ cp.grace
  /\ cp' = [cp EXCEPT !.grace = FALSE]
  /\ UNCHANGED <<given, host, system, service, journal, program, luck>>
-----------------------------------------------------------------------------
(* The installer.                                                           *)

\* The rollback snapshot is complete before the link publishes it.
Begin ==
  /\ at = "begin" /\ ~journal.link
  /\ (host.env = "none") = (host.release = "none")
  /\ host.env = "none" => ~system.units
  /\ journal' = [NoJournal EXCEPT !.link = TRUE, !.prev = host,
                                  !.active = IsActive]
  /\ at' = IF Exchanging THEN "exchange" ELSE "stage"
  /\ UNCHANGED <<given, host, system, service, reg, cp, luck>>

\* The token is consumed; the reply may be lost, or be found invalid.
Exchange ==
  /\ at = "exchange"
  /\ \/ cp.status = "issued" /\ cp' = Exchanged /\ at' \in {"save", "cancel"}
     \/ cp' = cp /\ at' = "cancel"
  /\ UNCHANGED <<given, host, system, service, journal, reg, luck>>

\* transaction-id, platform-url and, last, curl.conf with the secret.
SaveControl ==
  /\ at = "save" /\ at' = "stage"
  /\ journal' = [journal EXCEPT !.control = TRUE]
  /\ UNCHANGED <<given, host, system, service, reg, cp, luck>>

\* install.sh: the release directory, and examples where files are missing.
Stage ==
  /\ at = "stage" /\ at' = "units"
  /\ system' = [system EXCEPT !.staged = TRUE]
  /\ host' = [host EXCEPT !.env = IF @ = "none" THEN "example" ELSE @,
                          !.policy = IF @ = "none" THEN "example" ELSE @]
  /\ UNCHANGED <<given, service, journal, reg, cp, luck>>

Units ==
  /\ at = "units" /\ at' = "switch"
  /\ system' = [system EXCEPT !.units = TRUE]
  /\ UNCHANGED <<given, host, service, journal, reg, cp, luck>>

Switch ==
  /\ at = "switch" /\ at' = "env"
  /\ host' = [host EXCEPT !.release = Candidate]
  /\ system' = [system EXCEPT !.enabled = TRUE]
  /\ UNCHANGED <<given, service, journal, reg, cp, luck>>

PutEnv ==
  /\ at = "env" /\ at' = "policy"
  /\ host' = [host EXCEPT !.env = "new"]
  /\ UNCHANGED <<given, system, service, journal, reg, cp, luck>>

PutPolicy ==
  /\ at = "policy" /\ at' = "link"
  /\ host' = [host EXCEPT !.policy = "new"]
  /\ UNCHANGED <<given, system, service, journal, reg, cp, luck>>

\* candidate-current, then candidate.env and candidate-actions.json.
SaveCandidate ==
  /\ \/ /\ at = "link" /\ at' = "files"
        /\ journal' = [journal EXCEPT !.candidate = "link"]
     \/ /\ at = "files" /\ at' = "socket"
        /\ journal' = [journal EXCEPT !.candidate = "full"]
  /\ UNCHANGED <<given, host, system, service, reg, cp, luck>>

PutSocket ==
  /\ at = "socket" /\ at' = "start"
  /\ host' = [host EXCEPT !.socket = given.newSocket]
  /\ journal' = [journal EXCEPT !.socket = given.newSocket]
  /\ UNCHANGED <<given, system, service, reg, cp, luck>>

StartCandidate ==
  /\ at = "start" /\ at' = IF journal.control THEN "verify" ELSE "await"
  /\ system' = [system EXCEPT !.enabled = TRUE]
  /\ service' = Restarted
  /\ UNCHANGED <<given, host, journal, reg, cp, luck>>

\* Without an exchange the existing credential must reconnect.
AwaitMarker ==
  /\ at = "await" /\ service.marker /\ at' = "settle"
  /\ UNCHANGED <<given, host, system, service, journal, reg, cp, luck>>

Verify ==
  /\ at = "verify" /\ cp.status = "verified" /\ at' = "commit"
  /\ UNCHANGED <<given, host, system, service, journal, reg, cp, luck>>

Commit ==
  /\ at = "commit" /\ cp.status = "verified"
  /\ cp' = Committed /\ Recount(Committed)
  /\ at' \in IF calm THEN {"restart"} ELSE {"restart", "undo_release"}
  /\ UNCHANGED <<given, host, system, journal, reg, luck>>

RestartCommitted ==
  /\ at = "restart" /\ at' = "confirm"
  /\ service' = Restarted
  /\ UNCHANGED <<given, host, system, journal, reg, cp, luck>>

Confirm ==
  /\ at = "confirm" /\ at' = "settle"
  /\ service.marker /\ cp.status = "completed" /\ service.online
  /\ UNCHANGED <<given, host, system, service, journal, reg, cp, luck>>

\* completed=true, phase committed; then the exit handler only cleans up.
Settle ==
  /\ at = "settle" /\ at' = "cleanup"
  /\ journal' = [journal EXCEPT !.committed = TRUE]
  /\ UNCHANGED <<given, host, system, service, reg, cp, luck>>

Cleanup ==
  /\ at = "cleanup" /\ at' = "idle"
  /\ journal' = NoJournal
  /\ UNCHANGED <<given, host, system, service, reg, cp, luck>>

\* A command fails, a wait times out, or a signal ends the script.
Fails ==
  /\ at \in Installing
  /\ at' = IF at = "save" THEN "cancel" ELSE "undo_release"
  /\ UNCHANGED <<given, host, system, service, journal, reg, cp, luck>>
-----------------------------------------------------------------------------
(* The installer's exit handler: restore_previous, then the control plane.  *)

UndoRelease ==
  /\ at = "undo_release" /\ at' = "undo_env"
  /\ host' = [host EXCEPT !.release = journal.prev.release]
  /\ UNCHANGED <<given, system, service, journal, reg, cp, luck>>

UndoEnv ==
  /\ at = "undo_env" /\ at' = "undo_actions"
  /\ host' = [host EXCEPT !.env = journal.prev.env]
  /\ UNCHANGED <<given, system, service, journal, reg, cp, luck>>

\* restore_previous returns nonzero: the socket or the agent that was active
\* could not be started again.
RestorationFails ==
  /\ "exit" \in Fragile
  /\ at' = "cancel" /\ reg' = [reg EXCEPT !.local = "failed"]
  /\ cut' = TRUE

UndoActions ==
  /\ at = "undo_actions"
  /\ host' = [host EXCEPT !.policy = journal.prev.policy,
                          !.socket = journal.prev.socket]
  /\ \/ at' = "undo_agent" /\ UNCHANGED <<reg, cut>>
     \/ journal.prev.socket /\ RestorationFails
  /\ UNCHANGED <<given, system, service, journal, cp, calm>>

UndoAgent ==
  /\ at = "undo_agent"
  /\ IF journal.active
     THEN /\ \/ service' = Restarted /\ at' = "select" /\ UNCHANGED <<reg, cut>>
             \/ service' = [Restarted EXCEPT !.agent = NoAgent]
                /\ RestorationFails
          /\ system' = system
     ELSE /\ service' = Stopped /\ at' = "select" /\ UNCHANGED <<reg, cut>>
          /\ system' = [system EXCEPT !.enabled = @ /\ HasPrevious]
  /\ UNCHANGED <<given, host, journal, cp, calm>>

SelectPrevious ==
  /\ at = "select" /\ at' = "cancel"
  /\ journal' = [journal EXCEPT !.selected = TRUE]
  /\ reg' = [reg EXCEPT !.local = "ok"]
  /\ UNCHANGED <<given, host, system, service, cp, luck>>

CancelControl ==
  /\ at = "cancel" /\ at' = "remove"
  /\ \/ ~journal.control /\ UNCHANGED <<reg, cp, service>>
     \/ /\ journal.control /\ Revocable
        /\ cp' = Revoked /\ Recount(Revoked)
        /\ reg' \in {[reg EXCEPT !.remote = r] :
                       r \in IF calm THEN {"ok"} ELSE {"ok", "failed"}}
     \/ /\ journal.control /\ (calm => ~Revocable)
        /\ reg' = [reg EXCEPT !.remote = "failed"]
        /\ UNCHANGED <<cp, service>>
  /\ UNCHANGED <<given, host, system, journal, luck>>

\* Variant the checks must reject: the candidate is removed although the
\* control plane may still hold it.
UndoneLocally == reg.local = "ok"

Undone == reg.local = "ok" /\ reg.remote # "failed"

RemoveInitial ==
  /\ at = "remove" /\ at' = IF Undone THEN "await_old" ELSE "conclude"
  /\ IF Undone /\ journal.prev.release = "none"
     THEN /\ service' = Stopped
          /\ system' = [units |-> FALSE, enabled |-> FALSE, staged |-> FALSE]
          /\ host' = [host EXCEPT !.policy = journal.prev.policy]
     ELSE UNCHANGED <<host, system, service>>
  /\ UNCHANGED <<given, journal, reg, cp, luck>>

\* The wait succeeds at once when the agent was not running before.
AwaitRestored ==
  /\ at = "await_old" /\ at' = "conclude"
  /\ \/ /\ journal.active =>
             /\ service.marker
             /\ journal.control => cp.status = "cancelled" /\ service.online
        /\ reg' = reg
     \/ journal.active /\ reg' = [reg EXCEPT !.local = "unproven"]
  /\ UNCHANGED <<given, host, system, service, journal, cp, luck>>

\* Variant the checks must reject: closes although the credential may be
\* committed.
ConcludeLocally ==
  /\ at = "conclude" /\ at' = "idle" /\ reg' = NoReg
  /\ journal' = IF reg.local \in {"failed", "unproven"} THEN journal
                ELSE NoJournal
  /\ UNCHANGED <<given, host, system, service, cp, luck>>

Conclude ==
  /\ at = "conclude" /\ at' = "idle" /\ reg' = NoReg
  /\ journal' = IF reg.local \in {"failed", "unproven"} \/ reg.remote = "failed"
                THEN journal ELSE NoJournal
  /\ UNCHANGED <<given, host, system, service, cp, luck>>
-----------------------------------------------------------------------------
(* Recovery.  Leaving at "idle" with the journal in place is exit 75: the   *)
(* unit tries again after 30 s.                                             *)

Quit == at' = "idle" /\ reg' = NoReg
Discard == journal' = NoJournal /\ Quit

Recover ==
  /\ at = "idle" /\ journal.link /\ system.units
  /\ IF journal.committed
     THEN Discard
     ELSE /\ at' = IF journal.control THEN "query" ELSE "back_release"
          /\ UNCHANGED <<reg, journal>>
  /\ UNCHANGED <<given, host, system, service, cp, luck>>

\* The states of an enrollment that the script knows what to do about.
Decidable == {"exchanged", "verified", "completed", "cancelled", "expired"}

Query ==
  /\ at = "query"
  /\ \/ /\ cp.status \in Decidable
        /\ reg' = [reg EXCEPT !.seen = cp.status, !.connected = service.online]
        /\ at' = CASE cp.status = "completed" /\ ~journal.selected -> "retain"
                   [] cp.status \in {"cancelled", "expired"} -> "back_release"
                   [] OTHER -> "revoke"
     \/ (~calm \/ cp.status \notin Decidable) /\ Quit
  /\ UNCHANGED <<given, host, system, service, journal, cp, luck>>

\* A committed candidate is kept once it is seen to be authenticated.
Retain ==
  /\ at = "retain"
  /\ IF service.marker /\ reg.connected THEN Discard
     ELSE Quit /\ UNCHANGED journal
  /\ UNCHANGED <<given, host, system, service, cp, luck>>

\* Refused when the enrollment has expired or the grace has ended.
Revoke ==
  /\ at = "revoke"
  /\ \/ /\ Revocable /\ cp' = Revoked /\ Recount(Revoked)
        /\ \/ at' = "back_release" /\ reg' = [reg EXCEPT !.revoked = TRUE]
           \/ ~calm /\ Quit
     \/ /\ ~Revocable /\ UNCHANGED <<cp, service>>
        /\ IF reg.seen = "completed" THEN at' = "redo_release" /\ reg' = reg
           ELSE Quit
     \/ ~calm /\ Quit /\ UNCHANGED <<cp, service>>
  /\ UNCHANGED <<given, host, system, journal, luck>>

\* The link counts as changed by what candidate-current says, if it exists.
BackRelease ==
  /\ at = "back_release" /\ at' = "back_env"
  /\ LET candidate ==
           IF journal.candidate # "none" /\ journal.prev.release # "none"
           THEN Candidate ELSE host.release
     IN reg' = [reg EXCEPT !.changed = candidate # journal.prev.release]
  /\ host' = [host EXCEPT !.release = journal.prev.release]
  /\ UNCHANGED <<given, system, service, journal, cp, luck>>

BackEnv ==
  /\ at = "back_env" /\ at' = "back_actions"
  /\ reg' = [reg EXCEPT !.changed = @ \/ host.env # journal.prev.env]
  /\ host' = [host EXCEPT !.env = journal.prev.env]
  /\ UNCHANGED <<given, system, service, journal, cp, luck>>

BackActions ==
  /\ at = "back_actions" /\ at' = "back_units"
  /\ host' = [host EXCEPT !.policy = journal.prev.policy,
                          !.socket = journal.prev.socket]
  /\ UNCHANGED <<given, system, service, journal, reg, cp, luck>>

\* Variant the checks must reject: never restarts the agent.
BackUnitsQuietly ==
  /\ at = "back_units" /\ at' = "judge"
  /\ IF journal.prev.release = "none"
     THEN /\ service' = Stopped
          /\ system' = [units |-> FALSE, enabled |-> FALSE, staged |-> FALSE]
     ELSE UNCHANGED <<service, system>>
  /\ UNCHANGED <<given, host, journal, reg, cp, luck>>

\* A first installation is removed with the recovery program itself; a
\* running agent is restarted if a file was changed.
BackUnits ==
  /\ at = "back_units" /\ at' = "judge"
  /\ IF journal.prev.release = "none"
     THEN /\ service' = Stopped
          /\ system' = [units |-> FALSE, enabled |-> FALSE, staged |-> FALSE]
     ELSE /\ service' = IF reg.changed /\ journal.active /\ IsActive
                        THEN Queued ELSE service
          /\ system' = system
  /\ UNCHANGED <<given, host, journal, reg, cp, luck>>

Unproven == ~service.marker \/ (journal.control /\ ~reg.connected)

\* The restored agent must be seen to be authenticated, by a status read
\* after the rollback.
Judge ==
  /\ at = "judge"
  /\ IF journal.active /\ (reg.revoked \/ Unproven)
     THEN Quit /\ UNCHANGED journal
     ELSE Discard
  /\ UNCHANGED <<given, host, system, service, cp, luck>>

RedoRelease ==
  /\ at = "redo_release"
  /\ IF journal.candidate = "full" /\ system.staged
     THEN /\ host' = [host EXCEPT !.release = Candidate]
          /\ at' = "redo_env" /\ reg' = reg
     ELSE Quit /\ UNCHANGED host
  /\ UNCHANGED <<given, system, service, journal, cp, luck>>

RedoEnv ==
  /\ at = "redo_env" /\ at' = "redo_actions"
  /\ host' = [host EXCEPT !.env = "new"]
  /\ UNCHANGED <<given, system, service, journal, reg, cp, luck>>

RedoActions ==
  /\ at = "redo_actions" /\ at' = "redo_agent"
  /\ host' = [host EXCEPT !.policy = "new", !.socket = journal.socket]
  /\ UNCHANGED <<given, system, service, journal, reg, cp, luck>>

RedoAgent ==
  /\ at = "redo_agent"
  /\ IF system.units
     THEN /\ system' = [system EXCEPT !.enabled = TRUE]
          /\ service' = Queued
          /\ at' = "unselect" /\ reg' = reg
     ELSE Quit /\ UNCHANGED <<system, service>>
  /\ UNCHANGED <<given, host, journal, cp, luck>>

\* Variant the checks must reject: forgets to remove previous-selected.
UnselectNothing ==
  /\ at = "unselect" /\ Quit
  /\ UNCHANGED <<given, host, system, service, journal, cp, luck>>

Unselect ==
  /\ at = "unselect" /\ Quit
  /\ journal' = [journal EXCEPT !.selected = FALSE]
  /\ UNCHANGED <<given, host, system, service, cp, luck>>
-----------------------------------------------------------------------------
(* The agent under systemd, and what may befall the host.                   *)

\* Variant the checks must reject: an agent that starts on the example file.
AgentStartsAnyway ==
  /\ service.queued \/ (service.wanted /\ ~IsActive)
  /\ system.units /\ host.release # "none"
  /\ service' = Restarted
  /\ UNCHANGED <<given, host, system, journal, program, cp, luck>>

AgentStarts ==
  /\ service.queued \/ (service.wanted /\ ~IsActive)
  /\ system.units /\ host.release # "none" /\ host.env \in {"old", "new"}
  /\ service' = Restarted
  /\ UNCHANGED <<given, host, system, journal, program, cp, luck>>

AgentAuthenticates ==
  /\ IsActive /\ Accepted(service.agent.env)
  /\ ~service.marker \/ ~service.online
  /\ service' = [service EXCEPT !.marker = TRUE, !.online = TRUE]
  /\ UNCHANGED <<given, host, system, journal, program, cp, luck>>

\* A pending credential authenticates provisionally, without a marker.
AgentVerifies ==
  /\ Pending(service.agent.env)
  /\ cp' = Verified
  /\ UNCHANGED <<given, host, system, service, journal, program, luck>>

AgentDrops ==
  /\ IsActive /\ (service.marker \/ service.online)
  /\ calm => ~Accepted(service.agent.env)
  /\ service' = [service EXCEPT !.marker = FALSE, !.online = FALSE]
  /\ UNCHANGED <<given, host, system, journal, program, cp, luck>>

AgentCrashes ==
  /\ ~calm /\ IsActive
  /\ service' = [service EXCEPT !.agent = NoAgent, !.online = FALSE]
  /\ UNCHANGED <<given, host, system, journal, program, cp, luck>>

MayDie == \E part \in Fragile : Running(part)

CutShort == Quit /\ cut' = (cut \/ Running("exit"))

Kill ==
  /\ ~calm /\ MayDie /\ CutShort
  /\ UNCHANGED <<given, host, system, service, journal, cp, calm>>

PowerLoss ==
  /\ ~calm /\ (at = "idle" \/ MayDie) /\ CutShort
  /\ service' = [Stopped EXCEPT !.wanted = system.units /\ system.enabled]
  /\ UNCHANGED <<given, host, system, journal, cp, calm>>

Calm ==
  /\ ~calm /\ calm' = TRUE
  /\ UNCHANGED <<given, host, system, service, journal, program, cp, cut>>

Install ==
  \/ Begin \/ Exchange \/ SaveControl \/ Stage \/ Units \/ Switch \/ PutEnv
  \/ PutPolicy \/ SaveCandidate \/ PutSocket \/ StartCandidate \/ AwaitMarker
  \/ Verify \/ Commit \/ RestartCommitted \/ Confirm \/ Settle \/ Cleanup
  \/ Fails
HandleExit ==
  \/ UndoRelease \/ UndoEnv \/ UndoActions \/ UndoAgent \/ SelectPrevious
  \/ CancelControl \/ RemoveInitial \/ AwaitRestored \/ Conclude
RecoverySteps ==
  \/ Recover \/ Query \/ Retain \/ Revoke \/ BackRelease \/ BackEnv
  \/ BackActions \/ BackUnits \/ Judge \/ RedoRelease \/ RedoEnv
  \/ RedoActions \/ RedoAgent \/ Unselect

Next ==
  \/ Install \/ HandleExit \/ RecoverySteps
  \/ AgentStarts \/ AgentAuthenticates \/ AgentVerifies \/ AgentDrops
  \/ AgentCrashes \/ Expire \/ GraceEnds \/ Kill \/ PowerLoss \/ Calm

Spec == Init /\ [][Next]_vars

\* Every step of a program ends, recovery is started when the documentation
\* says so and retried by its unit, systemd starts a wanted agent, a valid
\* credential connects in calm, and an invalid one is disconnected.
FairSpec ==
  /\ Spec
  /\ WF_vars(Install) /\ WF_vars(HandleExit) /\ WF_vars(RecoverySteps)
  /\ WF_vars(AgentStarts) /\ WF_vars(AgentAuthenticates) /\ WF_vars(AgentDrops)
-----------------------------------------------------------------------------
Releases == {"none", "old", "new"}
Files == {"none", "example", "old", "new"}
Hosts == [release : Releases, env : Files, policy : Files, socket : BOOLEAN]
Systems == [units : BOOLEAN, enabled : BOOLEAN, staged : BOOLEAN]

\* An agent never runs on the example file.
Agents == [release : Releases, env : {"none", "old", "new"}]
Services == [agent : Agents, marker : BOOLEAN, online : BOOLEAN,
             queued : BOOLEAN, wanted : BOOLEAN]
Journals == [link : BOOLEAN, prev : Hosts, active : BOOLEAN, control : BOOLEAN,
             candidate : {"none", "link", "full"}, socket : BOOLEAN,
             selected : BOOLEAN, committed : BOOLEAN]
Steps == {"begin", "idle", "exchange", "cleanup"}
           \cup Installing \cup Exiting \cup Recovering
Statuses == {"none", "issued", "exchanged", "verified", "completed",
             "cancelled", "expired"}
Registers == [local : {"none", "ok", "failed", "unproven"},
              remote : {"none", "ok", "failed"}, seen : Statuses,
              connected : BOOLEAN, changed : BOOLEAN, revoked : BOOLEAN]
Enrollments == [status : Statuses, active : {"none", "old", "new"},
                grace : BOOLEAN]

TypeOK ==
  /\ given \in Requests
  /\ host \in Hosts /\ system \in Systems /\ service \in Services
  /\ journal \in Journals
  /\ at \in Steps /\ reg \in Registers
  /\ cp \in Enrollments
  /\ calm \in BOOLEAN /\ cut \in BOOLEAN

\* While the control plane accepts only the new credential, an unfinished
\* transaction holds everything that restoring the candidate takes: its
\* release, its files in the journal, and the recovery program.
CommitRestorable ==
  journal.link /\ cp.active = "new" =>
    /\ journal.candidate = "full" /\ journal.socket = given.newSocket
    /\ system.staged /\ system.units

Closes == journal.link /\ ~journal'.link

Decided ==
  \/ host' = OldHost /\ cp.status # "completed"
  \/ host' = NewHost /\ (Exchanging => cp.status = "completed")

\* Unless the exit handler failed or was cut short, a transaction is closed
\* only with the old installation restored in every piece and the control
\* plane not on the new credential, or with the new one complete and, if a
\* credential was exchanged, committed.
EndsDecided == [][Closes /\ ~cut => Decided]_vars

\* The documentation's claim that recovery restores what is not committed and
\* keeps what is: so does a transaction end, whatever became of its installer.
EndsWhole == [][Closes => Decided]_vars

\* When a transaction that met a running agent is closed, the agent that runs,
\* unless it is about to be restarted, has loaded the release and the
\* environment that are installed.
RunsInstalled ==
  [][Closes /\ journal.active /\ IsActive =>
       service.queued \/ service.agent = Loaded]_vars

\* In calm every transaction is closed, unless the recovery program is gone.
RecoveryEnds == calm /\ journal.link ~> ~journal.link \/ ~system.units
=============================================================================
