---------------------- MODULE InstallTransaction_proofs ----------------------
(***************************************************************************)
(* How a transaction of the installer ends, for any requests and whichever *)
(* programs may be cut short.  IInv says what each step of the installer,  *)
(* of its exit handler and of recovery has left behind it: a program that  *)
(* is cut short leaves nothing but the journal and the host for the next   *)
(* one to go by.                                                           *)
(***************************************************************************)
EXTENDS InstallTransaction, TLAPS

\* The installer's steps by what has been done before them.
Ready ==
  {"start", "await", "verify", "commit", "restart", "confirm", "settle",
   "cleanup"}
Saved == {"socket"} \cup Ready
PolicyPut == {"link", "files"} \cup Saved
EnvPut == {"policy"} \cup PolicyPut
Switched == {"env"} \cup EnvPut
Equipped == {"switch"} \cup Switched
Staged == {"units"} \cup Equipped
Untouched == {"begin", "exchange", "save", "stage"}

\* No step before the commit is taken after it.
Uncommitted ==
  (Untouched \cup Staged) \ {"restart", "confirm", "settle", "cleanup"}

\* Those of the exit handler and of recovery.
Restored == {"undo_agent", "select", "back_units", "judge"}
EnvBack == {"undo_actions", "back_actions"} \cup Restored
ReleaseBack == {"undo_env", "back_env"} \cup EnvBack
Cancelling == {"cancel", "remove", "await_old", "conclude"}
Redoing ==
  {"redo_release", "redo_env", "redo_actions", "redo_agent", "unselect"}
Returning ==
  {"back_release", "back_env", "back_actions", "back_units", "judge"}

\* A transaction is open while a program is at work, and its snapshot is of the
\* old installation.
Open ==
  /\ at = "begin" => ~journal.link
  /\ at \notin {"begin", "idle"} => journal.link
  /\ journal.link => journal.prev = OldHost

\* Each step of the installer has left what the next ones build on.
InstallProgress ==
  /\ at \in Untouched => host = OldHost
  /\ at \in Staged => system.staged
  /\ at \in Equipped => system.units
  /\ at \in Switched => host.release = Candidate
  /\ at \in EnvPut => host.env = "new"
  /\ at \in PolicyPut => host.policy = "new"
  /\ at \in Saved => journal.candidate = "full"
  /\ at \in Ready =>
       host.socket = given.newSocket /\ journal.socket = given.newSocket

\* The control plane's part in it.
ControlProgress ==
  /\ at \in {"exchange", "save"} => Exchanging
  /\ at \in {"stage"} \cup Staged => journal.control = Exchanging
  /\ at = "await" => ~journal.control
  /\ at \in {"verify", "commit"} => journal.control
  /\ at \in Uncommitted => cp.status # "completed"
  /\ at \in {"restart", "confirm"} => cp.status = "completed"
  /\ at \in {"settle", "cleanup"} => (Exchanging => cp.status = "completed")

\* What the exit handler and recovery have put back.
UndoProgress ==
  /\ at \in ReleaseBack => host.release = OldHost.release
  /\ at \in EnvBack => host.env = OldHost.env
  /\ at \in Restored => host = OldHost
  /\ at \in Cancelling => reg.local = "failed" \/ host = OldHost
  /\ at = "await_old" => reg.local = "ok"
  /\ /\ at \in Cancelling \ {"cancel"}
     /\ journal.control /\ reg.remote # "failed"
     => cp.status = "cancelled"

\* Recovery goes back only from what is not committed, and forward only from
\* what is.
RecoveryProgress ==
  /\ at \in Returning => cp.status # "completed"
  /\ at = "retain" => cp.status = "completed" /\ ~journal.selected
  /\ at = "revoke" /\ reg.seen = "completed" =>
       cp.status = "completed" /\ journal.selected
  /\ at \in Redoing => cp.status = "completed" /\ journal.selected
  /\ at \in Redoing \ {"redo_release"} => host.release = Candidate
  /\ at \in {"redo_actions", "redo_agent", "unselect"} => host.env = "new"
  /\ at \in {"redo_agent", "unselect"} => host = NewHost

\* A committed credential has its candidate in the journal.
CommitRecorded ==
  /\ cp.active = "new" => cp.status = "completed"
  /\ journal.link /\ cp.status = "completed" =>
       /\ journal.control
       /\ journal.candidate = "full" /\ journal.socket = given.newSocket
       /\ system.staged /\ system.units

\* Whoever finds a committed credential or a finished transaction finds the new
\* installation whole, unless the exit handler says or was kept from saying
\* that it put the old one back.
CommitKept ==
  /\ journal.link /\ cp.status = "completed" =>
       \/ at \in Exiting \ Cancelling
       \/ journal.selected \/ cut \/ host = NewHost
  /\ journal.committed =>
       /\ at \in {"cleanup", "idle"} /\ host = NewHost
       /\ Exchanging => cp.status = "completed"

\* The steps at which a running agent that is not about to be restarted has
\* loaded what is installed, when only the installer may be cut short and the
\* release of a running agent stays.
Fitting ==
  {"exchange", "save", "stage", "units", "switch", "env", "await", "verify",
   "commit", "restart", "confirm", "settle", "cleanup", "select", "retain",
   "judge", "redo_release", "redo_env", "unselect"} \cup Cancelling

Fits ==
  IsActive /\ ~service.queued =>
    service.agent.release = host.release /\ service.agent.env = host.env

\* Where it has not, it still has the old environment, or recovery has noted
\* that it changed a file.
AgentProgress ==
  /\ at = "begin" =>
       (IsActive \/ service.queued \/ service.wanted => given.active)
  /\ journal.active => given.active
  /\ given.active =>
       /\ host.release = "old" /\ host.env \in {"old", "new"}
       /\ IsActive =>
            service.agent.release = "old" /\ service.agent.env # "none"
  /\ at = "begin" => Fits
  /\ journal.active /\ at \in Fitting => Fits
  /\ journal.active /\ at \in {"idle", "query", "revoke"} =>
       \/ Fits
       \/ /\ cp.status # "completed" /\ ~journal.committed
          /\ service.agent.env = "old"
  /\ journal.active /\ at \in {"back_release", "back_env"} =>
       Fits \/ service.agent.env = "old"
  /\ journal.active /\ at \in {"back_actions", "back_units"} =>
       Fits \/ reg.changed

\* The hypotheses of the run that checks RunsInstalled.  Without the second,
\* recovery overlooks a release that the exit handler put back (BackRelease).
OnlyInstallerIsCut == Fragile \subseteq {"install"}
RunningReleaseStays == \A r \in Requests : r.sameRelease \/ ~r.active

Course ==
  /\ Open /\ InstallProgress /\ ControlProgress /\ UndoProgress
  /\ RecoveryProgress /\ CommitRecorded /\ CommitKept

IInv == TypeOK /\ Course
-----------------------------------------------------------------------------
(* Facts about the values that variables take. *)

\* Two hosts with the same four pieces are the same.
LEMMA HostEqual ==
  ASSUME NEW h \in Hosts, NEW k \in Hosts,
         h.release = k.release, h.env = k.env,
         h.policy = k.policy, h.socket = k.socket
  PROVE  h = k
  BY DEF Hosts

\* What a request brings and finds is well formed.
LEMMA GivenFacts ==
  ASSUME TypeOK
  PROVE  /\ OldHost \in Hosts /\ NewHost \in Hosts
         /\ OldHost.env \in {"none", "old"}
         /\ OldHost.release \in {"none", "old"}
         /\ Candidate \in {"old", "new"}
         /\ given.newSocket \in BOOLEAN /\ given.active \in BOOLEAN
         /\ NewHost.release = Candidate /\ NewHost.env = "new"
         /\ NewHost.policy = "new" /\ NewHost.socket = given.newSocket
<1>1. given \in Request
  BY InstallAssumption DEF TypeOK
<1>. QED
  BY <1>1 DEF Request, OldHost, NewHost, Candidate, Hosts, Releases, Files

\* The fields that the steps read, one by one.
LEMMA Fields ==
  ASSUME TypeOK
  PROVE  /\ host.release \in Releases /\ host.env \in Files
         /\ host.policy \in Files /\ host.socket \in BOOLEAN
         /\ journal.prev \in Hosts /\ journal.prev.release \in Releases
         /\ journal.prev.env \in Files /\ journal.prev.policy \in Files
         /\ journal.prev.socket \in BOOLEAN /\ journal.socket \in BOOLEAN
         /\ system.units \in BOOLEAN /\ system.enabled \in BOOLEAN
         /\ service.agent \in Agents
         /\ service.marker \in BOOLEAN /\ service.online \in BOOLEAN
         /\ cp.status \in Statuses /\ cp.active \in {"none", "old", "new"}
         /\ cp.grace \in BOOLEAN
  BY DEF TypeOK, Hosts, Systems, Services, Journals, Enrollments

\* The values that whole variables are set to have their types.
LEMMA Values ==
  ASSUME TypeOK
  PROVE  /\ NoAgent \in Agents /\ Stopped \in Services /\ Queued \in Services
         /\ \A w \in BOOLEAN : [Stopped EXCEPT !.wanted = w] \in Services
         /\ host.env # "example" =>
              /\ Restarted \in Services
              /\ [Restarted EXCEPT !.agent = NoAgent] \in Services
         /\ \A c \in BOOLEAN : [service EXCEPT !.online = @ /\ c] \in Services
         /\ NoReg \in Registers /\ NoJournal \in Journals
         /\ {Exchanged, Verified, Committed, Revoked} \subseteq Enrollments
         /\ [units |-> FALSE, enabled |-> FALSE, staged |-> FALSE] \in Systems
<1>1. NoAgent \in Agents /\ (host.env # "example" => Loaded \in Agents)
  BY Fields DEF NoAgent, Agents, Loaded, Releases, Files
<1>2. /\ Stopped \in Services /\ Queued \in Services
      /\ \A w \in BOOLEAN : [Stopped EXCEPT !.wanted = w] \in Services
      /\ \A c \in BOOLEAN : [service EXCEPT !.online = @ /\ c] \in Services
  BY <1>1 DEF TypeOK, Stopped, Queued, Services
<1>3. host.env # "example" =>
              /\ Restarted \in Services
              /\ [Restarted EXCEPT !.agent = NoAgent] \in Services
  BY <1>1 DEF Restarted, Services
<1>4. NoReg \in Registers
  BY DEF NoReg, Registers, Statuses
<1>5. NoJournal \in Journals
  BY GivenFacts DEF NoJournal, Journals
<1>6. {Exchanged, Verified, Committed, Revoked} \subseteq Enrollments
  BY Fields DEF TypeOK, Exchanged, Verified, Committed, Revoked, Enrollments,
    Statuses
<1>7. [units |-> FALSE, enabled |-> FALSE, staged |-> FALSE] \in Systems
  BY DEF Systems
<1>. QED  BY <1>1, <1>2, <1>3, <1>4, <1>5, <1>6, <1>7

-----------------------------------------------------------------------------
(* The course of a transaction.                                             *)

\* Steps of the agent, of the control plane's clock and of the host.
Around ==
  \/ AgentStarts \/ AgentAuthenticates \/ AgentVerifies \/ AgentDrops
  \/ AgentCrashes \/ Expire \/ GraceEnds \/ Kill \/ PowerLoss \/ Calm

\* A step of the installer leaves what its next ones build on.
LEMMA InstallCourse == IInv /\ Install => Course'
<1> SUFFICES ASSUME IInv, Install PROVE Course'
  OBVIOUS
<1> USE Fields, GivenFacts
        DEF IInv, TypeOK, Course, Open, InstallProgress, ControlProgress,
          UndoProgress, RecoveryProgress, CommitRecorded, CommitKept, Ready,
          Saved, PolicyPut, EnvPut, Switched, Equipped, Staged, Untouched,
          Uncommitted, Restored, EnvBack, ReleaseBack, Cancelling, Redoing,
          Returning, Installing, Exiting, Recovering, OldHost, NewHost,
          HasPrevious, Candidate, Exchanging, luck, program
<1>1. CASE Begin
  BY <1>1 DEF Begin, NoJournal, IsActive, Journals
<1>2. CASE Exchange
  BY <1>2 DEF Exchange, Exchanged, Enrollments
<1>3. CASE SaveControl
  <2>1. /\ journal'.control /\ journal'.link = journal.link
        /\ journal'.prev = journal.prev
        /\ journal'.committed = journal.committed
    BY <1>3 DEF SaveControl, Journals
  <2>2. Exchanging
    BY <1>3 DEF SaveControl
  <2>. QED  BY <1>3, <2>1, <2>2 DEF SaveControl
<1>4. CASE Stage
  BY <1>4 DEF Stage, Hosts, Systems
<1>5. CASE Units
  BY <1>5 DEF Units, Systems
<1>6. CASE Switch
  BY <1>6 DEF Switch, Hosts, Systems
<1>7. CASE PutEnv
  BY <1>7 DEF PutEnv, Hosts
<1>8. CASE PutPolicy
  BY <1>8 DEF PutPolicy, Hosts
<1>9. CASE SaveCandidate
  BY <1>9, ZenonT(30) DEF SaveCandidate, Journals
<1>10. CASE PutSocket
  BY <1>10 DEF PutSocket, Hosts, Journals
<1>11. CASE StartCandidate
  BY <1>11 DEF StartCandidate, Systems
<1>12. CASE AwaitMarker
  BY <1>12 DEF AwaitMarker
<1>13. CASE Verify
  BY <1>13 DEF Verify
<1>14. CASE Commit
  BY <1>14 DEF Commit, Committed, Recount, Hosts
<1>15. CASE RestartCommitted
  BY <1>15 DEF RestartCommitted, Hosts
<1>16. CASE Confirm
  BY <1>16 DEF Confirm, Hosts
<1>17. CASE Settle
  BY <1>17 DEF Settle, Hosts, Journals
<1>18. CASE Cleanup
  BY <1>18 DEF Cleanup, NoJournal
<1>19. CASE Fails
  BY <1>19 DEF Fails
<1>. QED  BY <1>1, <1>2, <1>3, <1>4, <1>5, <1>6, <1>7, <1>8, <1>9, <1>10,
  <1>11, <1>12, <1>13, <1>14, <1>15, <1>16, <1>17, <1>18, <1>19 DEF Install

\* The exit handler puts the pieces back one by one; a first installation is
\* removed only if the control plane has let go of it.
LEMMA ExitCourse == IInv /\ HandleExit => Course'
<1> SUFFICES ASSUME IInv, HandleExit PROVE Course'
  OBVIOUS
<1> USE Fields, GivenFacts
        DEF IInv, TypeOK, Course, Open, InstallProgress, ControlProgress,
          UndoProgress, RecoveryProgress, CommitRecorded, CommitKept, Ready,
          Saved, PolicyPut, EnvPut, Switched, Equipped, Staged, Untouched,
          Uncommitted, Restored, EnvBack, ReleaseBack, Cancelling, Redoing,
          Returning, Installing, Exiting, Recovering, OldHost, NewHost,
          HasPrevious, Candidate, Exchanging, luck, program
<1>1. CASE UndoRelease
  BY <1>1 DEF UndoRelease, Hosts
<1>2. CASE UndoEnv
  BY <1>2 DEF UndoEnv, Hosts
<1>3. CASE UndoActions
  <2>1. host' = OldHost
    <3>1. host' \in Hosts /\ host'.policy = OldHost.policy
            /\ host'.socket = OldHost.socket
      BY <1>3 DEF UndoActions, Hosts
    <3>2. host'.release = OldHost.release /\ host'.env = OldHost.env
      BY <1>3 DEF UndoActions, Hosts
    <3>. QED  BY <3>1, <3>2, HostEqual
  <2>2. OldHost' = OldHost
    BY <1>3 DEF UndoActions
  <2>. QED  BY <1>3, <2>1, <2>2 DEF UndoActions, RestorationFails, Registers
<1>4. CASE UndoAgent
  BY <1>4 DEF UndoAgent, RestorationFails, Systems, Registers
<1>5. CASE SelectPrevious
  BY <1>5 DEF SelectPrevious, Journals, Registers
<1>6. CASE CancelControl
  BY <1>6 DEF CancelControl, Revoked, Recount, Revocable, Registers
<1>7. CASE RemoveInitial
  BY <1>7 DEF RemoveInitial, Undone, Hosts, Systems
<1>8. CASE AwaitRestored
  BY <1>8 DEF AwaitRestored, Registers
<1>9. CASE Conclude
  BY <1>9 DEF Conclude, NoJournal, NoReg
<1>. QED  BY <1>1, <1>2, <1>3, <1>4, <1>5, <1>6, <1>7, <1>8, <1>9 DEF
  HandleExit

\* Recovery goes by what it finds: forward only with a committed credential,
\* back only without.
LEMMA RecoveryCourse == IInv /\ RecoverySteps => Course'
<1> SUFFICES ASSUME IInv, RecoverySteps PROVE Course'
  OBVIOUS
<1> USE Fields, GivenFacts
        DEF IInv, TypeOK, Course, Open, InstallProgress, ControlProgress,
          UndoProgress, RecoveryProgress, CommitRecorded, CommitKept, Ready,
          Saved, PolicyPut, EnvPut, Switched, Equipped, Staged, Untouched,
          Uncommitted, Restored, EnvBack, ReleaseBack, Cancelling, Redoing,
          Returning, Installing, Exiting, Recovering, OldHost, NewHost,
          HasPrevious, Candidate, Exchanging, luck, program
<1>1. CASE Recover
  BY <1>1 DEF Recover, Discard, Quit, NoJournal, NoReg
<1>2. CASE Query
  <2>1. /\ at' = "retain" => cp.status = "completed" /\ ~journal.selected
        /\ at' = "revoke" => cp.status # "completed" \/ journal.selected
        /\ at' = "back_release" => cp.status # "completed"
        /\ at' \in {"retain", "revoke", "back_release", "idle"}
    BY <1>2 DEF Query, Quit
  <2>2. at' = "revoke" => reg'.seen = cp.status
    BY <1>2 DEF Query, Quit, Registers
  <2>. QED  BY <1>2, <2>1, <2>2 DEF Query
<1>3. CASE Retain
  BY <1>3 DEF Retain, Discard, Quit, NoJournal, NoReg
<1>4. CASE Revoke
  BY <1>4 DEF Revoke, Revoked, Recount, Revocable, Quit, NoReg, Registers
<1>5. CASE BackRelease
  BY <1>5 DEF BackRelease, Hosts, Registers
<1>6. CASE BackEnv
  BY <1>6 DEF BackEnv, Hosts, Registers
<1>7. CASE BackActions
  <2>1. host' = OldHost
    <3>1. host' \in Hosts /\ host'.policy = OldHost.policy
            /\ host'.socket = OldHost.socket
      BY <1>7 DEF BackActions, Hosts
    <3>2. host'.release = OldHost.release /\ host'.env = OldHost.env
      BY <1>7 DEF BackActions, Hosts
    <3>. QED  BY <3>1, <3>2, HostEqual
  <2>. QED  BY <1>7, <2>1 DEF BackActions
<1>8. CASE BackUnits
  BY <1>8 DEF BackUnits, Systems
<1>9. CASE Judge
  BY <1>9 DEF Judge, Discard, Quit, NoJournal, NoReg
<1>10. CASE RedoRelease
  BY <1>10 DEF RedoRelease, Quit, NoReg, Hosts
<1>11. CASE RedoEnv
  BY <1>11 DEF RedoEnv, Hosts
<1>12. CASE RedoActions
  BY <1>12 DEF RedoActions, Hosts
<1>13. CASE RedoAgent
  BY <1>13 DEF RedoAgent, Quit, NoReg, Systems
<1>14. CASE Unselect
  BY <1>14 DEF Unselect, Quit, NoReg, Journals
<1>. QED  BY <1>1, <1>2, <1>3, <1>4, <1>5, <1>6, <1>7, <1>8, <1>9, <1>10,
  <1>11, <1>12, <1>13, <1>14 DEF RecoverySteps

\* The agent, an expiring enrollment and a power loss cannot spoil it.
LEMMA AgentCourse == IInv /\ Around => Course'
<1> SUFFICES ASSUME IInv, Around PROVE Course'
  OBVIOUS
<1> USE Fields, GivenFacts
        DEF IInv, TypeOK, Course, Open, InstallProgress, ControlProgress,
          UndoProgress, RecoveryProgress, CommitRecorded, CommitKept, Ready,
          Saved, PolicyPut, EnvPut, Switched, Equipped, Staged, Untouched,
          Uncommitted, Restored, EnvBack, ReleaseBack, Cancelling, Redoing,
          Returning, Installing, Exiting, Recovering, OldHost, NewHost,
          HasPrevious, Candidate, Exchanging, luck, program
<1>1. CASE AgentStarts
  BY <1>1 DEF AgentStarts
<1>2. CASE AgentAuthenticates
  BY <1>2 DEF AgentAuthenticates
<1>3. CASE AgentVerifies
  BY <1>3 DEF AgentVerifies, Verified, Pending
<1>4. CASE AgentDrops
  BY <1>4 DEF AgentDrops
<1>5. CASE AgentCrashes
  BY <1>5 DEF AgentCrashes
<1>6. CASE Expire
  BY <1>6 DEF Expire, Enrollments
<1>7. CASE GraceEnds
  BY <1>7 DEF GraceEnds, Enrollments
<1>8. CASE Kill
  BY <1>8 DEF Kill, CutShort, Quit, NoReg, Running, MayDie
<1>9. CASE PowerLoss
  BY <1>9 DEF PowerLoss, CutShort, Quit, NoReg, Running, MayDie
<1>10. CASE Calm
  BY <1>10 DEF Calm
<1>. QED  BY <1>1, <1>2, <1>3, <1>4, <1>5, <1>6, <1>7, <1>8, <1>9, <1>10 DEF
  Around

-----------------------------------------------------------------------------
(* Types.                                                                   *)

\* The agent never loads the example file: where it is started by the installer
\* or its exit handler, another one is in place.
LEMMA InstallTypeFacts ==
  ASSUME IInv
  PROVE  /\ at \in {"start", "restart"} => host.env # "example"
         /\ at = "undo_agent" => host.env # "example"
  BY GivenFacts DEF IInv, Course, InstallProgress, UndoProgress, Ready, Saved,
     PolicyPut, EnvPut, Restored, OldHost

\* Steps of the installer keep the types.
LEMMA InstallTypes == IInv /\ Install => TypeOK'
<1> SUFFICES ASSUME IInv, Install PROVE TypeOK'
  OBVIOUS
<1> USE Fields, Values, InstallTypeFacts
        DEF IInv, TypeOK, Steps, Installing, Exiting, Recovering, luck, program
<1>1. CASE Begin
  BY <1>1 DEF Begin, IsActive, Journals
<1>2. CASE Exchange
  BY <1>2 DEF Exchange, Enrollments, Statuses
<1>3. CASE SaveControl
  BY <1>3 DEF SaveControl, Journals
<1>4. CASE Stage
  BY <1>4 DEF Stage, Hosts, Releases, Files, Systems
<1>5. CASE Units
  BY <1>5 DEF Units, Systems
<1>6. CASE Switch
  <2>1. host' \in Hosts /\ system' \in Systems
    BY GivenFacts, <1>6 DEF Switch, Hosts, Releases, Systems
  <2>. QED  BY <1>6, <2>1 DEF Switch
<1>7. CASE PutEnv
  BY <1>7 DEF PutEnv, Hosts, Releases, Files
<1>8. CASE PutPolicy
  BY <1>8 DEF PutPolicy, Hosts, Releases, Files
<1>9. CASE SaveCandidate
  BY <1>9 DEF SaveCandidate, Journals
<1>10. CASE PutSocket
  <2>1. host' \in Hosts /\ journal' \in Journals
    BY GivenFacts, <1>10 DEF PutSocket, Hosts, Journals
  <2>. QED  BY <1>10, <2>1 DEF PutSocket
<1>11. CASE StartCandidate
  BY <1>11 DEF StartCandidate, Systems, Services
<1>12. CASE AwaitMarker
  BY <1>12 DEF AwaitMarker
<1>13. CASE Verify
  BY <1>13 DEF Verify
<1>14. CASE Commit
  <2>1. cp' \in Enrollments /\ service' \in Services
    BY <1>14 DEF Commit, Recount
  <2>. QED  BY <1>14, <2>1 DEF Commit
<1>15. CASE RestartCommitted
  BY <1>15 DEF RestartCommitted, Services
<1>16. CASE Confirm
  BY <1>16 DEF Confirm
<1>17. CASE Settle
  BY <1>17 DEF Settle, Journals
<1>18. CASE Cleanup
  BY <1>18 DEF Cleanup, Journals
<1>19. CASE Fails
  BY <1>19 DEF Fails
<1>. QED  BY <1>1, <1>2, <1>3, <1>4, <1>5, <1>6, <1>7, <1>8, <1>9, <1>10,
  <1>11, <1>12, <1>13, <1>14, <1>15, <1>16, <1>17, <1>18, <1>19 DEF Install

\* Steps of its exit handler keep the types.
LEMMA ExitTypes == IInv /\ HandleExit => TypeOK'
<1> SUFFICES ASSUME IInv, HandleExit PROVE TypeOK'
  OBVIOUS
<1> USE Fields, Values, InstallTypeFacts
        DEF IInv, TypeOK, Steps, Installing, Exiting, Recovering, luck, program
<1>1. CASE UndoRelease
  BY <1>1 DEF UndoRelease, Hosts, Releases, Files
<1>2. CASE UndoEnv
  BY <1>2 DEF UndoEnv, Hosts, Releases, Files
<1>3. CASE UndoActions
  BY <1>3 DEF UndoActions, RestorationFails, Hosts, Releases, Files, Registers,
    Statuses
<1>4. CASE UndoAgent
  <2>1. system' \in Systems
    BY <1>4 DEF UndoAgent, Systems, HasPrevious
  <2>2. service' \in Services
    BY <1>4 DEF UndoAgent
  <2>3. reg' \in Registers /\ cut' \in BOOLEAN
    BY <1>4 DEF UndoAgent, RestorationFails, Registers
  <2>. QED  BY <1>4, <2>1, <2>2, <2>3 DEF UndoAgent, RestorationFails
<1>5. CASE SelectPrevious
  BY <1>5 DEF SelectPrevious, Journals, Registers, Statuses
<1>6. CASE CancelControl
  <2>1. cp' \in Enrollments /\ service' \in Services
    BY <1>6 DEF CancelControl, Recount
  <2>2. reg' \in Registers
    BY <1>6 DEF CancelControl, Registers
  <2>. QED  BY <1>6, <2>1, <2>2 DEF CancelControl
<1>7. CASE RemoveInitial
  <2>1. system' \in Systems
    BY <1>7 DEF RemoveInitial
  <2>2. service' \in Services
    BY <1>7 DEF RemoveInitial
  <2>3. host' \in Hosts
    BY <1>7 DEF RemoveInitial, Hosts
  <2>. QED  BY <1>7, <2>1, <2>2, <2>3 DEF RemoveInitial
<1>8. CASE AwaitRestored
  BY <1>8 DEF AwaitRestored, Registers, Statuses
<1>9. CASE Conclude
  BY <1>9 DEF Conclude, Journals, Registers, Statuses
<1>. QED  BY <1>1, <1>2, <1>3, <1>4, <1>5, <1>6, <1>7, <1>8, <1>9 DEF
  HandleExit

\* Steps of recovery keep the types.
LEMMA RecoveryTypes == IInv /\ RecoverySteps => TypeOK'
<1> SUFFICES ASSUME IInv, RecoverySteps PROVE TypeOK'
  OBVIOUS
<1> USE Fields, Values, InstallTypeFacts
        DEF IInv, TypeOK, Steps, Installing, Exiting, Recovering, luck, program
<1>1. CASE Recover
  BY <1>1 DEF Recover, Discard, Quit
<1>2. CASE Query
  BY <1>2 DEF Query, Quit, Registers, Statuses
<1>3. CASE Retain
  BY <1>3 DEF Retain, Discard, Quit
<1>4. CASE Revoke
  <2>1. cp' \in Enrollments /\ service' \in Services
    BY <1>4 DEF Revoke, Recount
  <2>2. reg' \in Registers
    BY <1>4 DEF Revoke, Quit, Registers
  <2>. QED  BY <1>4, <2>1, <2>2 DEF Revoke, Quit
<1>5. CASE BackRelease
  BY <1>5 DEF BackRelease, Hosts, Releases, Files, Registers, Statuses
<1>6. CASE BackEnv
  BY <1>6 DEF BackEnv, Hosts, Releases, Files, Registers, Statuses
<1>7. CASE BackActions
  BY <1>7 DEF BackActions, Hosts, Releases, Files
<1>8. CASE BackUnits
  <2>1. system' \in Systems
    BY <1>8 DEF BackUnits
  <2>2. service' \in Services
    BY <1>8 DEF BackUnits
  <2>. QED  BY <1>8, <2>1, <2>2 DEF BackUnits
<1>9. CASE Judge
  BY <1>9 DEF Judge, Discard, Quit
<1>10. CASE RedoRelease
  <2>1. host' \in Hosts
    BY GivenFacts, <1>10 DEF RedoRelease, Hosts, Releases
  <2>. QED  BY <1>10, <2>1 DEF RedoRelease, Quit
<1>11. CASE RedoEnv
  BY <1>11 DEF RedoEnv, Hosts, Releases, Files
<1>12. CASE RedoActions
  BY <1>12 DEF RedoActions, Hosts, Releases, Files
<1>13. CASE RedoAgent
  <2>1. system' \in Systems
    <3>1. [system EXCEPT !.enabled = TRUE] \in Systems
      BY DEF Systems
    <3>. QED  BY <1>13, <3>1 DEF RedoAgent
  <2>2. service' \in Services /\ reg' \in Registers
    BY <1>13 DEF RedoAgent, Quit
  <2>. QED  BY <1>13, <2>1, <2>2 DEF RedoAgent, Quit
<1>14. CASE Unselect
  BY <1>14 DEF Unselect, Quit, Journals
<1>. QED  BY <1>1, <1>2, <1>3, <1>4, <1>5, <1>6, <1>7, <1>8, <1>9, <1>10,
  <1>11, <1>12, <1>13, <1>14 DEF RecoverySteps

\* Everything else keeps the types.
LEMMA AgentTypes == IInv /\ Around => TypeOK'
<1> SUFFICES ASSUME IInv, Around PROVE TypeOK'
  OBVIOUS
<1> USE Fields, Values, InstallTypeFacts
        DEF IInv, TypeOK, Steps, Installing, Exiting, Recovering, luck, program
<1>1. CASE AgentStarts
  BY <1>1 DEF AgentStarts, Services
<1>2. CASE AgentAuthenticates
  BY <1>2 DEF AgentAuthenticates, Services
<1>3. CASE AgentVerifies
  BY <1>3 DEF AgentVerifies, Pending, Enrollments, Statuses
<1>4. CASE AgentDrops
  <2>1. service' \in Services
    BY <1>4, ZenonT(30) DEF AgentDrops, Services
  <2>. QED  BY <1>4, <2>1 DEF AgentDrops
<1>5. CASE AgentCrashes
  BY <1>5, ZenonT(30) DEF AgentCrashes, Services
<1>6. CASE Expire
  BY <1>6 DEF Expire, Enrollments, Statuses
<1>7. CASE GraceEnds
  BY <1>7 DEF GraceEnds, Enrollments, Statuses
<1>8. CASE Kill
  BY <1>8 DEF Kill, CutShort, Quit, Running, MayDie
<1>9. CASE PowerLoss
  BY <1>9 DEF PowerLoss, CutShort, Quit, Running, MayDie, Services
<1>10. CASE Calm
  BY <1>10 DEF Calm
<1>. QED  BY <1>1, <1>2, <1>3, <1>4, <1>5, <1>6, <1>7, <1>8, <1>9, <1>10 DEF
  Around
-----------------------------------------------------------------------------
(* The invariant and what follows from it.                                  *)

\* Before the installer begins, nothing is promised but the types.
LEMMA InvInit == Init => IInv
<1> SUFFICES ASSUME Init PROVE IInv
  OBVIOUS
<1>1. given \in Request
  BY InstallAssumption DEF Init
<1>2. TypeOK
  <2>1. host \in Hosts /\ OldHost \in Hosts
    BY <1>1 DEF Init, Request, OldHost, Hosts, Releases, Files
  <2>2. system \in Systems
    BY <1>1 DEF Init, Request, Systems, HasPrevious
  <2>3. service \in Services
    BY <1>1 DEF Init, Request, OldHost, HasPrevious, Loaded, Stopped, NoAgent,
      Services, Agents, Releases
  <2>4. journal \in Journals
    BY <2>1 DEF Init, NoJournal, Journals
  <2>5. at \in Steps /\ reg \in Registers
    BY DEF Init, Steps, NoReg, Registers, Statuses
  <2>6. cp \in Enrollments
    BY DEF Init, Enrollments, Statuses
  <2>. QED  BY <2>1, <2>2, <2>3, <2>4, <2>5, <2>6 DEF Init, TypeOK
<1>3. Course
  BY DEF Init, NoJournal, Course, Open, InstallProgress, ControlProgress,
    UndoProgress, RecoveryProgress, CommitRecorded, CommitKept, Ready,
    Saved, PolicyPut, EnvPut, Switched, Equipped, Staged, Untouched,
    Uncommitted, Restored, EnvBack, ReleaseBack, Cancelling, Redoing,
    Returning, Exiting
<1>. QED  BY <1>2, <1>3 DEF IInv

\* Each of the four parties keeps the invariant.
LEMMA InvNext == IInv /\ [Next]_vars => IInv'
<1> SUFFICES ASSUME IInv, [Next]_vars PROVE IInv'
  OBVIOUS
<1>1. CASE Install
  BY <1>1, InstallCourse, InstallTypes DEF IInv
<1>2. CASE HandleExit
  BY <1>2, ExitCourse, ExitTypes DEF IInv
<1>3. CASE RecoverySteps
  BY <1>3, RecoveryCourse, RecoveryTypes DEF IInv
<1>4. CASE Around
  BY <1>4, AgentCourse, AgentTypes DEF IInv
<1>5. CASE UNCHANGED vars
  BY <1>5 DEF vars, program, luck, IInv, TypeOK, Course, Open, InstallProgress,
    ControlProgress, UndoProgress, RecoveryProgress, CommitRecorded,
    CommitKept, OldHost, NewHost, HasPrevious, Candidate, Exchanging
<1>. QED  BY <1>1, <1>2, <1>3, <1>4, <1>5 DEF Next, Around

\* Between any two steps of the installer, its exit handler and recovery, what
\* they have done so far is what their next steps rely on.
THEOREM InvHolds == Spec => []IInv
  BY InvInit, InvNext, PTL DEF Spec

\* Every variable keeps its type; in particular the agent never runs on the
\* example environment that install.sh leaves.
THEOREM TypeCorrect == Spec => []TypeOK
<1>1. IInv => TypeOK
  BY DEF IInv
<1>. QED  BY <1>1, InvHolds, PTL

\* Once the control plane accepts only the new credential, whatever is cut
\* short leaves all that recovery needs to put the candidate in place.
THEOREM CommitIsRestorable == Spec => []CommitRestorable
<1>1. IInv => CommitRestorable
  BY DEF IInv, Course, CommitRecorded, CommitRestorable
<1>. QED  BY <1>1, InvHolds, PTL

\* A transaction is closed by the installer when all is done, by its exit
\* handler or by recovery.
LEMMA WhoCloses ==
  ASSUME IInv, Next, Closes
  PROVE  Cleanup \/ Conclude \/ Recover \/ Retain \/ Judge
<1> USE DEF IInv, TypeOK, Closes
<1>1. CASE Install /\ ~Cleanup
  BY <1>1 DEF Install, Begin, Exchange, SaveControl, Stage, Units, Switch,
    PutEnv, PutPolicy, SaveCandidate, PutSocket, StartCandidate, AwaitMarker,
    Verify, Commit, RestartCommitted, Confirm, Settle, Fails, Journals
<1>2. CASE HandleExit /\ ~Conclude
  BY <1>2 DEF HandleExit, UndoRelease, UndoEnv, UndoActions, UndoAgent,
    SelectPrevious, CancelControl, RemoveInitial, AwaitRestored, Journals
<1>3. CASE Query \/ Revoke \/ BackRelease \/ BackEnv \/ BackActions
             \/ BackUnits \/ RedoRelease \/ RedoEnv \/ RedoActions
             \/ RedoAgent \/ Unselect
  BY <1>3 DEF Query, Revoke, BackRelease, BackEnv, BackActions, BackUnits,
    RedoRelease, RedoEnv, RedoActions, RedoAgent, Unselect, Journals
<1>4. CASE Around
  BY <1>4 DEF Around, AgentStarts, AgentAuthenticates, AgentVerifies,
    AgentDrops, AgentCrashes, Expire, GraceEnds, Kill, PowerLoss, Calm
<1>. QED  BY <1>1, <1>2, <1>3, <1>4 DEF Next, RecoverySteps, Around

\* Whichever of them it is, what it leaves is whole.
LEMMA ClosingDecides ==
  ASSUME IInv, Next, Closes, ~cut
  PROVE  Decided
<1> USE Fields, GivenFacts DEF IInv, TypeOK, Course, Closes, Decided, Open
<1>1. CASE Cleanup
  <2>1. host = NewHost
    BY <1>1, HostEqual DEF Cleanup, InstallProgress, Ready, Saved, PolicyPut,
      EnvPut, Switched
  <2>. QED  BY <1>1, <2>1 DEF Cleanup, ControlProgress
<1>2. CASE Conclude
  BY <1>2 DEF Conclude, UndoProgress, Cancelling, CommitRecorded
<1>3. CASE Recover
  BY <1>3 DEF Recover, Discard, CommitKept
<1>4. CASE Retain
  BY <1>4 DEF Retain, Discard, CommitKept, RecoveryProgress, Exiting
<1>5. CASE Judge
  BY <1>5 DEF Judge, Discard, UndoProgress, RecoveryProgress, Returning,
    Restored
<1>. QED  BY <1>1, <1>2, <1>3, <1>4, <1>5, WhoCloses

\* Unless the exit handler failed or was cut short, every transaction ends with
\* one whole installation, the one whose credential the control plane accepts.
THEOREM TransactionsEndDecided == Spec => EndsDecided
<1>1. IInv /\ [Next]_vars => [Closes /\ ~cut => Decided]_vars
  <2> SUFFICES ASSUME IInv, [Next]_vars PROVE [Closes /\ ~cut => Decided]_vars
    OBVIOUS
  <2>1. CASE Next
    BY <2>1, ClosingDecides
  <2>2. CASE UNCHANGED vars
    BY <2>2
  <2>. QED  BY <2>1, <2>2
<1>. QED  BY <1>1, InvHolds, PTL DEF Spec, EndsDecided
-----------------------------------------------------------------------------
(* What the agent has loaded when a transaction is closed.                  *)

\* A running agent's release is the installed one, before and after.
LEMMA ReleaseStays ==
  ASSUME IInv, AgentProgress, RunningReleaseStays, given.active
  PROVE  HasPrevious /\ Candidate = "old" /\ OldHost.release = "old"
           /\ OldHost.env = "old"
<1>1. given \in Request /\ given.sameRelease
  BY InstallAssumption DEF IInv, TypeOK, RunningReleaseStays
<1>. QED  BY <1>1 DEF Request, HasPrevious, Candidate, OldHost

\* An agent that is met running has loaded what is installed.
LEMMA AgentProgressInit == Init => AgentProgress
<1> SUFFICES ASSUME Init PROVE AgentProgress
  OBVIOUS
<1>1. given \in Request
  BY InstallAssumption DEF Init
<1>. QED  BY <1>1 DEF Init, Request, AgentProgress, Fits, OldHost, HasPrevious,
  Loaded, Stopped, NoAgent, IsActive, NoJournal, Fitting, Cancelling

\* Whoever changes the environment under the agent restarts it before it
\* closes, or leaves to recovery the change to see.
LEMMA AgentProgressNext ==
  ASSUME OnlyInstallerIsCut, RunningReleaseStays, IInv, AgentProgress,
         [Next]_vars
  PROVE  AgentProgress'
<1>1. /\ Restarted.agent.release = host.release
      /\ Restarted.agent.env = host.env /\ ~Restarted.queued
      /\ Stopped.agent = NoAgent /\ ~Stopped.queued
      /\ ~Stopped.wanted
      /\ Queued.queued /\ Queued.agent = service.agent
  BY DEF IInv, TypeOK, Loaded, Restarted, Stopped, Queued, Services
<1>2. "exit" \notin Fragile /\ "recover" \notin Fragile
  BY DEF OnlyInstallerIsCut
<1> USE <1>1, <1>2, Fields, GivenFacts, ReleaseStays
        DEF IInv, TypeOK, AgentProgress, Fits, Fitting, Cancelling, IsActive,
          program, luck, Course, Open
<1>3. CASE Begin
  BY <1>3 DEF Begin, NoJournal, Journals
<1>4. CASE Exchange
  BY <1>4 DEF Exchange
<1>5. CASE SaveControl
  BY <1>5 DEF SaveControl, Journals
<1>6. CASE Stage
  BY <1>6 DEF Stage, Hosts
<1>7. CASE Units
  BY <1>7 DEF Units
<1>8. CASE Switch
  BY <1>8 DEF Switch, Hosts
<1>9. CASE PutEnv
  BY <1>9 DEF PutEnv, Hosts
<1>10. CASE PutPolicy
  BY <1>10 DEF PutPolicy, Hosts
<1>11. CASE SaveCandidate
  BY <1>11 DEF SaveCandidate, Journals
<1>12. CASE PutSocket
  BY <1>12 DEF PutSocket, Hosts, Journals
<1>13. CASE StartCandidate
  BY <1>13 DEF StartCandidate
<1>14. CASE AwaitMarker
  BY <1>14 DEF AwaitMarker
<1>15. CASE Verify
  BY <1>15 DEF Verify
<1>16. CASE Commit
  BY <1>16 DEF Commit, Recount, Services
<1>17. CASE RestartCommitted
  BY <1>17 DEF RestartCommitted
<1>18. CASE Confirm
  BY <1>18 DEF Confirm
<1>19. CASE Settle
  BY <1>19 DEF Settle, Journals
<1>20. CASE Cleanup
  BY <1>20 DEF Cleanup, NoJournal
<1>21. CASE Fails
  BY <1>21 DEF Fails, Installing
<1>22. CASE UndoRelease
  BY <1>22 DEF UndoRelease, Hosts
<1>23. CASE UndoEnv
  BY <1>23 DEF UndoEnv, Hosts
<1>24. CASE UndoActions
  BY <1>24 DEF UndoActions, RestorationFails, Hosts
<1>25. CASE UndoAgent
  BY <1>25 DEF UndoAgent, RestorationFails
<1>26. CASE SelectPrevious
  BY <1>26 DEF SelectPrevious, Journals
<1>27. CASE CancelControl
  BY <1>27 DEF CancelControl, Recount, Services
<1>28. CASE RemoveInitial
  BY <1>28 DEF RemoveInitial, Hosts
<1>29. CASE AwaitRestored
  BY <1>29 DEF AwaitRestored
<1>30. CASE Conclude
  BY <1>30 DEF Conclude, NoJournal
<1>31. CASE Recover
  BY <1>31 DEF Recover, Discard, Quit, NoJournal
<1>32. CASE Query
  BY <1>32 DEF Query, Quit
<1>33. CASE Retain
  BY <1>33 DEF Retain, Discard, Quit, NoJournal
<1>34. CASE Revoke
  BY <1>34 DEF Revoke, Revoked, Recount, Quit, Services, RecoveryProgress
<1>35. CASE BackRelease
  BY <1>35 DEF BackRelease, Hosts
<1>36. CASE BackEnv
  BY <1>36 DEF BackEnv, Hosts, Registers
<1>37. CASE BackActions
  BY <1>37 DEF BackActions, Hosts
<1>38. CASE BackUnits
  BY <1>38 DEF BackUnits
<1>39. CASE Judge
  BY <1>39 DEF Judge, Discard, Quit, NoJournal
<1>40. CASE RedoRelease
  BY <1>40 DEF RedoRelease, RecoveryProgress, CommitRecorded, Redoing, Hosts
<1>41. CASE RedoEnv
  BY <1>41 DEF RedoEnv, Hosts
<1>42. CASE RedoActions
  BY <1>42 DEF RedoActions, Hosts
<1>43. CASE RedoAgent
  BY <1>43 DEF RedoAgent, RecoveryProgress, CommitRecorded, Redoing
<1>44. CASE Unselect
  BY <1>44 DEF Unselect, Quit, Journals
<1>45. CASE AgentStarts
  BY <1>45 DEF AgentStarts
<1>46. CASE AgentAuthenticates \/ AgentDrops \/ AgentCrashes
  BY <1>46, ZenonT(30)
     DEF AgentAuthenticates, AgentDrops, AgentCrashes, Services
<1>47. CASE AgentVerifies \/ Expire \/ GraceEnds
  BY <1>47 DEF AgentVerifies, Pending, Verified, Expire, GraceEnds, Enrollments
<1>48. CASE Kill
  <2>1. at \in Installing \cup {"exchange", "cleanup"}
    BY <1>48 DEF Kill, MayDie, Running, OnlyInstallerIsCut
  <2>2. service.agent.env \in {"none", "old", "new"}
    BY DEF Agents
  <2>3. at \in {"policy", "link", "files", "socket", "start"} =>
          host.env = "new" /\ cp.status # "completed"
    BY DEF InstallProgress, EnvPut, PolicyPut, Saved, Ready, ControlProgress,
      Uncommitted, Staged, Equipped, Switched
  <2>4. journal.active =>
          \/ Fits
          \/ /\ cp.status # "completed" /\ ~journal.committed
             /\ service.agent.env = "old"
    BY <2>1, <2>2, <2>3 DEF Installing, CommitKept
  <2>. QED  BY <1>48, <2>4 DEF Kill, CutShort, Quit
<1>49. CASE PowerLoss
  BY <1>49 DEF PowerLoss, CutShort, Quit, MayDie, Running, Installing, Services
<1>50. CASE Calm
  BY <1>50 DEF Calm
<1>51. CASE UNCHANGED vars
  BY <1>51 DEF vars
<1>. QED  BY <1>3, <1>4, <1>5, <1>6, <1>7, <1>8, <1>9, <1>10, <1>11, <1>12,
  <1>13, <1>14, <1>15, <1>16, <1>17, <1>18, <1>19, <1>20, <1>21, <1>22, <1>23,
  <1>24, <1>25, <1>26, <1>27, <1>28, <1>29, <1>30, <1>31, <1>32, <1>33, <1>34,
  <1>35, <1>36, <1>37, <1>38, <1>39, <1>40, <1>41, <1>42, <1>43, <1>44, <1>45,
  <1>46, <1>47, <1>48, <1>49, <1>50, <1>51 DEF Next, Install, HandleExit,
  RecoverySteps

\* At each step that closes a transaction the agent has loaded the files.
LEMMA ClosingFits ==
  ASSUME IInv, AgentProgress, Next, Closes, journal.active, IsActive
  PROVE  service.queued \/ service.agent = Loaded
<1> SUFFICES Fits
  BY DEF Fits, Loaded, IInv, TypeOK, Services, Agents
<1> USE DEF AgentProgress, Fitting, Cancelling, Closes, IInv, TypeOK
<1>1. CASE Cleanup
  BY <1>1 DEF Cleanup
<1>2. CASE Conclude
  BY <1>2 DEF Conclude
<1>3. CASE Recover
  BY <1>3 DEF Recover
<1>4. CASE Retain \/ Judge
  BY <1>4 DEF Retain, Judge
<1>. QED  BY <1>1, <1>2, <1>3, <1>4, WhoCloses

\* If only the installer may be cut short and a running agent's release stays,
\* no transaction is closed with the agent left on what was installed before.
THEOREM RunsWhatIsInstalled ==
  ASSUME OnlyInstallerIsCut, RunningReleaseStays
  PROVE  Spec => RunsInstalled
<1>1. Init => AgentProgress
  BY AgentProgressInit
<1>2. IInv /\ AgentProgress /\ [Next]_vars => AgentProgress'
  BY AgentProgressNext
<1>3. IInv /\ AgentProgress /\ [Next]_vars =>
        [Closes /\ journal.active /\ IsActive =>
           service.queued \/ service.agent = Loaded]_vars
  BY ClosingFits
<1>. QED  BY <1>1, <1>2, <1>3, InvHolds, PTL DEF Spec, RunsInstalled
=============================================================================
