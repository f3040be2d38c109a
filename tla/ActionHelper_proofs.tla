------------------------- MODULE ActionHelper_proofs -------------------------
(***************************************************************************)
(* Proofs about the action helper, for any number of connections,          *)
(* operations, requests and invocation IDs and any ledger limit.           *)
(***************************************************************************)
EXTENDS ActionHelper, TLAPS

(***************************************************************************)
(* How far the ledger has got with the operation of a request that holds   *)
(* the busy flag, by the await it is suspended at.                         *)
(***************************************************************************)
Progress ==
  \A c \in Holders :
    LET o == Opn(c) IN
    /\ conn[c].phase \in {"before", "put1"} => o \notin Recorded
    /\ conn[c].phase = "synced1" =>
         o \in Recorded /\ ~ledger[o].done /\ commands[o] = 0
    /\ conn[c].phase \in {"restart", "after", "put2"} =>
         o \in Recorded /\ ~ledger[o].done /\ commands[o] = 1
    /\ conn[c].phase = "synced2" =>
         o \in Recorded /\ ledger[o].done /\ commands[o] = 1
           /\ ledger[o].outcome = conn[c].verdict

\* A process that is down holds no connection and no claim.
DownIsEmpty == ~running => ~busy /\ \A c \in Conns : conn[c].phase = "closed"

\* A completed receipt was earned by one command.
DoneIsEarned == \A o \in Ops : ledger[o].done => commands[o] = 1

\* The inductive invariant.
IInv == /\ TypeOK /\ Serialized /\ DownIsEmpty /\ WriteAhead /\ ExecutedOnce
        /\ Progress /\ DoneIsEarned /\ DefiniteOutcome

-----------------------------------------------------------------------------
(* Facts about the helper's operators. *)

\* An open connection carries a whole request record.
LEMMA OpenIsPending ==
  ASSUME TypeOK, NEW c \in Conns, conn[c].phase # "closed"
  PROVE  conn[c] \in Pending /\ Opn(c) \in Ops
BY HelperAssumption DEF TypeOK, Closed, Pending, Opn, Request

\* Advancing an open connection to another phase keeps its type.
LEMMA GoType ==
  ASSUME TypeOK, NEW c \in Conns, conn[c].phase # "closed",
         NEW p \in Phase \ {"closed"}, Go(c, p)
  PROVE  conn' \in [Conns -> {Closed} \cup Pending]
BY OpenIsPending DEF TypeOK, Go, Pending

LEMMA DecideType ==
  ASSUME TypeOK, NEW c \in Conns, conn[c].phase # "closed",
         NEW p \in Phase \ {"closed"}, NEW v \in {"success", "failed", "unknown"},
         Decide(c, p, v)
  PROVE  conn' \in [Conns -> {Closed} \cup Pending]
<1>1. [conn[c] EXCEPT !.phase = p, !.verdict = v] \in Pending
  BY OpenIsPending DEF Pending
<1>. QED  BY <1>1 DEF TypeOK, Decide

\* Closing a connection keeps the type, as does telling its sender.
LEMMA TellType ==
  ASSUME TypeOK, NEW c \in Conns, conn[c].phase # "closed", NEW gone,
         NEW outcome, Tell(gone, c, outcome)
  PROVE  told' \in [Requests -> SUBSET Definite]
BY DEF TypeOK, Tell

LEMMA CloseType ==
  ASSUME TypeOK, NEW c \in Conns, conn' = [conn EXCEPT ![c] = Closed]
  PROVE  conn' \in [Conns -> {Closed} \cup Pending]
BY DEF TypeOK

\* Writing a record keeps the types of the ledger.
LEMMA PutType ==
  ASSUME TypeOK, NEW o \in Ops, NEW rec \in Record, Put(o, rec)
  PROVE  /\ ledger' \in [Ops -> {NoRecord} \cup Record]
         /\ older' \in SUBSET (Ops \X Ops)
BY DEF TypeOK, Put, Recorded

\* Unlinking records keeps the types of the ledger and the history.
LEMMA UnlinkType ==
  ASSUME TypeOK, NEW gone, Unlink(gone)
  PROVE  /\ ledger' \in [Ops -> {NoRecord} \cup Record]
         /\ older' \in SUBSET (Ops \X Ops)
         /\ commands' \in [Ops -> Nat]
BY DEF TypeOK, Unlink

-----------------------------------------------------------------------------
\* Every variable keeps its type in every behaviour of the helper.
LEMMA TypeStep == TypeOK /\ [Next]_vars => TypeOK'
<1> SUFFICES ASSUME TypeOK, [Next]_vars PROVE TypeOK'
  OBVIOUS
<1>1. CASE Start
  BY <1>1, UnlinkType DEF Start, TypeOK, host
<1>2. CASE Crash
  BY <1>2 DEF Crash, TypeOK, host
<1>3. ASSUME NEW c \in Conns, Handle(c) PROVE TypeOK'
  <2>1. conn[c].phase # "closed"
    BY <1>3 DEF Handle, At, Refuse, Allow, Replay, Unreadable, TurnAway, Claim,
       Observe, GiveUp, RecordInProgress, Command, CommandReturns, Inspect,
       RecordCompleted, Finish, Doubt
  <2>2. conn[c] \in Pending /\ Opn(c) \in Ops
    BY <2>1, OpenIsPending
  <2>3. ASSUME NEW out, Reply(c, out)
        PROVE  /\ conn' \in [Conns -> {Closed} \cup Pending]
               /\ told' \in [Requests -> SUBSET Definite]
    BY <2>1, <2>3, TellType, CloseType DEF Reply
  <2>4. CASE Refuse(c) \/ Replay(c) \/ Unreadable(c) \/ TurnAway(c) \/ GiveUp(c)
    BY <2>4, <2>3 DEF Refuse, Replay, Unreadable, TurnAway, GiveUp, TypeOK, host
  <2>5. CASE Allow(c) \/ Claim(c)
    <3>1. Go(c, "ledger") \/ Go(c, "before")
      BY <2>5 DEF Allow, Claim
    <3>2. conn' \in [Conns -> {Closed} \cup Pending]
      BY <3>1, <2>1, GoType DEF Phase, Held
    <3>. QED  BY <2>5, <3>2 DEF Allow, Claim, TypeOK, host
  <2>6. CASE Observe(c)
    <3>1. conn' \in [Conns -> {Closed} \cup Pending]
      BY <2>6, <2>2 DEF Observe, TypeOK, Pending, Unit, Phase, Held
    <3>. QED  BY <2>6, <3>1 DEF Observe, TypeOK, host
  <2>7. CASE RecordInProgress(c)
    <3>1. conn[c].request \in Request
      BY <2>2, HelperAssumption DEF Pending
    <3>2. [done |-> FALSE, outcome |-> "unknown", request |-> conn[c].request]
            \in Record
      BY <3>1 DEF Record, InProgress
    <3>3. conn' \in [Conns -> {Closed} \cup Pending]
      BY <2>7, <2>1, GoType DEF RecordInProgress, Phase, Held
    <3>4. /\ ledger' \in [Ops -> {NoRecord} \cup Record]
          /\ older' \in SUBSET (Ops \X Ops)
      BY <2>7, <2>2, <3>2, PutType DEF RecordInProgress
    <3>. QED  BY <2>7, <3>3, <3>4 DEF RecordInProgress, TypeOK, host
  <2>8. CASE Command(c)
    <3>1. conn' \in [Conns -> {Closed} \cup Pending]
      BY <2>8, <2>1, GoType DEF Command, Phase, Held
    <3>. QED  BY <2>8, <2>2, <3>1 DEF Command, TypeOK
  <2>9. CASE CommandReturns(c)
    <3>1. conn' \in [Conns -> {Closed} \cup Pending]
      BY <2>9, <2>1, DecideType DEF CommandReturns, Phase, Held
    <3>. QED  BY <2>9, <3>1 DEF CommandReturns, TypeOK, host
  <2>10. CASE Inspect(c)
    <3>1. conn' \in [Conns -> {Closed} \cup Pending]
      <4>1. PICK v \in {"success", "failed", "unknown"} : Decide(c, "put2", v)
        BY <2>10, Zenon DEF Inspect
      <4>. QED  BY <4>1, <2>1, DecideType DEF Phase, Held
    <3>. QED  BY <2>10, <3>1 DEF Inspect, TypeOK, host
  <2>11. CASE RecordCompleted(c)
    <3>1. conn[c].request \in Request
      BY <2>2, HelperAssumption DEF Pending
    <3>2. [done |-> TRUE, outcome |-> conn[c].verdict,
           request |-> conn[c].request] \in Record
      BY <2>2, <3>1 DEF Record, Completed, Pending
    <3>3. conn' \in [Conns -> {Closed} \cup Pending]
      BY <2>11, <2>1, GoType DEF RecordCompleted, Phase, Held
    <3>4. /\ ledger' \in [Ops -> {NoRecord} \cup Record]
          /\ older' \in SUBSET (Ops \X Ops)
      BY <2>11, <2>2, <3>2, PutType DEF RecordCompleted
    <3>. QED  BY <2>11, <3>3, <3>4 DEF RecordCompleted, TypeOK, host
  <2>12. CASE Finish(c) \/ Doubt(c)
    <3>1. /\ conn' = [conn EXCEPT ![c] = Closed]
          /\ \E gone : Unlink(gone) /\ \E out : Tell(gone, c, out)
          /\ busy' = FALSE /\ UNCHANGED <<running, host>>
      BY <2>12 DEF Finish, Doubt
    <3>. QED  BY <3>1, <2>1, CloseType, UnlinkType, TellType DEF TypeOK, host
  <2>. QED  BY <1>3, <2>4, <2>5, <2>6, <2>7, <2>8, <2>9, <2>10, <2>11, <2>12
            DEF Handle
<1>4. ASSUME NEW c \in Conns, PeerLeaves(c) PROVE TypeOK'
  <2>1. conn[c] \in Pending
    BY <1>4, OpenIsPending DEF PeerLeaves
  <2>2. conn' \in [Conns -> {Closed} \cup Pending]
    BY <1>4, <2>1 DEF PeerLeaves, TypeOK, Pending
  <2>. QED  BY <1>4, <2>2 DEF PeerLeaves, TypeOK, host
<1>5. ASSUME NEW c \in Conns, NEW r \in Requests, Accept(c, r) PROVE TypeOK'
  <2>1. conn' \in [Conns -> {Closed} \cup Pending]
    BY <1>5, HelperAssumption DEF Accept, TypeOK, Pending, Phase, Held
  <2>. QED  BY <1>5, <2>1 DEF Accept, TypeOK, host
<1>6. CASE JobRuns
  BY <1>6 DEF JobRuns, TypeOK
<1>7. CASE UnitChanges
  BY <1>7 DEF UnitChanges, TypeOK
<1>8. CASE UNCHANGED vars
  BY <1>8 DEF vars, host, TypeOK
<1>. QED  BY <1>1, <1>2, <1>3, <1>4, <1>5, <1>6, <1>7, <1>8 DEF Next

\* Type correctness of the helper for every value of the constants.
THEOREM TypeCorrect == Spec => []TypeOK
<1>1. Init => TypeOK
  BY HelperAssumption DEF Init, TypeOK, Unit
<1>. QED  BY <1>1, TypeStep, PTL DEF Spec

-----------------------------------------------------------------------------
(* The inductive step, by the part of the state an action touches. *)

\* No operation is recorded differently, no command is added and no sender is
\* told a verdict the ledger does not hold: the ledger facts are kept.
LEMMA QuietKeepsLedger ==
  ASSUME IInv, UNCHANGED <<ledger, commands>>,
         \A r \in Requests : told'[r] = told[r]
  PROVE  WriteAhead' /\ ExecutedOnce' /\ DoneIsEarned' /\ DefiniteOutcome'
BY DEF IInv, WriteAhead, ExecutedOnce, DoneIsEarned, DefiniteOutcome, Recorded

\* Retiring records keeps them too, if what was told of them is forgotten.
LEMMA UnlinkKeepsLedger ==
  ASSUME IInv, NEW gone, Unlink(gone),
         \A r \in Requests :
            \/ r.op \in gone /\ told'[r] = {}
            \/ r.op \notin gone /\ told'[r] = told[r]
            \/ /\ r.op \notin gone /\ ledger[r.op].done
               /\ told'[r] \subseteq told[r] \cup {ledger[r.op].outcome}
  PROVE  WriteAhead' /\ ExecutedOnce' /\ DoneIsEarned' /\ DefiniteOutcome'
<1> USE DEF IInv, Unlink
<1>1. \A o \in Ops : /\ o \in gone => ledger'[o] = NoRecord /\ commands'[o] = 0
                     /\ o \notin gone => /\ ledger'[o] = ledger[o]
                                        /\ commands'[o] = commands[o]
  OBVIOUS
<1>2. WriteAhead' /\ ExecutedOnce' /\ DoneIsEarned'
  BY <1>1 DEF WriteAhead, ExecutedOnce, DoneIsEarned, Recorded, NoRecord
<1>3. DefiniteOutcome'
  <2> SUFFICES ASSUME NEW r \in Requests, NEW v \in told'[r]
               PROVE  /\ ledger'[r.op].done /\ ledger'[r.op].outcome = v
                      /\ commands'[r.op] = 1
    BY DEF DefiniteOutcome
  <2>1. r.op \in Ops
    BY HelperAssumption DEF Request
  <2>2. r.op \notin gone
    OBVIOUS
  <2>3. ledger[r.op].done /\ ledger[r.op].outcome = v
    BY <2>2 DEF DefiniteOutcome
  <2>. QED  BY <1>1, <2>1, <2>2, <2>3 DEF DoneIsEarned
<1>. QED  BY <1>2, <1>3

\* While c holds the busy flag no other connection does, before or after a
\* step that only touches c.
LEMMA OnlyHolder ==
  ASSUME Serialized, TypeOK, NEW c \in Holders, NEW r,
         conn' = [conn EXCEPT ![c] = r]
  PROVE  Holders' = IF r.phase \in Held THEN {c} ELSE {}
BY DEF Serialized, Holders, TypeOK

\* A step of a connection that holds nothing leaves the holders alone.
LEMMA SameHolders ==
  ASSUME TypeOK, NEW c \in Conns, conn[c].phase \notin Held, NEW r,
         conn' = [conn EXCEPT ![c] = r], r.phase \notin Held
  PROVE  /\ Holders' = Holders
         /\ \A d \in Holders : conn'[d] = conn[d]
BY DEF Holders, TypeOK

LEMMA SafetyStep == IInv /\ [Next]_vars => IInv'
<1> SUFFICES ASSUME IInv, [Next]_vars PROVE IInv'
  OBVIOUS
<1>t. TypeOK /\ TypeOK'
  BY TypeStep DEF IInv
<1>1. CASE Start
  <2>1. Holders = {} /\ ~busy
    BY <1>1 DEF Start, IInv, DownIsEmpty, Holders, Held
  <2>2. Serialized' /\ DownIsEmpty' /\ Progress'
    BY <1>1, <2>1 DEF Start, Serialized, DownIsEmpty, Progress, Holders
  <2>3. WriteAhead' /\ ExecutedOnce' /\ DoneIsEarned' /\ DefiniteOutcome'
    <3>1. PICK gone : /\ Unlink(gone)
                      /\ told' = [r \in Requests |-> IF r.op \in gone THEN {}
                                                     ELSE told[r]]
      BY <1>1 DEF Start
    <3>. QED  BY <3>1, UnlinkKeepsLedger
  <2>. QED  BY <1>t, <2>2, <2>3 DEF IInv
<1>2. CASE Crash
  <2>1. \A c \in Conns : conn'[c] = Closed
    BY <1>2 DEF Crash
  <2>2. Serialized' /\ DownIsEmpty' /\ Progress'
    BY <1>2, <2>1 DEF Crash, Serialized, DownIsEmpty, Progress, Holders, Held,
       Closed
  <2>. QED  BY <1>2, <1>t, <2>2, QuietKeepsLedger DEF Crash, IInv
<1>3. ASSUME NEW c \in Conns, Handle(c) PROVE IInv'
  <2>1. /\ running /\ running' /\ conn[c].phase # "closed"
        /\ conn[c] \in Pending /\ Opn(c) \in Ops
        /\ Opn(c) = conn[c].request.op /\ conn[c].request \in Requests
    <3>1. running /\ running' /\ conn[c].phase # "closed"
      BY <1>3 DEF Handle, At, Refuse, Allow, Replay, Unreadable, TurnAway,
         Claim, Observe, GiveUp, RecordInProgress, Command, CommandReturns,
         Inspect, RecordCompleted, Finish, Doubt
    <3>. QED  BY <3>1, <1>t, OpenIsPending DEF Opn, Pending
  <2>d. DownIsEmpty'
    BY <2>1 DEF DownIsEmpty
  <2>2. CASE Refuse(c) \/ Replay(c) \/ Unreadable(c) \/ TurnAway(c)
    <3>1. /\ conn' = [conn EXCEPT ![c] = Closed] /\ conn[c].phase \notin Held
          /\ UNCHANGED <<busy, ledger, commands>>
      BY <2>2 DEF Refuse, Replay, Unreadable, TurnAway, Reply, At, Held
    <3>2. Holders' = Holders /\ \A d \in Holders : conn'[d] = conn[d]
      BY <3>1, <1>t, SameHolders DEF Closed, Held
    <3>3. Serialized' /\ Progress'
      BY <3>1, <3>2 DEF Serialized, Progress, IInv, Opn, Recorded
    <3>4. PICK out : Tell({}, c, out) /\
            (out \in Definite => ledger[Opn(c)].outcome = out
                                   /\ Opn(c) \in Recorded)
      BY <2>2 DEF Refuse, Replay, Unreadable, TurnAway, Reply, Definite
    <3>5. ASSUME NEW r \in Requests, NEW v \in told'[r]
          PROVE  /\ ledger[r.op].done /\ ledger[r.op].outcome = v
                 /\ commands[r.op] = 1
      <4>1. CASE v \in told[r]
        BY <4>1 DEF IInv, DefiniteOutcome
      <4>2. CASE v \notin told[r]
        <5>1. r = conn[c].request /\ v = out /\ v \in Definite
          BY <3>4, <3>5, <4>2 DEF Tell
        <5>2. ledger[r.op].outcome = v /\ r.op \in Recorded
          BY <5>1, <3>4, <2>1
        <5>3. ledger[r.op].done
          BY <5>1, <5>2, <2>1, <1>t DEF Recorded, TypeOK, Record, InProgress,
             Completed, Definite
        <5>. QED  BY <5>2, <5>3 DEF IInv, DoneIsEarned, Recorded
      <4>. QED  BY <4>1, <4>2
    <3>6. DefiniteOutcome'
      BY <3>1, <3>5 DEF DefiniteOutcome
    <3>. QED  BY <1>t, <2>d, <3>1, <3>3, <3>6
              DEF IInv, WriteAhead, ExecutedOnce, DoneIsEarned, Recorded
  <2>3. CASE Allow(c)
    <3>1. /\ conn' = [conn EXCEPT ![c] = [conn[c] EXCEPT !.phase = "ledger"]]
          /\ conn[c].phase \notin Held
          /\ [conn[c] EXCEPT !.phase = "ledger"].phase \notin Held
      BY <2>3, <2>1 DEF Allow, Go, At, Held, Pending
    <3>2. Holders' = Holders /\ \A d \in Holders : conn'[d] = conn[d]
      BY <3>1, <1>t, SameHolders
    <3>3. Serialized' /\ Progress'
      BY <2>3, <3>2 DEF Allow, Serialized, Progress, IInv, Opn, Recorded
    <3>. QED  BY <1>t, <2>3, <2>d, <3>3, QuietKeepsLedger DEF Allow, IInv
  <2>4. CASE Claim(c)
    <3>1. /\ conn' = [conn EXCEPT ![c] = [conn[c] EXCEPT !.phase = "before"]]
          /\ Holders = {} /\ busy' /\ UNCHANGED <<ledger, commands, told>>
          /\ Opn(c) \notin Recorded
      BY <2>4, <2>1 DEF Claim, Go, IInv, Serialized, Pending
    <3>2. /\ Holders' = {c} /\ conn'[c].phase = "before" /\ Opn(c)' = Opn(c)
      BY <3>1, <2>1, <1>t DEF Holders, TypeOK, Pending, Held, Opn
    <3>3. Serialized' /\ Progress'
      BY <3>1, <3>2 DEF Serialized, Progress, Recorded
    <3>. QED  BY <1>t, <3>1, <2>d, <3>3, QuietKeepsLedger DEF IInv
  <2>h. ASSUME conn[c].phase \in Held, NEW r \in Pending,
               conn' = [conn EXCEPT ![c] = r], r.phase \in Held,
               r.request = conn[c].request, busy'
        PROVE  /\ Serialized' /\ Holders' = {c} /\ Holders = {c}
               /\ conn'[c] = r /\ Opn(c)' = Opn(c)
    <3>1. c \in Holders /\ Holders = {c}
      BY <2>h DEF Holders, Serialized, IInv
    <3>2. Holders' = {c} /\ conn'[c] = r
      BY <2>h, <3>1, <1>t, OnlyHolder DEF TypeOK, IInv
    <3>. QED  BY <2>h, <3>1, <3>2 DEF Serialized, Opn
  <2>b. ASSUME conn[c].phase \in Held PROVE busy /\ Holders = {c}
    BY <2>b DEF Holders, Serialized, IInv
  <2>5. CASE Observe(c)
    <3> DEFINE r == [conn[c] EXCEPT !.phase = "put1", !.before = unit.inv]
    <3>1. /\ conn' = [conn EXCEPT ![c] = r] /\ conn[c].phase = "before"
          /\ r \in Pending /\ r.phase = "put1" /\ r.request = conn[c].request
          /\ UNCHANGED <<busy, ledger, commands, told>>
      BY <2>5, <2>1, <1>t DEF Observe, At, Pending, Phase, Held, TypeOK, Unit
    <3>2. Serialized' /\ Holders' = {c} /\ conn'[c] = r /\ Opn(c)' = Opn(c)
      BY <3>1, <2>h, <2>b DEF Held
    <3>3. Opn(c) \notin Recorded
      BY <3>1, <2>b DEF IInv, Progress, Held
    <3>4. Progress'
      BY <3>1, <3>2, <3>3 DEF Progress, Recorded
    <3>. QED  BY <1>t, <3>1, <2>d, <3>2, <3>4, QuietKeepsLedger DEF IInv
  <2>6. CASE CommandReturns(c) \/ Inspect(c)
    <3>1. PICK p \in {"after", "put2"},
               v \in {"success", "failed", "unknown"} : Decide(c, p, v)
      BY <2>6, Zenon DEF CommandReturns, Inspect
    <3> DEFINE r == [conn[c] EXCEPT !.phase = p, !.verdict = v]
    <3>2. /\ conn' = [conn EXCEPT ![c] = r]
          /\ r \in Pending /\ r.phase = p /\ r.request = conn[c].request
      BY <3>1, <2>1 DEF Decide, Pending, Phase, Held
    <3>3. /\ conn[c].phase \in {"restart", "after"}
          /\ UNCHANGED <<busy, ledger, commands, told>>
      BY <2>6 DEF CommandReturns, Inspect, At
    <3>4. Serialized' /\ Holders' = {c} /\ conn'[c] = r /\ Opn(c)' = Opn(c)
      BY <3>2, <3>3, <2>h, <2>b DEF Held
    <3>5. /\ Opn(c) \in Recorded /\ ~ledger[Opn(c)].done
          /\ commands[Opn(c)] = 1
      BY <3>3, <2>b DEF IInv, Progress, Held
    <3>6. Progress'
      BY <3>2, <3>3, <3>4, <3>5 DEF Progress, Recorded
    <3>. QED  BY <1>t, <3>3, <2>d, <3>4, <3>6, QuietKeepsLedger DEF IInv
  <2>c. ASSUME conn[c].phase \in Held, conn' = [conn EXCEPT ![c] = Closed], ~busy'
        PROVE  Serialized' /\ Progress'
    <3>1. Holders' = {}
      <4>1. c \in Holders /\ Closed.phase \notin Held /\ Serialized
        BY <2>b, <2>c DEF Closed, Held, IInv
      <4>. QED  BY <2>c, <4>1, <1>t, OnlyHolder
    <3>. QED  BY <2>c, <3>1 DEF Serialized, Progress
  <2>7. CASE GiveUp(c)
    <3>1. /\ conn' = [conn EXCEPT ![c] = Closed] /\ ~busy'
          /\ Tell({}, c, "not_started") /\ UNCHANGED <<ledger, commands>>
          /\ conn[c].phase \in Held
      BY <2>7 DEF GiveUp, Reply, At, Held
    <3>2. \A q \in Requests : told'[q] = told[q]
      BY <3>1, <1>t DEF Tell, Definite, TypeOK
    <3>. QED  BY <1>t, <2>c, <2>d, <3>1, <3>2, QuietKeepsLedger DEF IInv
  <2>. HIDE DEF Opn
  <2>8. CASE RecordInProgress(c) \/ RecordCompleted(c)
    <3>1. PICK p \in {"synced1", "synced2"}, rec \in Record :
            /\ Go(c, p) /\ Put(Opn(c), rec)
            /\ p = "synced1" => conn[c].phase = "put1" /\ ~rec.done
            /\ p = "synced2" => /\ conn[c].phase = "put2" /\ rec.done
                               /\ rec.outcome = conn[c].verdict
      <4>1. conn[c].request \in Request
        BY <2>1, HelperAssumption
      <4>2. CASE RecordInProgress(c)
        <5> DEFINE rec == [done |-> FALSE, outcome |-> "unknown",
                           request |-> conn[c].request]
        <5>1. rec \in Record /\ ~rec.done
          BY <4>1 DEF Record, InProgress
        <5>2. Go(c, "synced1") /\ Put(Opn(c), rec) /\ conn[c].phase = "put1"
          BY <4>2 DEF RecordInProgress, At
        <5>. QED  BY <5>1, <5>2
      <4>3. CASE RecordCompleted(c)
        <5> DEFINE rec == [done |-> TRUE, outcome |-> conn[c].verdict,
                           request |-> conn[c].request]
        <5>1. rec \in Record /\ rec.done /\ rec.outcome = conn[c].verdict
          BY <4>1, <2>1 DEF Record, Completed, Pending
        <5>2. Go(c, "synced2") /\ Put(Opn(c), rec) /\ conn[c].phase = "put2"
          BY <4>3 DEF RecordCompleted, At
        <5>. QED  BY <5>1, <5>2
      <4>. QED  BY <2>8, <4>2, <4>3
    <3> DEFINE r == [conn[c] EXCEPT !.phase = p]
    <3>2. /\ conn' = [conn EXCEPT ![c] = r] /\ r \in Pending
          /\ r.phase = p /\ r.request = conn[c].request
          /\ r.verdict = conn[c].verdict /\ conn[c].phase \in Held
          /\ UNCHANGED <<busy, commands, told>>
      BY <3>1, <2>1, <2>8
         DEF Go, Pending, Phase, Held, RecordInProgress, RecordCompleted
    <3>3. Serialized' /\ Holders' = {c} /\ conn'[c] = r /\ Opn(c)' = Opn(c)
      BY <3>2, <3>1, <2>h, <2>b DEF Held
    <3>4. /\ ledger'[Opn(c)] = rec
          /\ \A o \in Ops \ {Opn(c)} : ledger'[o] = ledger[o]
          /\ rec # NoRecord
      <4>1. rec.outcome # NoRecord.outcome
        BY DEF NoRecord, Record, InProgress, Completed
      <4>. QED  BY <4>1, <3>1, <2>1, <1>t DEF Put, TypeOK
    <3>5. /\ ~ledger[Opn(c)].done
          /\ commands[Opn(c)] = IF p = "synced1" THEN 0 ELSE 1
      <4>1. CASE p = "synced1"
        <5>1. Opn(c) \notin Recorded
          BY <4>1, <3>1, <2>b DEF IInv, Progress, Held
        <5>2. commands[Opn(c)] = 0
          BY <5>1, <2>1 DEF IInv, WriteAhead
        <5>. QED  BY <4>1, <5>1, <5>2, <2>1 DEF Recorded, NoRecord
      <4>2. CASE p = "synced2"
        BY <4>2, <3>1, <2>b DEF IInv, Progress, Held
      <4>. QED  BY <4>1, <4>2
    <3>6. Progress'
      BY <3>1, <3>2, <3>3, <3>4, <3>5, <2>1, ZenonT(30)
         DEF Progress, Recorded
    <3>7. WriteAhead' /\ ExecutedOnce' /\ DoneIsEarned'
      BY <3>1, <3>2, <3>4, <3>5, <2>1
         DEF IInv, WriteAhead, ExecutedOnce, DoneIsEarned, Recorded
    <3>8. DefiniteOutcome'
      <4> SUFFICES ASSUME NEW q \in Requests, NEW v \in told'[q]
                   PROVE  /\ ledger'[q.op].done /\ ledger'[q.op].outcome = v
                          /\ commands'[q.op] = 1
        BY DEF DefiniteOutcome
      <4>1. /\ ledger[q.op].done /\ ledger[q.op].outcome = v
            /\ commands[q.op] = 1 /\ q.op \in Ops
        BY <3>2, HelperAssumption DEF IInv, DefiniteOutcome, Request
      <4>. QED  BY <4>1, <3>2, <3>4, <3>5
    <3>. QED  BY <1>t, <2>d, <3>3, <3>6, <3>7, <3>8 DEF IInv
  <2>9. CASE Command(c)
    <3> DEFINE r == [conn[c] EXCEPT !.phase = "restart"]
    <3>1. /\ conn' = [conn EXCEPT ![c] = r] /\ r \in Pending
          /\ r.phase = "restart" /\ r.request = conn[c].request
          /\ conn[c].phase = "synced1" /\ UNCHANGED <<busy, ledger, told>>
          /\ commands' = [commands EXCEPT ![Opn(c)] = commands[Opn(c)] + 1]
      BY <2>9, <2>1 DEF Command, Go, At, Pending, Phase, Held
    <3>2. Serialized' /\ Holders' = {c} /\ conn'[c] = r /\ Opn(c)' = Opn(c)
      BY <3>1, <2>h, <2>b DEF Held
    <3>3. /\ Opn(c) \in Recorded /\ ~ledger[Opn(c)].done
          /\ commands[Opn(c)] = 0
      BY <3>1, <2>b DEF IInv, Progress, Held
    <3>4. /\ commands'[Opn(c)] = 1
          /\ \A o \in Ops \ {Opn(c)} : commands'[o] = commands[o]
      BY <3>1, <3>3, <2>1, <1>t DEF TypeOK
    <3>5. Progress'
      BY <3>1, <3>2, <3>3, <3>4 DEF Progress, Recorded
    <3>6. WriteAhead' /\ ExecutedOnce' /\ DoneIsEarned'
      BY <3>1, <3>3, <3>4, <2>1
         DEF IInv, WriteAhead, ExecutedOnce, DoneIsEarned, Recorded
    <3>7. DefiniteOutcome'
      BY <3>1, <3>3, <3>4, HelperAssumption DEF IInv, DefiniteOutcome, Request
    <3>. QED  BY <1>t, <2>d, <3>2, <3>5, <3>6, <3>7 DEF IInv
  <2>10. CASE Finish(c) \/ Doubt(c)
    <3>1. PICK gone, out :
            /\ Unlink(gone) /\ Opn(c) \notin gone /\ Tell(gone, c, out)
            /\ out # "unknown" =>
                 out = conn[c].verdict /\ conn[c].phase = "synced2"
      BY <2>10 DEF Finish, Doubt, At
    <3>2. /\ conn' = [conn EXCEPT ![c] = Closed] /\ ~busy'
          /\ conn[c].phase \in Held
      BY <2>10 DEF Finish, Doubt, At, Held
    <3>3. ASSUME NEW q \in Requests
          PROVE  \/ q.op \in gone /\ told'[q] = {}
                 \/ q.op \notin gone /\ told'[q] = told[q]
                 \/ /\ q.op \notin gone /\ ledger[q.op].done
                    /\ told'[q] \subseteq told[q] \cup {ledger[q.op].outcome}
      <4>1. CASE out = "unknown"
        BY <4>1, <3>1, <1>t DEF Tell, Definite, TypeOK
      <4>2. CASE out # "unknown"
        <5>1. ledger[Opn(c)].done /\ ledger[Opn(c)].outcome = out
          BY <4>2, <3>1, <3>2, <2>b DEF IInv, Progress, Held
        <5>. QED  BY <5>1, <3>1, <2>1, <1>t DEF Tell, TypeOK
      <4>. QED  BY <4>1, <4>2
    <3>4. WriteAhead' /\ ExecutedOnce' /\ DoneIsEarned' /\ DefiniteOutcome'
      BY <3>1, <3>3, UnlinkKeepsLedger
    <3>. QED  BY <1>t, <2>c, <2>d, <3>2, <3>4 DEF IInv
  <2>. QED  BY <1>3, <2>2, <2>3, <2>4, <2>5, <2>6, <2>7, <2>8, <2>9, <2>10
            DEF Handle
<1>4. ASSUME NEW c \in Conns, PeerLeaves(c) PROVE IInv'
  <2>1. /\ conn' = [conn EXCEPT ![c].peer = FALSE] /\ conn[c] \in Pending
        /\ running /\ UNCHANGED <<running, busy, ledger, commands, told>>
    BY <1>4, <1>t, OpenIsPending DEF PeerLeaves
  <2>2. \A d \in Conns : /\ conn'[d].phase = conn[d].phase
                         /\ d \in Holders => /\ conn'[d].request = conn[d].request
                                             /\ conn'[d].verdict = conn[d].verdict
    BY <2>1, <1>t DEF TypeOK, Pending, Holders, Held, Closed
  <2>3. Holders' = Holders
    BY <2>2 DEF Holders
  <2>4. Serialized' /\ Progress' /\ DownIsEmpty'
    BY <2>1, <2>2, <2>3
       DEF IInv, Serialized, Progress, DownIsEmpty, Opn, Recorded, Holders
  <2>. QED  BY <1>t, <2>1, <2>4, QuietKeepsLedger DEF IInv
<1>5. ASSUME NEW c \in Conns, NEW r \in Requests, Accept(c, r) PROVE IInv'
  <2>0. PICK here \in BOOLEAN : conn' = [conn EXCEPT ![c] =
          [phase |-> "policy", request |-> r, peer |-> here,
           before |-> 0, verdict |-> "unknown"]]
    BY <1>5 DEF Accept
  <2> DEFINE new == [phase |-> "policy", request |-> r, peer |-> here,
                     before |-> 0, verdict |-> "unknown"]
  <2>1. /\ conn' = [conn EXCEPT ![c] = new] /\ conn[c].phase \notin Held
        /\ running /\ UNCHANGED <<running, busy, ledger, commands, told>>
    BY <1>5, <2>0 DEF Accept, Held
  <2>2. Holders' = Holders /\ \A d \in Holders : conn'[d] = conn[d]
    BY <2>1, <1>t, SameHolders DEF Held
  <2>3. Serialized' /\ Progress' /\ DownIsEmpty'
    BY <2>1, <2>2 DEF IInv, Serialized, Progress, DownIsEmpty, Opn, Recorded
  <2>. QED  BY <1>t, <2>1, <2>3, QuietKeepsLedger DEF IInv
<1>6. CASE JobRuns \/ UnitChanges \/ UNCHANGED vars
  <2>1. UNCHANGED <<running, conn, busy, ledger, commands, told>>
    BY <1>6 DEF JobRuns, UnitChanges, vars
  <2>2. Serialized' /\ Progress' /\ DownIsEmpty'
    BY <2>1 DEF IInv, Serialized, Progress, DownIsEmpty, Holders, Opn, Recorded
  <2>. QED  BY <1>t, <2>1, <2>2, QuietKeepsLedger DEF IInv
<1>. QED  BY <1>1, <1>2, <1>3, <1>4, <1>5, <1>6 DEF Next

LEMMA Inductive == Spec => []IInv
<1>1. Init => IInv
  <2> SUFFICES ASSUME Init PROVE IInv
    OBVIOUS
  <2>1. TypeOK
    BY HelperAssumption DEF Init, TypeOK, Unit
  <2>2. \A c \in Conns : conn[c].phase = "closed"
    BY DEF Init, Closed
  <2>3. Serialized /\ DownIsEmpty /\ Progress
    BY <2>2 DEF Init, Serialized, DownIsEmpty, Progress, Holders, Held
  <2>4. WriteAhead /\ ExecutedOnce /\ DoneIsEarned /\ DefiniteOutcome
    BY DEF Init, WriteAhead, ExecutedOnce, DoneIsEarned, DefiniteOutcome, NoRecord
  <2>. QED  BY <2>1, <2>3, <2>4 DEF IInv
<1>. QED  BY <1>1, SafetyStep, PTL DEF Spec

\* At most one restart is commanded per recorded operation, whatever crashes,
\* failures, retries and concurrent duplicates occur.
THEOREM AtMostOneRestart == Spec => []ExecutedOnce
BY Inductive, PTL DEF IInv

\* Every commanded restart is recorded before it is commanded.
THEOREM RecordedBeforeCommanded == Spec => []WriteAhead
BY Inductive, PTL DEF IInv

\* The busy flag is held by exactly one request while it is set.
THEOREM RestartsSerialized == Spec => []Serialized
BY Inductive, PTL DEF IInv

\* Nobody is told a definite outcome other than the completed receipt's.
THEOREM OutcomesAreEarned == Spec => []DefiniteOutcome
BY Inductive, PTL DEF IInv

-----------------------------------------------------------------------------
(* Receipts are final, and the helper implements RestartPromise. *)

\* What a step can do to the ledger and to what senders were told: nothing,
\* an answer to a replayed or finished request, one more stage for one
\* operation, or the retirement of records.
Retired(gone) ==
  /\ Unlink(gone)
  /\ \A r \in Requests :
       IF r.op \in gone THEN told'[r] = {}
       ELSE told'[r] = told[r] \/
              /\ ledger[r.op].done /\ ledger[r.op].outcome \in Definite
              /\ told'[r] = told[r] \cup {ledger[r.op].outcome}

Quiet == UNCHANGED <<ledger, commands, told>>

Replied(o) ==
  /\ UNCHANGED <<ledger, commands>>
  /\ o \in Ops /\ ledger[o].done /\ ledger[o].outcome \in Definite
  /\ \E q \in Requests :
       /\ q.op = o
       /\ told' = [told EXCEPT ![q] = told[q] \cup {ledger[o].outcome}]

Recording(o) ==
  /\ o \notin Recorded /\ UNCHANGED <<commands, told>>
  /\ \E rec \in InProgress : ledger' = [ledger EXCEPT ![o] = rec]

Commanding(o) ==
  /\ o \in Recorded /\ ~ledger[o].done /\ commands[o] = 0
  /\ commands' = [commands EXCEPT ![o] = 1] /\ UNCHANGED <<ledger, told>>

Completing(o) ==
  /\ o \in Recorded /\ ~ledger[o].done /\ commands[o] = 1
  /\ UNCHANGED <<commands, told>>
  /\ \E rec \in Completed : ledger' = [ledger EXCEPT ![o] = rec]

LEMMA StepEffect ==
  ASSUME IInv, [Next]_vars
  PROVE  \/ Quiet
         \/ \E o \in Ops : \/ Replied(o) \/ Recording(o)
                           \/ Commanding(o) \/ Completing(o)
         \/ \E gone \in SUBSET Ops : Retired(gone)
<1> DEFINE Goal == \/ Quiet
                   \/ \E o \in Ops : \/ Replied(o) \/ Recording(o)
                                     \/ Commanding(o) \/ Completing(o)
                   \/ \E gone \in SUBSET Ops : Retired(gone)
<1>t. TypeOK
  BY DEF IInv
<1>1. CASE Start
  <2>1. PICK gone \in SUBSET Recorded :
          /\ Unlink(gone)
          /\ told' = [r \in Requests |-> IF r.op \in gone THEN {} ELSE told[r]]
    BY <1>1 DEF Start
  <2>. QED  BY <2>1 DEF Retired, Recorded
<1>2. CASE Crash
  BY <1>2 DEF Crash, Quiet
<1>3. ASSUME NEW c \in Conns, Handle(c) PROVE Goal
  <2>1. /\ conn[c] \in Pending /\ Opn(c) \in Ops
        /\ Opn(c) = conn[c].request.op /\ conn[c].request \in Requests
        /\ conn[c].request \in Request
    <3>1. conn[c].phase # "closed"
      BY <1>3 DEF Handle, At, Refuse, Allow, Replay, Unreadable, TurnAway,
         Claim, Observe, GiveUp, RecordInProgress, Command, CommandReturns,
         Inspect, RecordCompleted, Finish, Doubt
    <3>. QED  BY <3>1, <1>t, OpenIsPending, HelperAssumption DEF Opn, Pending
  <2>2. ASSUME conn[c].phase \in Held PROVE c \in Holders
    BY <2>2 DEF Holders
  <2> HIDE DEF Opn
  <2>3. CASE Refuse(c) \/ Unreadable(c) \/ TurnAway(c) \/ GiveUp(c)
    <3>1. Tell({}, c, "not_started") /\ UNCHANGED <<ledger, commands>>
      BY <2>3 DEF Refuse, Unreadable, TurnAway, GiveUp, Reply
    <3>2. told' = told
      BY <3>1, <1>t DEF Tell, Definite, TypeOK
    <3>. QED  BY <3>1, <3>2 DEF Quiet
  <2>4. CASE Replay(c)
    <3>1. PICK out : /\ Tell({}, c, out) /\ UNCHANGED <<ledger, commands>>
                     /\ out \in Definite => /\ out = ledger[Opn(c)].outcome
                                           /\ Opn(c) \in Recorded
      BY <2>4 DEF Replay, Reply, Definite
    <3>2. CASE out \in Definite /\ conn[c].peer
      <4>1. ledger[Opn(c)].done
        BY <3>1, <3>2, <2>1, <1>t
           DEF TypeOK, Recorded, Record, InProgress, Completed, Definite
      <4>2. told' = [told EXCEPT ![conn[c].request] =
                       told[conn[c].request] \cup {out}]
        BY <3>1, <3>2, <2>1, <1>t DEF Tell, TypeOK
      <4>. QED  BY <3>1, <3>2, <4>1, <4>2, <2>1 DEF Replied
    <3>3. CASE ~(out \in Definite /\ conn[c].peer)
      <4>1. told' = told
        BY <3>1, <3>3, <1>t DEF Tell, TypeOK
      <4>. QED  BY <3>1, <4>1 DEF Quiet
    <3>. QED  BY <3>2, <3>3
  <2>5. CASE Allow(c) \/ Claim(c) \/ Observe(c) \/ CommandReturns(c) \/ Inspect(c)
    BY <2>5 DEF Allow, Claim, Observe, CommandReturns, Inspect, Quiet
  <2>6. CASE RecordInProgress(c)
    <3> DEFINE rec == [done |-> FALSE, outcome |-> "unknown",
                       request |-> conn[c].request]
    <3>1. rec \in InProgress
      BY <2>1 DEF InProgress
    <3>2. /\ ledger' = [ledger EXCEPT ![Opn(c)] = rec]
          /\ UNCHANGED <<commands, told>> /\ conn[c].phase = "put1"
      BY <2>6 DEF RecordInProgress, Put, At
    <3>3. Opn(c) \notin Recorded
      BY <3>2, <2>2 DEF IInv, Progress, Held
    <3>. QED  BY <3>1, <3>2, <3>3, <2>1 DEF Recording
  <2>7. CASE Command(c)
    <3>1. conn[c].phase = "synced1"
      BY <2>7 DEF Command, At
    <3>2. Opn(c) \in Recorded /\ ~ledger[Opn(c)].done /\ commands[Opn(c)] = 0
      BY <3>1, <2>2 DEF IInv, Progress, Held
    <3>3. commands' = [commands EXCEPT ![Opn(c)] = 1] /\ UNCHANGED <<ledger, told>>
      BY <2>7, <3>2 DEF Command
    <3>. QED  BY <3>2, <3>3, <2>1 DEF Commanding
  <2>8. CASE RecordCompleted(c)
    <3> DEFINE rec == [done |-> TRUE, outcome |-> conn[c].verdict,
                       request |-> conn[c].request]
    <3>1. rec \in Completed
      BY <2>1 DEF Completed, Pending
    <3>2. /\ ledger' = [ledger EXCEPT ![Opn(c)] = rec]
          /\ UNCHANGED <<commands, told>> /\ conn[c].phase = "put2"
      BY <2>8 DEF RecordCompleted, Put, At
    <3>3. Opn(c) \in Recorded /\ ~ledger[Opn(c)].done /\ commands[Opn(c)] = 1
      BY <3>2, <2>2 DEF IInv, Progress, Held
    <3>. QED  BY <3>1, <3>2, <3>3, <2>1 DEF Completing
  <2>9. CASE Finish(c) \/ Doubt(c)
    <3>1. PICK gone \in SUBSET Recorded, out \in {conn[c].verdict, "unknown"} :
            /\ Unlink(gone) /\ Tell(gone, c, out)
            /\ out \in Definite =>
                 out = conn[c].verdict /\ conn[c].phase = "synced2"
      BY <2>9 DEF Finish, Doubt, At, Definite
    <3>2. out \in Definite =>
            ledger[Opn(c)].done /\ ledger[Opn(c)].outcome = out
      BY <3>1, <2>2 DEF IInv, Progress, Held
    <3>3. Retired(gone)
      BY <3>1, <3>2, <2>1, <1>t DEF Retired, Tell, TypeOK
    <3>. QED  BY <3>3 DEF Recorded
  <2>. QED  BY <1>3, <2>3, <2>4, <2>5, <2>6, <2>7, <2>8, <2>9 DEF Handle
<1>4. CASE \E c \in Conns, r \in Requests : Accept(c, r)
  BY <1>4 DEF Accept, Quiet
<1>5. CASE JobRuns \/ UnitChanges \/ UNCHANGED vars
  BY <1>5 DEF JobRuns, UnitChanges, vars, Quiet
<1>6. CASE \E c \in Conns : PeerLeaves(c)
  BY <1>6 DEF PeerLeaves, Quiet
<1>. QED  BY <1>1, <1>2, <1>3, <1>4, <1>5, <1>6 DEF Next

\* A completed receipt is never rewritten, by any interleaving or crash.
THEOREM ReceiptsAreFinal == Spec => ReceiptFinal
<1>1. IInv /\ [Next]_vars =>
        [\A o \in Ops : ledger[o].done => ledger'[o] \in {ledger[o], NoRecord}]_vars
  <2> SUFFICES ASSUME IInv, [Next]_vars, NEW o \in Ops, ledger[o].done
               PROVE  ledger'[o] \in {ledger[o], NoRecord}
    OBVIOUS
  <2>1. ledger \in [Ops -> {NoRecord} \cup Record] /\ o \in Recorded
    BY DEF IInv, TypeOK, Recorded, NoRecord
  <2>2. CASE Quiet \/ \E x \in Ops : Replied(x) \/ Commanding(x)
    BY <2>2 DEF Quiet, Replied, Commanding
  <2>3. CASE \E x \in Ops : Recording(x) \/ Completing(x)
    BY <2>3, <2>1 DEF Recording, Completing
  <2>4. CASE \E gone \in SUBSET Ops : Retired(gone)
    BY <2>4 DEF Retired, Unlink
  <2>. QED  BY <2>2, <2>3, <2>4, StepEffect
<1>. QED  BY <1>1, Inductive, PTL DEF Spec, ReceiptFinal

\* Every step of the helper is a step of the promise, or leaves it unchanged.
LEMMA PromiseStep ==
  IInv /\ IInv' /\ [Next]_vars => [Promise!Next]_(Promise!vars)
<1> SUFFICES ASSUME IInv, IInv', [Next]_vars PROVE [Promise!Next]_(Promise!vars)
  OBVIOUS
<1> DEFINE stage == [o \in Ops |-> Stage(o)]
           verdict == [o \in Ops |-> ledger[o].outcome]
           answered == [o \in Ops |-> Answered(o)]
<1>t. TypeOK
  BY DEF IInv
<1>1. CASE Quiet
  BY <1>1 DEF Quiet, Promise!vars, Stage, Answered, Recorded
<1>2. ASSUME NEW o \in Ops, Replied(o) PROVE Promise!Answer(o)
  <2>1. /\ o \in Recorded /\ ledger[o].done /\ ledger[o].outcome \in Definite
        /\ UNCHANGED <<ledger, commands>>
    BY <1>2 DEF Replied, Recorded, NoRecord
  <2>2. stage' = stage /\ verdict' = verdict /\ stage[o] = "settled"
    BY <2>1 DEF Stage, Recorded
  <2>3. Answered(o)' = {ledger[o].outcome}
    <3>1. Answered(o)' \subseteq {ledger[o].outcome}
      BY <1>2, <2>1 DEF IInv, DefiniteOutcome, Answered
    <3>2. ledger[o].outcome \in Answered(o)'
      BY <1>2, <1>t DEF Replied, Answered, TypeOK
    <3>. QED  BY <3>1, <3>2
  <2>4. \A x \in Ops \ {o} : Answered(x)' = Answered(x)
    BY <1>2, <1>t DEF Replied, Answered, TypeOK
  <2>5. answered' = [answered EXCEPT ![o] = {verdict[o]}]
    BY <2>3, <2>4
  <2>. QED  BY <2>1, <2>2, <2>5 DEF Promise!Answer, Promise!Definite, Definite
<1>3. ASSUME NEW o \in Ops, Recording(o) PROVE Promise!Claim(o)
  <2>1. PICK rec \in InProgress : ledger' = [ledger EXCEPT ![o] = rec]
    BY <1>3 DEF Recording
  <2>2. /\ ledger'[o] = rec /\ rec # NoRecord
        /\ ~rec.done /\ rec.outcome = "unknown"
        /\ \A x \in Ops \ {o} : ledger'[x] = ledger[x]
    <3>1. rec.outcome # NoRecord.outcome
      BY DEF InProgress, NoRecord
    <3>. QED  BY <2>1, <3>1, <1>t DEF InProgress, TypeOK
  <2>3. o \notin Recorded /\ commands[o] = 0 /\ UNCHANGED <<commands, told>>
    BY <1>3 DEF Recording, IInv, WriteAhead
  <2>4. stage[o] = "fresh" /\ stage' = [stage EXCEPT ![o] = "claimed"]
    BY <2>2, <2>3 DEF Stage, Recorded
  <2>5. verdict' = [verdict EXCEPT ![o] = "unknown"]
    BY <2>2
  <2>6. answered' = answered
    BY <2>3 DEF Answered
  <2>. QED  BY <2>4, <2>5, <2>6 DEF Promise!Claim
<1>4. ASSUME NEW o \in Ops, Commanding(o) PROVE Promise!Command(o)
  <2>1. /\ commands'[o] = 1 /\ \A x \in Ops \ {o} : commands'[x] = commands[x]
        /\ o \in Recorded /\ ~ledger[o].done /\ commands[o] = 0
        /\ UNCHANGED <<ledger, told>>
    BY <1>4, <1>t DEF Commanding, TypeOK
  <2>2. stage[o] = "claimed" /\ stage' = [stage EXCEPT ![o] = "commanded"]
    <3>1. Stage(o) = "claimed" /\ Stage(o)' = "commanded"
      BY <2>1 DEF Stage, Recorded
    <3>2. \A x \in Ops \ {o} : Stage(x)' = Stage(x)
      BY <2>1 DEF Stage, Recorded
    <3>. QED  BY <3>1, <3>2
  <2>3. verdict' = verdict /\ answered' = answered
    BY <2>1 DEF Answered
  <2>. QED  BY <2>2, <2>3 DEF Promise!Command
<1>5. ASSUME NEW o \in Ops, Completing(o) PROVE Promise!Settle(o)
  <2>1. PICK rec \in Completed : ledger' = [ledger EXCEPT ![o] = rec]
    BY <1>5 DEF Completing
  <2>2. /\ ledger'[o] = rec /\ rec # NoRecord /\ rec.done
        /\ rec.outcome \in {"success", "failed", "unknown"}
        /\ \A x \in Ops \ {o} : ledger'[x] = ledger[x]
    <3>1. rec.outcome # NoRecord.outcome
      BY DEF Completed, NoRecord
    <3>. QED  BY <2>1, <3>1, <1>t DEF Completed, TypeOK
  <2>3. /\ o \in Recorded /\ ~ledger[o].done /\ commands[o] = 1
        /\ UNCHANGED <<commands, told>>
    BY <1>5 DEF Completing
  <2>4. stage[o] = "commanded" /\ stage' = [stage EXCEPT ![o] = "settled"]
    <3>1. Stage(o) = "commanded" /\ Stage(o)' = "settled"
      BY <2>2, <2>3 DEF Stage, Recorded
    <3>2. \A x \in Ops \ {o} : Stage(x)' = Stage(x)
      BY <2>2, <2>3 DEF Stage, Recorded
    <3>. QED  BY <3>1, <3>2
  <2>5. verdict' = [verdict EXCEPT ![o] = rec.outcome]
    BY <2>2
  <2>6. answered' = answered
    BY <2>3 DEF Answered
  <2>. QED  BY <2>2, <2>4, <2>5, <2>6 DEF Promise!Settle, Promise!Definite
<1>6. ASSUME NEW gone \in SUBSET Ops, Retired(gone) PROVE Promise!Retire(gone)
  <2>1. \A o \in Ops : /\ o \in gone => ledger'[o] = NoRecord /\ commands'[o] = 0
                       /\ o \notin gone => /\ ledger'[o] = ledger[o]
                                          /\ commands'[o] = commands[o]
    BY <1>6 DEF Retired, Unlink
  <2>2. stage' = [o \in Ops |-> IF o \in gone THEN "fresh" ELSE stage[o]]
    BY <2>1 DEF Stage, Recorded
  <2>3. verdict' = [o \in Ops |-> IF o \in gone THEN "none" ELSE verdict[o]]
    BY <2>1 DEF NoRecord
  <2> DEFINE tld == {o \in Ops \ gone : Answered(o)' # Answered(o)}
  <2>4. ASSUME NEW o \in gone PROVE Answered(o)' = {}
    BY <1>6, <2>4 DEF Retired, Answered
  <2>5. ASSUME NEW o \in tld
        PROVE  /\ stage[o] = "settled" /\ verdict[o] \in Definite
               /\ Answered(o)' = {verdict[o]}
    <3>1. PICK q \in Requests : q.op = o /\ told'[q] # told[q]
      BY <2>5 DEF Answered
    <3>2. /\ ledger[o].done /\ ledger[o].outcome \in Definite
          /\ ledger[o].outcome \in told'[q]
      BY <1>6, <2>5, <3>1 DEF Retired
    <3>3. o \in Recorded
      BY <3>2 DEF Recorded, NoRecord
    <3>4. Answered(o)' \subseteq {ledger[o].outcome}
      BY <2>1, <3>2 DEF IInv, DefiniteOutcome, Answered
    <3>5. ledger[o].outcome \in Answered(o)'
      BY <3>1, <3>2 DEF Answered
    <3>. QED  BY <3>2, <3>3, <3>4, <3>5 DEF Stage
  <2>6. answered' = [o \in Ops |-> IF o \in gone THEN {}
                       ELSE IF o \in tld THEN {verdict[o]} ELSE answered[o]]
    BY <2>4, <2>5
  <2>7. tld \in SUBSET (Ops \ gone)
    OBVIOUS
  <2>. QED  BY <2>2, <2>3, <2>5, <2>6, <2>7
            DEF Promise!Retire, Promise!Definite, Definite
<1>. QED  BY <1>1, <1>2, <1>3, <1>4, <1>5, <1>6, StepEffect DEF Promise!Next

\* The helper implements RestartPromise: through crashes, failed writes, lost
\* peers and duplicated requests each operation moves only from fresh to
\* claimed, commanded and settled, and is answered only with its verdict.
THEOREM HelperKeepsPromise == Spec => KeepsPromise
<1>1. Init => Promise!Init
  BY DEF Init, Promise!Init, Stage, Recorded, NoRecord, Answered
<1>. QED  BY <1>1, PromiseStep, Inductive, PTL DEF Spec, KeepsPromise, Promise!Spec
=============================================================================
