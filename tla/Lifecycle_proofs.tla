-------------------------- MODULE Lifecycle_proofs --------------------------
(***************************************************************************)
(* The safety invariants of Lifecycle and its action properties, for every *)
(* backoff cap and every bound on the stray timers.                        *)
(*                                                                         *)
(* The invariants are inductive together, with one addition: what is known *)
(* while a provisional timer is set (TimersFit).  Most steps that matter   *)
(* end the connection, and do so through Lose: what it establishes is      *)
(* shown once, for whatever was pending (LosePreserves).                   *)
(***************************************************************************)
EXTENDS Lifecycle, TLAPS

\* The timer of a provisional response that is not a stray one belongs to the
\* connection that is up, and there is room for it among the strays.
TimersFit == provisional => ping /\ offer # "none" /\ strays < MaxStrays

IInv ==
  /\ TypeOK /\ TimersFit
  /\ AlwaysReconnecting /\ TimersOwned /\ SessionEarned /\ MarkerTruthful

\* The pending operations, with the one that ends here taken out.
Lefts == [opening : SUBSET Ages, replying : SUBSET Ages,
          provisional : BOOLEAN, strays : 0 .. MaxStrays]

LEMMA Sessions ==
  /\ ~NoSession.ready
  /\ \A grant : Session(grant).ready /\ Session(grant).grant = grant
BY DEF NoSession, Session

LEMMA Initially == Init => IInv
<1> SUFFICES ASSUME Init PROVE IInv
  OBVIOUS
<1>1. TypeOK
  <2>1. attempts \in 0 .. BackoffCap /\ strays \in 0 .. MaxStrays
    BY LifecycleAssumption DEF LifecycleAssumption, Init
  <2>2. session \in {NoSession} \cup {Session(grant) : grant \in Grants}
    BY DEF Init
  <2>. QED  BY <2>1, <2>2 DEF Init, TypeOK
<1>2. TimersFit /\ AlwaysReconnecting /\ MarkerTruthful
  BY DEF Init, TimersFit, AlwaysReconnecting, MarkerTruthful, running
<1>3. TimersOwned
  BY DEF Init, TimersOwned
<1>4. SessionEarned
  BY Sessions DEF Init, SessionEarned
<1>. QED  BY <1>1, <1>2, <1>3, <1>4 DEF IInv

\* The backoff counter stays within its cap.
LEMMA ScheduleType ==
  ASSUME attempts \in 0 .. BackoffCap, reconnect \in BOOLEAN, ScheduleReconnect
  PROVE  reconnect' /\ attempts' \in 0 .. BackoffCap /\ ~(attempts' < attempts)
BY LifecycleAssumption DEF LifecycleAssumption, ScheduleReconnect, Least

\* Captured ages only get older, and a provisional timer becomes a stray one.
LEMMA AgeingType ==
  ASSUME NEW left \in Lefts, left.provisional => left.strays < MaxStrays,
         NEW new \in SUBSET Ages, NextGeneration(left, new)
  PROVE  /\ opening' \subseteq Ages /\ replying' \subseteq Ages
         /\ provisional' = FALSE /\ strays' \in 0 .. MaxStrays
         /\ "current" \in opening' => "current" \in new
<1>1. /\ opening' \subseteq Ages /\ replying' \subseteq Ages
      /\ "current" \in opening' => "current" \in new
  BY DEF NextGeneration, Ages, Aged
<1>2. strays' \in 0 .. MaxStrays
  <2>1. left.provisional \in BOOLEAN /\ left.strays \in 0 .. MaxStrays
    BY DEF Lefts
  <2>2. strays' = IF left.provisional THEN left.strays + 1 ELSE left.strays
    BY <2>1 DEF NextGeneration
  <2>. QED  BY <2>1, <2>2, LifecycleAssumption DEF LifecycleAssumption
<1>. QED  BY <1>1, <1>2 DEF NextGeneration

\* Whatever ends a connection restores every invariant.
LEMMA LosePreserves ==
  ASSUME IInv, running, NEW left \in Lefts,
         left.provisional => left.strays < MaxStrays, Lose(left)
  PROVE  IInv'
<1>1. /\ reconnect' /\ attempts' \in 0 .. BackoffCap
  BY ScheduleType DEF IInv, TypeOK, Lose
<1>2. /\ opening' \subseteq Ages /\ replying' \subseteq Ages
      /\ provisional' = FALSE /\ strays' \in 0 .. MaxStrays
      /\ "current" \notin opening'
  <2>1. NextGeneration(left, {})
    BY DEF Lose
  <2>2. {} \in SUBSET Ages
    OBVIOUS
  <2>. QED  BY <2>1, <2>2, AgeingType
<1>3. /\ session' = NoSession /\ deadline' = FALSE /\ marker' = FALSE
      /\ socket' = "none" /\ ping' = FALSE /\ pong' = FALSE /\ offer' = "none"
      /\ process' = process /\ writeEnabled' = writeEnabled
  BY DEF Lose, ClearSession, owner
<1>4. TypeOK'
  BY <1>1, <1>2, <1>3 DEF IInv, TypeOK
<1>5. (TimersFit /\ AlwaysReconnecting /\ TimersOwned)'
  BY <1>1, <1>2, <1>3
  DEF TimersFit, AlwaysReconnecting, TimersOwned, running
<1>6. (SessionEarned /\ MarkerTruthful)'
  BY <1>3, Sessions DEF SessionEarned, MarkerTruthful, running
<1>. QED  BY <1>4, <1>5, <1>6 DEF IInv

LEMMA PendingLeft ==
  ASSUME IInv
  PROVE  /\ Pending \in Lefts
         /\ Pending.provisional => Pending.strays < MaxStrays
         /\ Pending.strays = strays
BY DEF IInv, TypeOK, TimersFit, Lefts, Pending

\* Every action that ends the connection does so while the agent is running,
\* and with pending operations of the right kind.
LEMMA LosingStep ==
  ASSUME IInv,
         \/ HandshakeDeadline \/ Reject \/ RespondFails \/ ProvisionalTimer
         \/ (running /\ StrayTimer) \/ SendFails \/ PongDeadline
         \/ ConnectFails \/ Closed
  PROVE  IInv'
<1>1. running
  BY DEF IInv, AlwaysReconnecting, TimersOwned, SessionEarned, TimersFit,
         HandshakeDeadline, Reject, RespondFails, ProvisionalTimer, SendFails,
         PongDeadline, ConnectFails, Closed
<1>2. PICK left \in Lefts :
        (left.provisional => left.strays < MaxStrays) /\ Lose(left)
  <2>1. CASE LoseConnection
    BY <2>1, PendingLeft DEF LoseConnection
  <2>2. CASE RespondFails
    <3>1. PICK rest \in SUBSET Ages : Lose([Pending EXCEPT !.replying = rest])
      BY <2>2 DEF RespondFails, IInv, TypeOK
    <3>2. [Pending EXCEPT !.replying = rest] \in Lefts
      BY PendingLeft DEF Lefts
    <3>. QED  BY <3>1, <3>2, PendingLeft DEF Pending
  <2>3. CASE ProvisionalTimer
    <3>1. [Pending EXCEPT !.provisional = FALSE] \in Lefts
      BY PendingLeft DEF Lefts
    <3>. QED  BY <2>3, <3>1 DEF ProvisionalTimer, Pending
  <2>4. CASE running /\ StrayTimer
    <3>1. strays - 1 \in 0 .. MaxStrays /\ (provisional => strays - 1 < MaxStrays)
      BY <2>4, LifecycleAssumption
      DEF LifecycleAssumption, StrayTimer, IInv, TypeOK, TimersFit
    <3>2. [Pending EXCEPT !.strays = @ - 1] \in Lefts
      BY <3>1, PendingLeft DEF Lefts, Pending
    <3>. QED  BY <2>4, <3>1, <3>2 DEF StrayTimer, Pending
  <2>. QED
    BY <2>1, <2>2, <2>3, <2>4
    DEF HandshakeDeadline, Reject, SendFails, PongDeadline, ConnectFails, Closed
<1>. QED  BY <1>1, <1>2, LosePreserves

LEMMA StepPreserves ==
  ASSUME IInv, [Next]_vars
  PROVE  IInv'
<1> USE DEF running
<1>1. CASE Start
  <2>1. session' = NoSession /\ attempts' \in 0 .. BackoffCap /\ strays' \in 0 .. MaxStrays
    BY <1>1, LifecycleAssumption DEF LifecycleAssumption, Start, Forget
  <2>2. TypeOK'
    BY <1>1, <2>1 DEF Start, Forget, TypeOK
  <2>3. (TimersFit /\ AlwaysReconnecting /\ TimersOwned)'
    BY <1>1 DEF Start, Forget, TimersFit, AlwaysReconnecting, TimersOwned
  <2>4. (SessionEarned /\ MarkerTruthful)'
    BY <1>1, <2>1, Sessions DEF Start, SessionEarned, MarkerTruthful
  <2>. QED  BY <2>2, <2>3, <2>4 DEF IInv
<1>2. CASE Stop
  <2>1. /\ opening' \subseteq Ages /\ replying' \subseteq Ages
        /\ provisional' = FALSE /\ strays' \in 0 .. MaxStrays
        /\ "current" \notin opening'
    <3>1. NextGeneration(Pending, {}) /\ {} \in SUBSET Ages
      BY <1>2 DEF Stop
    <3>. QED  BY <3>1, PendingLeft, AgeingType
  <2>2. session' = NoSession /\ deadline' = FALSE /\ marker' = FALSE
    BY <1>2 DEF Stop, ClearSession
  <2>3. TypeOK'
    BY <1>2, <2>1, <2>2 DEF Stop, IInv, TypeOK
  <2>4. (TimersFit /\ AlwaysReconnecting /\ TimersOwned)'
    BY <1>2, <2>1, <2>2 DEF Stop, TimersFit, AlwaysReconnecting, TimersOwned
  <2>5. (SessionEarned /\ MarkerTruthful)'
    BY <2>2, Sessions DEF SessionEarned, MarkerTruthful
  <2>. QED  BY <2>3, <2>4, <2>5 DEF IInv
<1>3. CASE Exit
  <2>0. session' = NoSession /\ attempts' \in 0 .. BackoffCap /\ strays' \in 0 .. MaxStrays
    BY <1>3, LifecycleAssumption DEF LifecycleAssumption, Exit, Forget
  <2>1. TypeOK'
    BY <1>3, <2>0 DEF Exit, Forget, IInv, TypeOK
  <2>2. (TimersFit /\ AlwaysReconnecting /\ TimersOwned)'
    BY <1>3 DEF Exit, Forget, TimersFit, AlwaysReconnecting, TimersOwned
  <2>3. (SessionEarned /\ MarkerTruthful)'
    BY <1>3, Sessions DEF Exit, Forget, SessionEarned, MarkerTruthful
  <2>. QED  BY <2>1, <2>2, <2>3 DEF IInv
<1>4. CASE ReconnectTimer
  <2>1. TypeOK'
    BY <1>4 DEF ReconnectTimer, owner, handshake, leftover, IInv, TypeOK
  <2>2. (TimersFit /\ AlwaysReconnecting /\ TimersOwned)'
    BY <1>4 DEF ReconnectTimer, owner, handshake, leftover, IInv, TimersFit,
                AlwaysReconnecting, TimersOwned, TypeOK
  <2>3. (SessionEarned /\ MarkerTruthful)'
    BY <1>4 DEF ReconnectTimer, owner, handshake, leftover, IInv, SessionEarned,
                MarkerTruthful
  <2>. QED  BY <2>1, <2>2, <2>3 DEF IInv
<1>5. CASE Opened
  <2> DEFINE new == IF writeEnabled THEN {"current"} ELSE {}
  <2>1. /\ opening' \subseteq Ages /\ replying' \subseteq Ages
        /\ provisional' = FALSE /\ strays' \in 0 .. MaxStrays
        /\ "current" \in opening' => "current" \in new
    <3>1. NextGeneration(Pending, new) /\ new \in SUBSET Ages
      BY <1>5 DEF Opened, Ages
    <3>. QED  BY <3>1, PendingLeft, AgeingType
  <2>2. TypeOK'
    BY <1>5, <2>1 DEF Opened, owner, Grants, IInv, TypeOK
  <2>3. (TimersFit /\ AlwaysReconnecting)'
    BY <1>5, <2>1 DEF Opened, owner, IInv, TimersFit, AlwaysReconnecting
  <2>4. TimersOwned'
    <3>1. writeEnabled \in BOOLEAN /\ ("current" \in opening' => writeEnabled)
      BY <2>1 DEF IInv, TypeOK
    <3>2. ~session'.ready
      BY <1>5, Sessions DEF Opened
    <3>. QED  BY <1>5, <2>1, <3>1, <3>2 DEF Opened, TimersOwned
  <2>5. (SessionEarned /\ MarkerTruthful)'
    BY <1>5, Sessions DEF Opened, SessionEarned, MarkerTruthful
  <2>. QED  BY <2>2, <2>3, <2>4, <2>5 DEF IInv
<1>6. ASSUME NEW age \in Ages, CapabilitiesReturn(age) PROVE IInv'
  <2>1. CASE \E grant \in Grants : IsOpen /\ "current" \in opening /\ Offer(grant)
    <3>1. /\ offer' \in Grants /\ deadline' = TRUE
          /\ opening' = opening \ {"current"}
          /\ UNCHANGED <<owner, transport, session, replying, leftover, marker>>
      BY <2>1 DEF Offer
    <3>2. IsOpen /\ "current" \in opening
      BY <2>1
    <3>3. offer = "none" /\ ping
      BY <3>2 DEF IInv, TimersOwned
    <3>4. ~session.ready
      BY <3>3 DEF IInv, SessionEarned
    <3>5. ~provisional
      BY <3>3 DEF IInv, TimersFit
    <3>6. TypeOK'
      BY <3>1 DEF owner, transport, leftover, IInv, TypeOK
    <3>7. (TimersFit /\ AlwaysReconnecting /\ TimersOwned)'
      BY <3>1, <3>3, <3>4, <3>5
      DEF owner, transport, leftover, IInv, TimersFit, AlwaysReconnecting,
          TimersOwned, Grants
    <3>8. (SessionEarned /\ MarkerTruthful)'
      BY <3>1, <3>4 DEF owner, IInv, SessionEarned, MarkerTruthful
    <3>. QED  BY <3>6, <3>7, <3>8 DEF IInv
  <2>2. CASE GiveUp(age)
    BY <2>2 DEF GiveUp, owner, transport, leftover, IInv, TypeOK, TimersFit,
       AlwaysReconnecting, TimersOwned, SessionEarned, MarkerTruthful
  <2>. QED  BY <1>6, <2>1, <2>2 DEF CapabilitiesReturn, IsOpen
<1>7. ASSUME NEW age \in Ages, Respond(age) PROVE IInv'
  BY <1>7 DEF Respond, owner, transport, handshake, leftover, IInv, TypeOK,
     TimersFit, AlwaysReconnecting, TimersOwned, SessionEarned, MarkerTruthful
<1>8. CASE AcceptProvisional
  <2>1. ~session.ready /\ ping /\ offer # "none" /\ deadline
    BY <1>8 DEF AcceptProvisional, HandshakeDue, IInv, TimersOwned
  <2>2. /\ deadline' = FALSE /\ provisional' = TRUE /\ strays < MaxStrays
        /\ UNCHANGED <<owner, transport, opening, offer, session, replying,
                       strays, marker>>
    BY <1>8 DEF AcceptProvisional
  <2>3. TypeOK'
    BY <2>2 DEF owner, transport, IInv, TypeOK
  <2>4. (TimersFit /\ AlwaysReconnecting /\ TimersOwned)'
    BY <2>1, <2>2 DEF owner, transport, IInv, TimersFit, AlwaysReconnecting,
                      TimersOwned
  <2>5. (SessionEarned /\ MarkerTruthful)'
    BY <2>1, <2>2 DEF owner, IInv, SessionEarned, MarkerTruthful
  <2>. QED  BY <2>3, <2>4, <2>5 DEF IInv
<1>9. CASE Request
  BY <1>9 DEF Request, Ages, owner, transport, handshake, leftover, IInv, TypeOK,
     TimersFit, AlwaysReconnecting, TimersOwned, SessionEarned, MarkerTruthful
<1>10. ASSUME NEW w \in BOOLEAN, Accept(w) PROVE IInv'
  <2>1. /\ IsOpen /\ ping /\ offer # "none" /\ ~provisional
    BY <1>10 DEF Accept, HandshakeDue, IInv, TimersOwned
  <2>2. PICK grant \in Grants :
          /\ session' = Session(grant)
          /\ grant = "write" => writeEnabled /\ offer = "write"
    BY <1>10 DEF Accept, Grants
  <2>3. /\ deadline' = FALSE /\ attempts' = 0 /\ marker' \in {TRUE, marker}
        /\ UNCHANGED <<owner, socket, ping, pong, reconnect, opening, offer,
                       replying, leftover>>
    BY <1>10 DEF Accept
  <2>4. attempts' \in 0 .. BackoffCap
    BY <2>3, LifecycleAssumption DEF LifecycleAssumption
  <2>5. TypeOK'
    BY <2>2, <2>3, <2>4 DEF owner, leftover, IInv, TypeOK
  <2>6. (TimersFit /\ AlwaysReconnecting /\ TimersOwned)'
    BY <2>1, <2>3 DEF owner, leftover, IInv, TimersFit, AlwaysReconnecting,
                      TimersOwned
  <2>7. session'.ready /\ session'.grant = grant
    BY <2>2, Sessions
  <2>8. SessionEarned'
    BY <2>1, <2>2, <2>3, <2>7 DEF owner, leftover, IsOpen, SessionEarned
  <2>9. MarkerTruthful'
    BY <2>1, <2>3, <2>7
    DEF owner, IsOpen, IInv, AlwaysReconnecting, MarkerTruthful
  <2>. QED  BY <2>5, <2>6, <2>8, <2>9 DEF IInv
<1>11. CASE StrayTimer /\ ~running
  <2>1. strays - 1 \in 0 .. MaxStrays /\ (strays < MaxStrays => strays - 1 < MaxStrays)
    BY <1>11, LifecycleAssumption DEF LifecycleAssumption, StrayTimer, IInv, TypeOK
  <2>. QED
    BY <1>11, <2>1 DEF StrayTimer, owner, transport, handshake, IInv, TypeOK, TimersFit,
       AlwaysReconnecting, TimersOwned, SessionEarned, MarkerTruthful
<1>12. CASE Ping \/ PongArrives \/ PeerCloses
  <2>1. TypeOK'
    BY <1>12 DEF Ping, PongArrives, PeerCloses, owner, handshake, leftover, IInv, TypeOK
  <2>2. (TimersFit /\ AlwaysReconnecting /\ TimersOwned)'
    BY <1>12 DEF Ping, PongArrives, PeerCloses, IsOpen, owner, handshake, leftover,
       IInv, TimersFit, AlwaysReconnecting, TimersOwned
  <2>3. (SessionEarned /\ MarkerTruthful)'
    BY <1>12 DEF Ping, PongArrives, PeerCloses, owner, handshake, leftover, IInv,
       SessionEarned, MarkerTruthful
  <2>. QED  BY <2>1, <2>2, <2>3 DEF IInv
<1>13. CASE UNCHANGED vars
  BY <1>13 DEF vars, owner, transport, handshake, leftover, IInv, TypeOK, TimersFit,
     AlwaysReconnecting, TimersOwned, SessionEarned, MarkerTruthful
<1>. QED
  BY <1>1, <1>2, <1>3, <1>4, <1>5, <1>6, <1>7, <1>8, <1>9, <1>10, <1>11, <1>12,
     <1>13, LosingStep DEF Next

LEMMA Inductive == Spec => []IInv
BY Initially, StepPreserves, PTL DEF Spec

\* Every variable keeps its type; in particular the set of stray timers and
\* the backoff counter stay bounded.
THEOREM TypeCorrect == Spec => []TypeOK
<1>1. IInv => TypeOK
  BY DEF IInv
<1>. QED  BY <1>1, Inductive, PTL

\* A running agent has a socket or a reconnect timer, never both, never none.
THEOREM NeverCutOff == Spec => []AlwaysReconnecting
<1>1. IInv => AlwaysReconnecting
  BY DEF IInv
<1>. QED  BY <1>1, Inductive, PTL

\* Ping timers and handshake deadlines belong to the connection that is up.
THEOREM TimersBelong == Spec => []TimersOwned
<1>1. IInv => TimersOwned
  BY DEF IInv
<1>. QED  BY <1>1, Inductive, PTL

\* A session exists only on a connection that is up and has authenticated, and
\* may write only if that connection's handshake advertised the helper.
THEOREM SessionsAreEarned == Spec => []SessionEarned
<1>1. IInv => SessionEarned
  BY DEF IInv
<1>. QED  BY <1>1, Inductive, PTL

\* While the agent runs the readiness marker tells the truth.
THEOREM MarkerTellsTruth == Spec => []MarkerTruthful
<1>1. IInv => MarkerTruthful
  BY DEF IInv
<1>. QED  BY <1>1, Inductive, PTL

\* Only an authenticated session, or another process, lowers the backoff.
LEMMA BackoffStep ==
  ASSUME IInv, [Next]_vars, attempts' < attempts
  PROVE  session'.ready \/ process' # process
<1> attempts \in Nat /\ ~(attempts < attempts)
  BY LifecycleAssumption DEF LifecycleAssumption, IInv, TypeOK
<1>1. CASE \E left : Lose(left)
  <2>1. ScheduleReconnect
    BY <1>1 DEF Lose
  <2>. QED  BY <2>1, ScheduleType DEF IInv, TypeOK
<1>2. CASE Start \/ Exit \/ Stop
  BY <1>2 DEF Start, Exit, Stop, running
<1>3. CASE \E w \in BOOLEAN : Accept(w)
  BY <1>3, Sessions DEF Accept
<1>4. CASE UNCHANGED attempts
  BY <1>4
<1>. QED
  BY <1>1, <1>2, <1>3, <1>4
  DEF Next, ReconnectTimer, Opened, ConnectFails, CapabilitiesReturn, Offer,
      GiveUp, Respond, HandshakeDeadline, AcceptProvisional, Reject, Request,
      RespondFails, ProvisionalTimer, StrayTimer, SendFails, Ping, PongArrives,
      PongDeadline, PeerCloses, Closed, LoseConnection, transport, vars

\* A control plane that opens connections and rejects them is not hammered.
THEOREM BackoffIsKept == Spec => BackoffHolds
<1>1. IInv /\ [Next]_vars =>
        [attempts' < attempts => session'.ready \/ process' # process]_vars
  BY BackoffStep
<1>. QED  BY <1>1, Inductive, PTL DEF Spec, BackoffHolds
=============================================================================
