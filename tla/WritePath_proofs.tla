-------------------------- MODULE WritePath_proofs --------------------------
(***************************************************************************)
(* The write path: what "not started" tells the caller, and that the       *)
(* helper below it still is ActionHelper.                                  *)
(***************************************************************************)
EXTENDS WritePath, ActionHelper_proofs

\* The line, the helper's request and its reply exist one after the other, and
\* an attempt acts in the second only, past its first record.
Slot(c) ==
  /\ call[c].unread => conn[c].phase = "closed" /\ ~call[c].acted
  /\ call[c].reply # Nothing => Gone(c)
  /\ call[c].reply.outcome = "not_started" => ~call[c].acted
  /\ conn[c].phase \in {"policy", "ledger", "before", "put1", "synced1"} =>
       ~call[c].acted
  /\ call[c].phase = "connecting" =>
       Gone(c) /\ ~call[c].acted /\ call[c].reply = Nothing
  /\ Calling(c) => call[c].answer = Nothing
  /\ call[c].answer.outcome = "not_started" => ~call[c].acted /\ Gone(c)

PInv == TypeOK /\ PathTypeOK /\ \A c \in Conns : Slot(c)

LEMMA NothingFacts == Nothing.outcome = "none" /\ Nothing \notin HelperReplies
BY DEF Nothing, Answer, HelperReplies, NotStarted

\* A reply is well formed, given the replies the helper chooses from.
LEMMA PostType ==
  ASSUME PathTypeOK, NEW c \in Conns, NEW replies, Post(c, replies),
         replies \subseteq HelperReplies
  PROVE  /\ PathTypeOK'
         /\ \A d \in Conns \ {c} : call'[d] = call[d]
         /\ \E reply \in {Nothing} \cup replies :
              call'[c] = [call[c] EXCEPT !.reply = reply]
<1>1. PICK reply \in replies :
        call' = [call EXCEPT ![c].reply = IF conn[c].peer THEN reply ELSE Nothing]
  BY DEF Post
<1> DEFINE sent == IF conn[c].peer THEN reply ELSE Nothing
<1>2. sent \in {Nothing} \cup HelperReplies /\ sent \in {Nothing} \cup replies
  OBVIOUS
<1> HIDE DEF sent
<1>3. call' = [call EXCEPT ![c] = [call[c] EXCEPT !.reply = sent]]
  BY <1>1 DEF sent, PathTypeOK, Call
<1>4. [call[c] EXCEPT !.reply = sent] \in Call
  BY <1>2 DEF PathTypeOK, Call
<1>. QED  BY <1>2, <1>3, <1>4 DEF PathTypeOK

LEMMA FinishedType ==
  ASSUME PathTypeOK, NEW c \in Conns, NEW answer \in {Nothing} \cup Answers,
         Finished(c, answer)
  PROVE  /\ PathTypeOK'
         /\ \A d \in Conns \ {c} : call'[d] = call[d]
         /\ call'[c] = [call[c] EXCEPT !.phase = "idle", !.reply = Nothing,
                                       !.answer = answer]
<1>1. [call[c] EXCEPT !.phase = "idle", !.reply = Nothing, !.answer = answer]
        \in Call
  BY DEF PathTypeOK, Call
<1>. QED  BY <1>1 DEF Finished, PathTypeOK

\* The helper's side of every step is a step of ActionHelper, or none.
LEMMA PathStepIsHelperStep ==
  PathTypeOK /\ [PathNext]_pathVars => [Next]_vars
<1> SUFFICES ASSUME PathTypeOK, [PathNext]_pathVars PROVE [Next]_vars
  OBVIOUS
<1>1. ASSUME NEW c \in Conns, Client(c) PROVE [Next]_vars
  <2>1. ASSUME NEW answer, Finished(c, answer) PROVE [Next]_vars
    BY <2>1 DEF Finished, Next
  <2>2. ASSUME NEW r \in Requests, Dial(c, r) \/ Connected(c)
        PROVE  UNCHANGED vars
    BY <2>2 DEF Dial, Connected
  <2>3. CASE Connected(c)
    BY <2>3 DEF Connected
  <2>. QED  BY <1>1, <2>1, <2>2, <2>3
            DEF Client, Expire, ConnectFails, Break, Receive, AgentDies
<1>2. ASSUME NEW c \in Conns, Serve(c) PROVE Next
  <2>1. CASE Deliver(c)
    <3>1. call[c].request \in Requests /\ Accept(c, call[c].request)
      BY <2>1 DEF Deliver, PathTypeOK, Call
    <3>. QED  BY <3>1 DEF Next
  <2>2. CASE Silent(c) \/ Act(c) \/ TurnDown(c) \/ Return(c)
    <3>1. Handle(c)
      BY <2>2 DEF Silent, Act, TurnDown, Return, Handle
    <3>. QED  BY <3>1 DEF Next
  <2>. QED  BY <1>2, <2>1, <2>2 DEF Serve
<1>3. ASSUME HelperDies \/ Elsewhere PROVE Next
  BY <1>3 DEF HelperDies, Elsewhere, Next
<1>4. ASSUME UNCHANGED pathVars PROVE UNCHANGED vars
  BY <1>4 DEF pathVars
<1>. QED  BY <1>1, <1>2, <1>3, <1>4 DEF PathNext

-----------------------------------------------------------------------------
\* One slot's invariant is kept by a step of that slot.
LEMMA SlotStep ==
  ASSUME PInv, NEW c \in Conns,
         \A d \in Conns \ {c} : call'[d] = call[d] /\ conn'[d].phase = conn[d].phase,
         Slot(c)'
  PROVE  \A d \in Conns : Slot(d)'
BY DEF PInv, Slot, Gone, Calling

\* The client's steps.
LEMMA ClientStep ==
  ASSUME PInv, NEW c \in Conns, Client(c)
  PROVE  PathTypeOK' /\ \A d \in Conns : Slot(d)'
<1>t. call[c] \in Call /\ Slot(c)
  BY DEF PInv, PathTypeOK
<1>1. ASSUME NEW answer \in {Nothing} \cup Answers, Calling(c),
             Finished(c, answer),
             answer.outcome = "not_started" => ~call[c].acted /\ Gone(c)
      PROVE  PathTypeOK' /\ \A d \in Conns : Slot(d)'
  <2>1. /\ PathTypeOK'
        /\ \A d \in Conns \ {c} : call'[d] = call[d]
        /\ call'[c] = [call[c] EXCEPT !.phase = "idle", !.reply = Nothing,
                                      !.answer = answer]
    BY <1>1, FinishedType DEF PInv
  <2>2. \A d \in Conns : conn'[d].phase = conn[d].phase
    BY <1>1 DEF Finished, PeerLeaves, vars, PInv, TypeOK, Pending, Closed
  <2>3. /\ call'[c].phase = "idle" /\ call'[c].reply = Nothing
        /\ call'[c].answer = answer /\ call'[c].unread = call[c].unread
        /\ call'[c].acted = call[c].acted
    BY <2>1, <1>t DEF Call
  <2>4. Slot(c)'
    BY <2>3, <2>2, <1>1, <1>t, NothingFacts DEF Slot, Gone, Calling
  <2>. QED  BY <2>1, <2>2, <2>4, SlotStep
<1>2. ASSUME NEW r \in Requests, Dial(c, r)
      PROVE  PathTypeOK' /\ \A d \in Conns : Slot(d)'
  <2>1. Dialled("connecting", r) \in Call
    BY DEF Dialled, Call
  <2>2. /\ call' = [call EXCEPT ![c] = Dialled("connecting", r)]
        /\ conn' = conn /\ Gone(c)
    BY <1>2 DEF Dial, vars
  <2>3. PathTypeOK' /\ call'[c] = Dialled("connecting", r)
    BY <2>1, <2>2 DEF PathTypeOK, PInv
  <2>4. Slot(c)'
    BY <2>2, <2>3, NothingFacts DEF Slot, Gone, Calling, Dialled
  <2>. QED  BY <2>2, <2>3, <2>4, SlotStep DEF PInv, PathTypeOK
<1>3. CASE Connected(c)
  <2> DEFINE new == [call[c] EXCEPT !.phase = "waiting", !.unread = TRUE]
  <2>1. /\ call' = [call EXCEPT ![c] = new] /\ conn' = conn
        /\ call[c].phase = "connecting"
    BY <1>3 DEF Connected, vars
  <2>2. new \in Call
    BY <1>t DEF Call
  <2>3. PathTypeOK' /\ call'[c] = new
    BY <2>1, <2>2 DEF PathTypeOK, PInv
  <2>4. /\ new.phase = "waiting" /\ new.unread /\ new.reply = call[c].reply
        /\ new.answer = call[c].answer /\ new.acted = call[c].acted
    BY <1>t DEF Call
  <2> HIDE DEF new
  <2>5. Slot(c)'
    BY <2>1, <2>3, <2>4, <1>t, NothingFacts DEF Slot, Gone, Calling
  <2>. QED  BY <2>1, <2>3, <2>5, SlotStep DEF PInv, PathTypeOK
<1>4. CASE Expire(c)
  <2>1. /\ Calling(c) /\ Finished(c, Answer("TOOL_TIMEOUT", Certainty(c)))
        /\ Certainty(c) \in {"unknown", "not_started"}
        /\ Certainty(c) = "not_started" => call[c].phase = "connecting"
    BY <1>4, <1>t DEF Expire, Certainty, Calling, Call
  <2>2. Answer("TOOL_TIMEOUT", Certainty(c)) \in Answers
    BY <2>1 DEF Answers, Answer, NotStarted
  <2>. QED  BY <2>1, <2>2, <1>1, <1>t DEF Slot, Answer
<1>5. CASE ConnectFails(c)
  <2>1. PICK code \in {"HOST_UNAVAILABLE", "PERMISSION_DENIED"} :
          Finished(c, Answer(code, Certainty(c)))
    BY <1>5 DEF ConnectFails
  <2>2. /\ Certainty(c) = "not_started" /\ Calling(c)
        /\ ~call[c].acted /\ Gone(c)
    BY <1>5, <1>t DEF ConnectFails, Certainty, Calling, Slot
  <2>3. Answer(code, Certainty(c)) \in Answers
    BY <2>2 DEF Answers, Answer, NotStarted
  <2>. QED  BY <2>1, <2>2, <2>3, <1>1
<1>6. CASE Break(c)
  <2>1. /\ Calling(c) /\ Certainty(c) = "unknown"
        /\ Finished(c, Answer("HOST_UNAVAILABLE", Certainty(c)))
    BY <1>6 DEF Break, Certainty, Calling
  <2>2. Answer("HOST_UNAVAILABLE", Certainty(c)) \in Answers
    BY <2>1 DEF Answers
  <2>. QED  BY <2>1, <2>2, <1>1 DEF Answer
<1>7. CASE Receive(c)
  <2>1. /\ Calling(c) /\ call[c].reply # Nothing
        /\ Finished(c, Verdict(call[c].reply))
    BY <1>7 DEF Receive, Calling
  <2>2. call[c].reply \in HelperReplies
    BY <2>1, <1>t DEF Call
  <2>3. /\ Verdict(call[c].reply) \in Answers
        /\ Verdict(call[c].reply).outcome = "not_started" =>
             call[c].reply.outcome = "not_started"
    BY <2>2 DEF Verdict, HelperReplies, Answers, Answer, NotStarted
  <2>. QED  BY <2>1, <2>3, <1>1, <1>t DEF Slot
<1>8. CASE AgentDies(c)
  BY <1>8, <1>1, NothingFacts DEF AgentDies
<1>. QED  BY <1>2, <1>3, <1>4, <1>5, <1>6, <1>7, <1>8 DEF Client

\* The helper's steps on one connection.
LEMMA ServeStep ==
  ASSUME PInv, NEW c \in Conns, Serve(c)
  PROVE  PathTypeOK' /\ \A d \in Conns : Slot(d)'
<1> DEFINE early == {"policy", "ledger", "before", "put1", "synced1"}
<1>t. call[c] \in Call /\ Slot(c) /\ conn[c] \in {Closed} \cup Pending
  BY DEF PInv, PathTypeOK, TypeOK
<1>c. Closed.phase = "closed"
  BY DEF Closed
\* The last step of a request: the connection closes behind its reply.
<1>1. ASSUME NEW replies, Post(c, replies), replies \subseteq HelperReplies,
             conn' = [conn EXCEPT ![c] = Closed], conn[c].phase # "closed",
             conn[c].phase \in early \/ \A r \in replies : r.outcome # "not_started"
      PROVE  PathTypeOK' /\ \A d \in Conns : Slot(d)'
  <2>1. PICK reply \in {Nothing} \cup replies :
          call'[c] = [call[c] EXCEPT !.reply = reply]
    BY <1>1, PostType DEF PInv
  <2>2. PathTypeOK' /\ \A d \in Conns \ {c} : call'[d] = call[d]
    BY <1>1, PostType DEF PInv
  <2>3. /\ conn'[c].phase = "closed"
        /\ \A d \in Conns \ {c} : conn'[d].phase = conn[d].phase
    BY <1>1, <1>c DEF PInv, TypeOK
  <2>4. /\ call'[c].reply = reply /\ call'[c].phase = call[c].phase
        /\ call'[c].unread = call[c].unread /\ call'[c].acted = call[c].acted
        /\ call'[c].answer = call[c].answer
    BY <2>1, <1>t DEF Call
  <2>5. reply.outcome = "not_started" => ~call[c].acted
    BY <2>1, <1>1, <1>t, NothingFacts DEF Slot
  <2>6. Slot(c)'
    BY <2>3, <2>4, <2>5, <1>1, <1>t DEF Slot, Gone, Calling
  <2>. QED  BY <2>2, <2>3, <2>6, SlotStep
\* Any other step: the request goes on to its next await.
<1>2. ASSUME call' = call, NEW phase, conn[c].phase # "closed",
             \A d \in Conns \ {c} : conn'[d] = conn[d],
             conn'[c].phase = phase, phase # "closed",
             phase \in early => conn[c].phase \in early
      PROVE  PathTypeOK' /\ \A d \in Conns : Slot(d)'
  <2>1. Slot(c)'
    BY <1>2, <1>t DEF Slot, Gone, Calling
  <2>. QED  BY <1>2, <2>1, SlotStep DEF PInv, PathTypeOK
<1>3. CASE Deliver(c)
  <2>1. PICK here \in BOOLEAN : conn' = [conn EXCEPT ![c] =
          [phase |-> "policy", request |-> call[c].request, peer |-> here,
           before |-> 0, verdict |-> "unknown"]]
    BY <1>3 DEF Deliver, Accept
  <2>2. /\ conn'[c].phase = "policy"
        /\ \A d \in Conns \ {c} : conn'[d].phase = conn[d].phase
    BY <2>1 DEF PInv, TypeOK
  <2> DEFINE new == [call[c] EXCEPT !.unread = FALSE]
  <2>3. call' = [call EXCEPT ![c] = new] /\ call[c].unread
    BY <1>3 DEF Deliver
  <2>4. new \in Call
    BY <1>t DEF Call
  <2>5. /\ PathTypeOK' /\ call'[c] = new
        /\ \A d \in Conns \ {c} : call'[d] = call[d]
    BY <2>3, <2>4 DEF PathTypeOK, PInv
  <2>6. /\ ~new.unread /\ new.phase = call[c].phase /\ new.reply = call[c].reply
        /\ new.answer = call[c].answer /\ new.acted = call[c].acted
    BY <1>t DEF Call
  <2> HIDE DEF new
  <2>7. Slot(c)'
    BY <2>2, <2>3, <2>5, <2>6, <1>t, NothingFacts DEF Slot, Gone, Calling
  <2>. QED  BY <2>2, <2>5, <2>7, SlotStep
<1>4. CASE Silent(c)
  <2>1. PICK k : conn' = [conn EXCEPT ![c] = k] /\ k.phase # "closed"
                 /\ (k.phase \in early => conn[c].phase \in early)
                 /\ conn[c].phase # "closed"
    <3>1. CASE Allow(c) \/ Claim(c) \/ RecordInProgress(c) \/ RecordCompleted(c)
      <4>1. conn[c].phase # "closed" /\ conn[c] \in Pending
        BY <3>1, <1>t, <1>c DEF Allow, Claim, RecordInProgress, RecordCompleted, At
      <4>2. PICK p \in {"ledger", "before", "synced1", "synced2"} :
              Go(c, p) /\ (p \in early => conn[c].phase \in early)
        BY <3>1 DEF Allow, Claim, RecordInProgress, RecordCompleted, At
      <4>3. /\ conn' = [conn EXCEPT ![c] = [conn[c] EXCEPT !.phase = p]]
            /\ [conn[c] EXCEPT !.phase = p].phase = p
        BY <4>2, <4>1 DEF Go, Pending
      <4>. QED  BY <4>1, <4>2, <4>3
    <3>2. CASE Observe(c)
      <4>1. [conn[c] EXCEPT !.phase = "put1", !.before = unit.inv].phase = "put1"
        BY <3>2, <1>t, <1>c DEF Observe, At, Pending
      <4>. QED  BY <3>2, <4>1 DEF Observe, At
    <3>3. CASE CommandReturns(c) \/ Inspect(c)
      <4>1. PICK p \in {"after", "put2"}, v \in {"success", "failed", "unknown"} :
              Decide(c, p, v)
        BY <3>3 DEF CommandReturns, Inspect
      <4>2. conn[c] \in Pending /\ conn[c].phase # "closed"
        BY <3>3, <1>t, <1>c DEF CommandReturns, Inspect, At
      <4>3. [conn[c] EXCEPT !.phase = p, !.verdict = v].phase = p
        BY <4>2 DEF Pending
      <4>. QED  BY <4>1, <4>2, <4>3 DEF Decide
    <3>. QED  BY <1>4, <3>1, <3>2, <3>3 DEF Silent
  <2>2. conn'[c] = k /\ \A d \in Conns \ {c} : conn'[d] = conn[d]
    BY <2>1 DEF PInv, TypeOK
  <2>. QED  BY <1>4, <2>1, <2>2, <1>2 DEF Silent
<1>5. CASE Act(c)
  <2> DEFINE new == [call[c] EXCEPT !.acted = TRUE]
  <2>1. call' = [call EXCEPT ![c] = new] /\ conn[c].phase = "synced1"
    BY <1>5 DEF Act, Command, At
  <2>2. new \in Call
    BY <1>t DEF Call
  <2>3. /\ PathTypeOK' /\ call'[c] = new
        /\ \A d \in Conns \ {c} : call'[d] = call[d]
    BY <2>1, <2>2 DEF PathTypeOK, PInv
  <2>4. /\ new.acted /\ new.phase = call[c].phase /\ new.reply = call[c].reply
        /\ new.answer = call[c].answer /\ new.unread = call[c].unread
    BY <1>t DEF Call
  <2>5. /\ conn'[c].phase = "restart"
        /\ \A d \in Conns \ {c} : conn'[d].phase = conn[d].phase
    BY <1>5, <1>t, <2>1, <1>c DEF Act, Command, Go, PInv, TypeOK, Pending
  <2> HIDE DEF new
  <2>6. Slot(c)'
    BY <2>1, <2>3, <2>4, <2>5, <1>t, NothingFacts DEF Slot, Gone, Calling
  <2>. QED  BY <2>3, <2>5, <2>6, SlotStep
<1>6. CASE TurnDown(c)
  <2>1. conn' = [conn EXCEPT ![c] = Closed] /\ conn[c].phase \in early
    BY <1>6 DEF TurnDown, Refuse, Unreadable, TurnAway, GiveUp, Reply, At
  <2>2. \A codes \in SUBSET {"PERMISSION_DENIED", "TOOL_BUSY",
                              "PRECONDITION_FAILED", "INTERNAL_ERROR"} :
          NotStarted(codes) \subseteq HelperReplies
    BY DEF HelperReplies, NotStarted
  <2>3. \E codes \in SUBSET {"PERMISSION_DENIED", "TOOL_BUSY",
                              "PRECONDITION_FAILED", "INTERNAL_ERROR"} :
          Post(c, NotStarted(codes))
    <3>1. {"PERMISSION_DENIED", "INTERNAL_ERROR"} \subseteq
            {"PERMISSION_DENIED", "TOOL_BUSY", "PRECONDITION_FAILED", "INTERNAL_ERROR"}
      OBVIOUS
    <3>. QED  BY <1>6, <3>1 DEF TurnDown
  <2>. QED  BY <2>1, <2>2, <2>3, <1>1
<1>7. CASE Return(c)
  <2>1. conn' = [conn EXCEPT ![c] = Closed] /\ conn[c].phase # "closed"
    BY <1>7 DEF Return, Replay, Finish, Doubt, Reply, At
  <2>2. CASE Replay(c) /\ ~SameRequest(c) /\ Post(c, NotStarted({"PRECONDITION_FAILED"}))
    <3>1. NotStarted({"PRECONDITION_FAILED"}) \subseteq HelperReplies
      BY DEF HelperReplies, NotStarted
    <3>2. conn[c].phase \in early
      BY <2>2 DEF Replay, At
    <3>. QED  BY <2>1, <2>2, <3>1, <3>2, <1>1
  <2>3. ASSUME NEW o \in {"success", "failed", "unknown"}, Post(c, {Answer("OK", o)})
        PROVE  PathTypeOK' /\ \A d \in Conns : Slot(d)'
    <3>1. {Answer("OK", o)} \subseteq HelperReplies
      BY DEF HelperReplies
    <3>2. \A r \in {Answer("OK", o)} : r.outcome # "not_started"
      BY DEF Answer
    <3>. QED  BY <2>1, <2>3, <3>1, <3>2, <1>1
  <2>4. CASE Replay(c) /\ SameRequest(c) /\ Post(c, {Answer("OK", ledger[Opn(c)].outcome)})
    <3>1. ledger[Opn(c)] \in Record
      BY <2>4, <2>1, OpenIsPending DEF Replay, Recorded, PInv, TypeOK
    <3>2. ledger[Opn(c)].outcome \in {"success", "failed", "unknown"}
      BY <3>1 DEF Record, InProgress, Completed
    <3>. QED  BY <2>3, <2>4, <3>2
  <2>5. CASE Finish(c) /\ Post(c, {Answer("OK", conn[c].verdict)})
    <3>1. conn[c].verdict \in {"success", "failed", "unknown"}
      BY <2>1, OpenIsPending DEF PInv, Pending
    <3>. QED  BY <2>3, <2>5, <3>1
  <2>6. CASE Doubt(c) /\ Post(c, {Answer("HOST_UNAVAILABLE", "unknown")})
    <3>1. {Answer("HOST_UNAVAILABLE", "unknown")} \subseteq HelperReplies
      BY DEF HelperReplies
    <3>2. \A r \in {Answer("HOST_UNAVAILABLE", "unknown")} : r.outcome # "not_started"
      BY DEF Answer
    <3>. QED  BY <2>1, <2>6, <3>1, <3>2, <1>1
  <2>. QED  BY <1>7, <2>2, <2>4, <2>5, <2>6 DEF Return
<1>. QED  BY <1>3, <1>4, <1>5, <1>6, <1>7 DEF Serve

LEMMA PathStep == PInv /\ [PathNext]_pathVars => PInv'
<1> SUFFICES ASSUME PInv, [PathNext]_pathVars PROVE PInv'
  OBVIOUS
<1>1. TypeOK'
  BY PathStepIsHelperStep, TypeStep DEF PInv
<1>2. ASSUME NEW c \in Conns, Client(c) \/ Serve(c) PROVE PInv'
  BY <1>1, <1>2, ClientStep, ServeStep DEF PInv
<1>3. CASE HelperDies
  <2>1. PICK lost \in SUBSET {c \in Conns : call[c].unread} :
          call' = [c \in Conns |->
                     [call[c] EXCEPT !.unread = @ /\ c \notin lost]]
    BY <1>3 DEF HelperDies
  <2>2. conn' = [c \in Conns |-> Closed] /\ Closed.phase = "closed"
    BY <1>3 DEF HelperDies, Crash, Closed
  <2>3. ASSUME NEW c \in Conns
        PROVE  /\ call'[c] \in Call
               /\ call'[c].unread => call[c].unread
               /\ call'[c].phase = call[c].phase /\ call'[c].reply = call[c].reply
               /\ call'[c].answer = call[c].answer /\ call'[c].acted = call[c].acted
    BY <2>1 DEF PInv, PathTypeOK, Call
  <2>4. PathTypeOK'
    BY <2>1, <2>3 DEF PathTypeOK
  <2>5. \A c \in Conns : Slot(c)'
    BY <2>2, <2>3 DEF PInv, Slot, Gone, Calling
  <2>. QED  BY <1>1, <2>4, <2>5 DEF PInv
<1>4. ASSUME Elsewhere \/ UNCHANGED pathVars PROVE PInv'
  <2>1. call' = call /\ conn' = conn
    BY <1>4 DEF Elsewhere, Start, JobRuns, UnitChanges, pathVars, vars
  <2>. QED  BY <1>1, <2>1 DEF PInv, PathTypeOK, Slot, Gone, Calling
<1>. QED  BY <1>2, <1>3, <1>4 DEF PathNext

LEMMA PathInductive == PathSpec => []PInv
<1>1. PathInit => PInv
  <2> SUFFICES ASSUME PathInit PROVE PInv
    OBVIOUS
  <2>1. TypeOK
    BY HelperAssumption DEF PathInit, Init, TypeOK, Unit
  <2>2. PICK r \in Requests : call = [c \in Conns |-> Dialled("idle", r)]
    BY DEF PathInit
  <2>3. Dialled("idle", r) \in Call
    BY DEF Dialled, Call
  <2>4. conn = [c \in Conns |-> Closed]
    BY DEF PathInit, Init
  <2>5. \A c \in Conns : Slot(c)
    BY <2>2, <2>4, NothingFacts DEF Slot, Dialled, Gone, Calling, Closed
  <2>. QED  BY <2>1, <2>2, <2>3, <2>5 DEF PInv, PathTypeOK
<1>. QED  BY <1>1, PathStep, PTL DEF PathSpec

-----------------------------------------------------------------------------
\* Each side keeps to its vocabulary of replies and answers.
THEOREM PathTypeCorrect == PathSpec => []PathTypeOK
BY PathInductive, PTL DEF PInv

\* An attempt answered "not_started" did not restart the unit, and nothing is
\* left of it that could.
THEOREM NotStartedIsSafe == PathSpec => []NotStartedIsExact
<1>1. PInv => NotStartedIsExact
  BY DEF PInv, Slot, NotStartedIsExact
<1>. QED  BY <1>1, PathInductive, PTL

\* Under every client, timer and crash the helper behaves as ActionHelper says:
\* what holds of it there holds of the composition.
THEOREM PathImplementsHelper == PathSpec => Spec
<1>1. PathInit => Init
  BY DEF PathInit
<1>2. PInv /\ [PathNext]_pathVars => [Next]_vars
  BY PathStepIsHelperStep DEF PInv
<1>. QED  BY <1>1, <1>2, PathInductive, PTL DEF PathSpec, Spec

\* However attempts are given up, repeated and left behind, one operation
\* restarts its unit at most once while its record is kept.
THEOREM PathRestartsOnce == PathSpec => []ExecutedOnce
BY PathImplementsHelper, AtMostOneRestart
=============================================================================
