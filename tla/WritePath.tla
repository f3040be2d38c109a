----------------------------- MODULE WritePath -----------------------------
(***************************************************************************)
(* A restart on its way from the agent to the helper and back: the socket  *)
(* client (actions/client.ts), the receipt's translation by the tool's     *)
(* handler (tools/index.ts), and the helper of ActionHelper at the other   *)
(* end.  Slot c stands for one connection: call[c] is the agent's side of  *)
(* it, conn[c] the helper's.                                               *)
(*                                                                         *)
(* systemd owns the listening socket: a connection is made, and the line   *)
(* written to it is kept, whether or not the helper runs.  The two sides   *)
(* part: the agent settles a call at its timer or its abort signal while   *)
(* the line is still unread or the helper is at work on it.                *)
(***************************************************************************)
EXTENDS ActionHelper

VARIABLE call

pathVars == <<vars, call>>

Answer(code, outcome) == [code |-> code, outcome |-> outcome]
Nothing == Answer("none", "none")
NotStarted(codes) == {Answer(code, "not_started") : code \in codes}

\* What the helper may write on a connection.
HelperReplies ==
  {Answer("OK", outcome) : outcome \in {"success", "failed", "unknown"}}
    \cup {Answer("HOST_UNAVAILABLE", "unknown")}
    \cup NotStarted({"PERMISSION_DENIED", "TOOL_BUSY", "PRECONDITION_FAILED",
                     "INTERNAL_ERROR"})

\* What an attempt may be answered with.
Answers ==
  {Answer("OK", "success"), Answer("HOST_UNAVAILABLE", "failed"),
   Answer("HOST_UNAVAILABLE", "unknown"), Answer("TOOL_TIMEOUT", "unknown")}
    \cup NotStarted({"TOOL_TIMEOUT", "HOST_UNAVAILABLE", "PERMISSION_DENIED",
                     "TOOL_BUSY", "PRECONDITION_FAILED", "INTERNAL_ERROR"})

\* unread: the line is in the socket, not yet read by the helper; reply: the
\* helper's, not yet read by the agent; acted: this attempt issued a restart.
Call == [phase : {"idle", "connecting", "waiting"}, request : Requests,
         unread : BOOLEAN, reply : {Nothing} \cup HelperReplies,
         answer : {Nothing} \cup Answers, acted : BOOLEAN]
Dialled(phase, r) ==
  [phase |-> phase, request |-> r, unread |-> FALSE, reply |-> Nothing,
   answer |-> Nothing, acted |-> FALSE]

PathInit ==
  /\ Init
  /\ \E r \in Requests : call = [c \in Conns |-> Dialled("idle", r)]

-----------------------------------------------------------------------------
(* The agent's side. *)

Calling(c) == call[c].phase # "idle"
Gone(c) == conn[c].phase = "closed" /\ ~call[c].unread

\* The executor's write gate has one slot.
Dial(c, r) ==
  /\ \A d \in Conns : ~Calling(d)
  /\ Gone(c)
  /\ call' = [call EXCEPT ![c] = Dialled("connecting", r)]
  /\ UNCHANGED vars

\* 'connect': requestSent is set and the line is written.
Connected(c) ==
  /\ call[c].phase = "connecting"
  /\ call' = [call EXCEPT ![c] = [@ EXCEPT !.phase = "waiting",
                                           !.unread = TRUE]]
  /\ UNCHANGED vars

\* finish() destroys the socket, which the helper sees if it reads from it.
Finished(c, answer) ==
  /\ call' = [call EXCEPT ![c] = [@ EXCEPT !.phase = "idle", !.reply = Nothing,
                                           !.answer = answer]]
  /\ IF running /\ conn[c].phase # "closed" /\ conn[c].peer
     THEN PeerLeaves(c) ELSE UNCHANGED vars

\* Variant the checks must reject: what was sent is forgotten.
SafeToRetry(c) == "not_started"

\* outcome() of the client.
Certainty(c) ==
  IF call[c].phase = "waiting" THEN "unknown" ELSE "not_started"

\* Variant the checks must reject: the timer is cleared by the connection.
ExpireConnecting(c) ==
  /\ call[c].phase = "connecting"
  /\ Finished(c, Answer("TOOL_TIMEOUT", Certainty(c)))

\* The 31 s timer, or the executor's abort signal at its deadline or at the end
\* of the session.
Expire(c) ==
  /\ Calling(c)
  /\ Finished(c, Answer("TOOL_TIMEOUT", Certainty(c)))

\* The connection is refused, or denied by the socket's mode.
ConnectFails(c) ==
  /\ call[c].phase = "connecting"
  /\ \E code \in {"HOST_UNAVAILABLE", "PERMISSION_DENIED"} :
       Finished(c, Answer(code, Certainty(c)))

\* The helper's process has died, with the connection and without a reply.
Break(c) ==
  /\ call[c].phase = "waiting" /\ call[c].reply = Nothing /\ Gone(c)
  /\ Finished(c, Answer("HOST_UNAVAILABLE", Certainty(c)))

\* Variant the checks must reject: a failed verification keeps its plain code.
VerdictUnmapped(reply) == reply

\* The client keeps "unknown" and reads every other error as not started; the
\* handler turns each receipt but a successful one into an error.
Verdict(reply) ==
  IF reply = Answer("OK", "success") THEN reply
  ELSE IF reply.code = "OK" THEN Answer("HOST_UNAVAILABLE", reply.outcome)
  ELSE Answer(reply.code, IF reply.outcome = "unknown"
                          THEN "unknown" ELSE "not_started")

Receive(c) ==
  /\ call[c].phase = "waiting" /\ call[c].reply # Nothing
  /\ Finished(c, Verdict(call[c].reply))

\* The agent's process dies: nobody is answered.
AgentDies(c) ==
  Calling(c) /\ Finished(c, Nothing)

-----------------------------------------------------------------------------
(* The helper's side: what it writes at each step of ActionHelper. *)

\* A reply to a sender who has left is lost.
Post(c, replies) ==
  \E reply \in replies :
    call' = [call EXCEPT ![c].reply = IF conn[c].peer THEN reply ELSE Nothing]

Deliver(c) ==
  /\ call[c].unread
  /\ Accept(c, call[c].request)
  /\ conn'[c].peer = (call[c].phase = "waiting")
  /\ call' = [call EXCEPT ![c].unread = FALSE]

Silent(c) ==
  /\ \/ Allow(c) \/ Claim(c) \/ Observe(c) \/ RecordInProgress(c)
     \/ CommandReturns(c) \/ Inspect(c) \/ RecordCompleted(c)
  /\ UNCHANGED call

Act(c) == Command(c) /\ call' = [call EXCEPT ![c].acted = TRUE]

TurnDown(c) ==
  \/ Refuse(c) /\ Post(c, NotStarted({"PERMISSION_DENIED", "INTERNAL_ERROR"}))
  \/ Unreadable(c) /\ Post(c, NotStarted({"INTERNAL_ERROR"}))
  \/ TurnAway(c) /\ Post(c, NotStarted({"TOOL_BUSY"}))
  \/ /\ GiveUp(c)
     /\ Post(c, NotStarted(
          IF conn[c].phase = "before" /\ ~Matches(conn[c].request, unit)
          THEN {"PRECONDITION_FAILED"} ELSE {"INTERNAL_ERROR"}))

Return(c) ==
  \/ /\ Replay(c)
     /\ Post(c, IF SameRequest(c)
                THEN {Answer("OK", ledger[Opn(c)].outcome)}
                ELSE NotStarted({"PRECONDITION_FAILED"}))
  \/ Finish(c) /\ Post(c, {Answer("OK", conn[c].verdict)})
  \/ Doubt(c) /\ Post(c, {Answer("HOST_UNAVAILABLE", "unknown")})

\* Connections the process had accepted without reading from them die with it;
\* those still in the queue of systemd's socket do not.
HelperDies ==
  /\ Crash
  /\ \E lost \in SUBSET {c \in Conns : call[c].unread} :
       call' = [c \in Conns |->
                  [call[c] EXCEPT !.unread = @ /\ c \notin lost]]

Elsewhere == (Start \/ JobRuns \/ UnitChanges) /\ UNCHANGED call

Client(c) ==
  \/ \E r \in Requests : Dial(c, r)
  \/ Connected(c) \/ Expire(c) \/ ConnectFails(c) \/ Break(c)
  \/ Receive(c) \/ AgentDies(c)
Serve(c) == Deliver(c) \/ Silent(c) \/ Act(c) \/ TurnDown(c) \/ Return(c)

PathNext ==
  \/ \E c \in Conns : Client(c) \/ Serve(c)
  \/ HelperDies \/ Elsewhere

\* Only the client's timer is relied on: nothing of the helper or the socket.
PathSpec ==
  /\ PathInit /\ [][PathNext]_pathVars
  /\ \A c \in Conns : WF_pathVars(Expire(c))

-----------------------------------------------------------------------------
(* Properties. *)

\* Each side keeps to its vocabulary of replies and answers, which is what the
\* executor takes its decisions on.
PathTypeOK == call \in [Conns -> Call]

\* "not_started" is exact for the attempt it answers, whichever of the timer,
\* the abort, a connection error and the helper's reply came first: that
\* attempt has not restarted the unit and nothing of it is left, unread or in
\* the helper, that still could.  The router lets a caller retry on it.
NotStartedIsExact ==
  \A c \in Conns : call[c].answer.outcome = "not_started" =>
    ~call[c].acted /\ Gone(c)

\* A call never waits for a helper that is down, stuck or gone: its slot of the
\* write gate is released.
CallEnds == \A c \in Conns : Calling(c) ~> ~Calling(c)

=============================================================================
