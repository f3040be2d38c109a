----------------------------- MODULE Lifecycle -----------------------------
(***************************************************************************)
(* The agent's connection to the control plane: the WebSocket with its     *)
(* ping and reconnect timers (transport/websocket-client.ts) under the     *)
(* lifecycle manager that authenticates each connection and starts and     *)
(* revokes its session (core/lifecycle.ts), in the process that records    *)
(* readiness in a marker file (index.ts).                                  *)
(*                                                                         *)
(* Every connection change increments the generation counter.  A number an *)
(* asynchronous operation has captured is only ever compared with the      *)
(* current one, and is never current again, so the counter is abstracted   *)
(* to the age of what was captured: "current", or "stale" once the counter *)
(* has moved on.  No bound on the number of connections is needed.         *)
(***************************************************************************)
EXTENDS Naturals

CONSTANTS
  BackoffCap,   \* attempts after which the reconnect delay stays at 15 s
  MaxStrays     \* bound: provisional timers of earlier connections pending

ASSUME LifecycleAssumption ==
  BackoffCap \in Nat \ {0} /\ MaxStrays \in Nat \ {0}

VARIABLES
  process,       \* "down", "running", or "stopping" after SIGTERM
  writeEnabled,  \* config.writeEnabled of this process
  socket,        \* WebSocketClient.socket
  ping,          \* pingTimer is set
  pong,          \* pongDeadline is set
  reconnect,     \* reconnectTimer is set
  attempts,      \* WebSocketClient.attempts, up to BackoffCap
  opening,       \* ages of the open() calls awaiting helper capabilities
  offer,         \* the handshake sent on this connection, and helperReady
  deadline,      \* handshakeDeadline is set
  session,       \* ready, and what a session starts
  replying,      \* ages of the message() calls awaiting the router
  provisional,   \* this connection's provisional response set its timer
  strays,        \* number of provisional timers of earlier connections
  marker         \* /run/acornops-agentv/authenticated exists

owner == <<process, writeEnabled>>
transport == <<socket, ping, pong, reconnect, attempts>>
handshake == <<opening, offer, deadline>>
leftover == <<provisional, strays>>
vars == <<owner, transport, handshake, session, replying, leftover, marker>>

Ages == {"current", "stale"}
Aged(ages) == IF ages = {} THEN {} ELSE {"stale"}
Grants == {"read", "write"}
\* The router's policy, the heartbeat interval and the snapshot manager.
NoSession ==
  [ready |-> FALSE, grant |-> "none", heartbeat |-> FALSE, telemetry |-> FALSE]
Session(grant) ==
  [ready |-> TRUE, grant |-> grant, heartbeat |-> TRUE, telemetry |-> TRUE]

running == process = "running"
IsOpen == socket = "open"
Least(m, n) == IF m < n THEN m ELSE n

Init ==
  /\ process = "down" /\ writeEnabled = FALSE
  /\ socket = "none" /\ attempts = 0
  /\ ping = FALSE /\ pong = FALSE /\ reconnect = FALSE
  /\ deadline = FALSE /\ provisional = FALSE
  /\ opening = {} /\ offer = "none" /\ session = NoSession
  /\ replying = {} /\ strays = 0
  /\ marker \in BOOLEAN

-----------------------------------------------------------------------------
(* Ending a connection. *)

\* generation++: everything captured before is stale.  "left" is what remains
\* of the pending operations when the one that ends here has been taken out,
\* "new" the open() calls the new generation has.
NextGeneration(left, new) ==
  /\ opening' = Aged(left.opening) \cup new
  /\ replying' = Aged(left.replying)
  /\ strays' = left.strays + (IF left.provisional THEN 1 ELSE 0)
  /\ provisional' = FALSE
Pending == [opening |-> opening, replying |-> replying,
            provisional |-> provisional, strays |-> strays]

\* Variants the checks must reject: telemetry, the handshake deadline or the
\* marker outlives the session.
ClearAllButTelemetry ==
  /\ session' = [NoSession EXCEPT !.telemetry = session.telemetry]
  /\ deadline' = FALSE
  /\ marker' = FALSE
ClearAllButDeadline ==
  session' = NoSession /\ marker' = FALSE /\ UNCHANGED deadline
ClearAllButMarker ==
  session' = NoSession /\ deadline' = FALSE /\ UNCHANGED marker

ClearSession ==
  /\ session' = NoSession
  /\ deadline' = FALSE
  /\ marker' = FALSE

\* Variant the checks must reject: no attempt once the delay is at its cap.
ScheduleUntilCap ==
  IF reconnect \/ attempts = BackoffCap THEN UNCHANGED <<reconnect, attempts>>
  ELSE /\ reconnect' = TRUE
       /\ attempts' = Least(attempts + 1, BackoffCap)

ScheduleReconnect ==
  IF reconnect THEN UNCHANGED <<reconnect, attempts>>
  ELSE /\ reconnect' = TRUE
       /\ attempts' = Least(attempts + 1, BackoffCap)

\* forceReconnect(), and the 'close' event of the current socket: both drop the
\* socket and its ping timers, end the session and schedule a reconnect.
Lose(left) ==
  /\ socket' = "none" /\ ping' = FALSE /\ pong' = FALSE
  /\ offer' = "none"
  /\ NextGeneration(left, {})
  /\ ClearSession
  /\ ScheduleReconnect
  /\ UNCHANGED <<owner>>
LoseConnection == Lose(Pending)

-----------------------------------------------------------------------------
(* The process. *)

Forget ==
  /\ ping' = FALSE /\ pong' = FALSE /\ reconnect' = FALSE
  /\ opening' = {} /\ offer' = "none" /\ deadline' = FALSE
  /\ session' = NoSession /\ replying' = {} /\ provisional' = FALSE
  /\ strays' = 0

\* A new process reads its configuration, clears the marker and connects.
Start ==
  /\ process = "down"
  /\ process' = "running" /\ writeEnabled' \in BOOLEAN
  /\ socket' = "connecting" /\ attempts' = 0 /\ marker' = FALSE
  /\ Forget

\* SIGTERM: stop() revokes the session and closes the transport.
Stop ==
  /\ running
  /\ process' = "stopping"
  /\ socket' = "none" /\ ping' = FALSE /\ pong' = FALSE /\ reconnect' = FALSE
  /\ offer' = "none"
  /\ NextGeneration(Pending, {})
  /\ ClearSession
  /\ UNCHANGED <<writeEnabled, attempts>>

\* The process exits after a stop, or dies; only the marker file is left.
Exit ==
  /\ process # "down"
  /\ process' = "down" /\ writeEnabled' = FALSE
  /\ socket' = "none" /\ attempts' = 0
  /\ Forget
  /\ UNCHANGED marker

-----------------------------------------------------------------------------
(* A connection up to its handshake. *)

\* Variant the checks must reject: the fired timer's reference is kept.
ReconnectTimerKept ==
  /\ reconnect
  /\ socket' = "connecting"
  /\ UNCHANGED <<owner, ping, pong, reconnect, attempts, handshake, session,
                 replying, leftover, marker>>

\* connect(), from the reconnect timer: an existing socket is left alone.
ReconnectTimer ==
  /\ reconnect
  /\ reconnect' = FALSE
  /\ socket' = IF socket = "none" THEN "connecting" ELSE socket
  /\ UNCHANGED <<owner, ping, pong, attempts, handshake, session, replying,
                 leftover, marker>>

\* Variant the checks must reject: an open socket resets the backoff.
OpenedResets ==
  /\ socket = "connecting"
  /\ socket' = "open" /\ ping' = TRUE /\ pong' = FALSE /\ attempts' = 0
  /\ NextGeneration(Pending, IF writeEnabled THEN {"current"} ELSE {})
  /\ session' = NoSession /\ marker' = FALSE
  /\ deadline' = ~writeEnabled
  /\ offer' = IF writeEnabled THEN "none" ELSE "read"
  /\ UNCHANGED <<owner, reconnect>>

\* The connect attempt succeeds: 'open' starts the pings and a generation.
\* Without local writes nothing is awaited and the handshake follows at once.
Opened ==
  /\ socket = "connecting"
  /\ socket' = "open" /\ ping' = TRUE /\ pong' = FALSE
  /\ NextGeneration(Pending, IF writeEnabled THEN {"current"} ELSE {})
  /\ session' = NoSession /\ marker' = FALSE
  /\ deadline' = ~writeEnabled
  /\ offer' = IF writeEnabled THEN "none" ELSE "read"
  /\ UNCHANGED <<owner, reconnect, attempts>>

\* capabilities() answers or fails, within its two seconds, and the handshake
\* goes out with its deadline: the outbound buffer of a connection that has
\* sent nothing has room for it.
Offer(capability) ==
  /\ offer' = capability /\ deadline' = TRUE
  /\ opening' = opening \ {"current"}
  /\ UNCHANGED <<owner, transport, session, replying, leftover, marker>>

\* An open() that is stale, or whose connection is closing, gives up.
GiveUp(age) ==
  /\ opening' = opening \ {age}
  /\ UNCHANGED <<owner, transport, offer, deadline, session, replying,
                 leftover, marker>>

\* Variant the checks must reject: the generation is not compared.
CapabilitiesAnyway(age) ==
  /\ age \in opening
  /\ opening' = opening \ {age}
  /\ IF IsOpen THEN offer' \in Grants /\ deadline' = TRUE
     ELSE UNCHANGED <<offer, deadline>>
  /\ UNCHANGED <<owner, transport, session, replying, leftover, marker>>

CapabilitiesReturn(age) ==
  /\ age \in opening
  /\ IF age = "current" /\ IsOpen THEN \E grant \in Grants : Offer(grant)
     ELSE GiveUp(age)

HandshakeDeadline == deadline /\ LoseConnection

-----------------------------------------------------------------------------
(* Messages.  The control plane answers a handshake at most once. *)

HandshakeDue == IsOpen /\ ~session.ready /\ deadline

\* Variant the checks must reject: the helper is not asked for.
AcceptRemoteGrant(remoteWrite) ==
  /\ HandshakeDue
  /\ session' = Session(IF writeEnabled /\ remoteWrite THEN "write" ELSE "read")
  /\ deadline' = FALSE
  /\ attempts' = 0
  /\ marker' \in {TRUE, marker}
  /\ UNCHANGED <<owner, socket, ping, pong, reconnect, opening, offer,
                 replying, leftover>>

\* Writes need local configuration, the helper of this connection and the
\* control plane's grant.  Recording readiness may fail and is only logged.
Accept(remoteWrite) ==
  /\ HandshakeDue
  /\ session' = Session(IF writeEnabled /\ offer = "write" /\ remoteWrite
                        THEN "write" ELSE "read")
  /\ deadline' = FALSE
  /\ attempts' = 0
  /\ marker' \in {TRUE, marker}
  /\ UNCHANGED <<owner, socket, ping, pong, reconnect, opening, offer,
                 replying, leftover>>

\* Variant the checks must reject: a provisional connection waits for the peer.
ProvisionalWaits ==
  /\ HandshakeDue
  /\ deadline' = FALSE
  /\ UNCHANGED <<owner, transport, opening, offer, session, replying, leftover,
                 marker>>

\* A provisional response only sets a one-second timer.
AcceptProvisional ==
  /\ HandshakeDue
  /\ strays < MaxStrays
  /\ deadline' = FALSE
  /\ provisional' = TRUE
  /\ UNCHANGED <<owner, transport, opening, offer, session, replying, strays,
                 marker>>

\* Malformed JSON at any time; before readiness anything but an acceptable
\* handshake response.
Reject == running /\ IsOpen /\ LoseConnection

\* A request is routed; the response is awaited.  (Invalid requests are
\* answered at once.)
Request ==
  /\ IsOpen /\ session.ready
  /\ replying' = replying \cup {"current"}
  /\ UNCHANGED <<owner, transport, handshake, session, leftover, marker>>

\* The router's response is sent if its connection is still the session's;
\* other requests of that age may still be pending.
Respond(age) ==
  /\ age \in replying
  /\ age = "current" => IsOpen
  /\ replying' \in {replying, replying \ {age}}
  /\ UNCHANGED <<owner, transport, handshake, session, leftover, marker>>

\* It does not fit the outbound buffer, or the socket is closing.
RespondFails ==
  /\ "current" \in replying /\ session.ready
  /\ \E rest \in {replying, replying \ {"current"}} :
       Lose([Pending EXCEPT !.replying = rest])

-----------------------------------------------------------------------------
(* Timers and the network. *)

\* The timer of a provisional response forces a reconnect: it is neither kept
\* nor tied to the connection that set it.
ProvisionalTimer ==
  /\ provisional
  /\ Lose([Pending EXCEPT !.provisional = FALSE])

StrayTimer ==
  /\ strays > 0
  /\ IF running
     THEN Lose([Pending EXCEPT !.strays = @ - 1])
     ELSE /\ strays' = strays - 1
          /\ UNCHANGED <<owner, transport, handshake, session, replying,
                         provisional, marker>>

\* A heartbeat, or the reply to an invalid request, that cannot be sent.
SendFails == session.ready /\ LoseConnection

\* Variant the checks must reject: a ping without a deadline for its pong.
PingOnly == ping /\ IsOpen /\ UNCHANGED vars

Ping ==
  /\ ping /\ IsOpen
  /\ pong' = TRUE
  /\ UNCHANGED <<owner, socket, ping, reconnect, attempts, handshake, session,
                 replying, leftover, marker>>

PongArrives ==
  /\ pong
  /\ pong' = FALSE
  /\ UNCHANGED <<owner, socket, ping, reconnect, attempts, handshake, session,
                 replying, leftover, marker>>

PongDeadline == pong /\ LoseConnection

\* The connect attempt fails with an error, then a 'close' event.
ConnectFails == socket = "connecting" /\ LoseConnection

\* A close frame or an error: the socket is no longer OPEN, 'close' follows.
PeerCloses ==
  /\ IsOpen
  /\ socket' = "closing"
  /\ UNCHANGED <<owner, ping, pong, reconnect, attempts, handshake, session,
                 replying, leftover, marker>>

Closed == socket = "closing" /\ LoseConnection

Next ==
  \/ Start \/ Stop \/ Exit
  \/ ReconnectTimer \/ Opened \/ ConnectFails
  \/ \E age \in Ages : CapabilitiesReturn(age) \/ Respond(age)
  \/ HandshakeDeadline \/ AcceptProvisional \/ Reject
  \/ Request \/ RespondFails
  \/ \E w \in BOOLEAN : Accept(w)
  \/ ProvisionalTimer \/ StrayTimer \/ SendFails
  \/ Ping \/ PongArrives \/ PongDeadline \/ PeerCloses \/ Closed

Spec == Init /\ [][Next]_vars

\* Timers fire, the helper client's two-second deadline and the WebSocket
\* closing handshake end, and systemd restarts the process (Restart=always).
Fairness ==
  /\ WF_vars(Start) /\ WF_vars(process = "stopping" /\ Exit)
  /\ WF_vars(ReconnectTimer) /\ WF_vars(HandshakeDeadline)
  /\ \A age \in Ages : WF_vars(CapabilitiesReturn(age))
  /\ WF_vars(ProvisionalTimer) /\ WF_vars(StrayTimer)
  /\ WF_vars(Ping) /\ WF_vars(PongDeadline) /\ WF_vars(Closed)

FairSpec == Spec /\ Fairness

\* From some time on nothing goes wrong, and the control plane accepts
\* connections and handshakes within their deadlines.
Disturbance ==
  \/ Stop \/ Exit \/ ConnectFails \/ PeerCloses \/ Reject
  \/ SendFails \/ RespondFails
  \/ HandshakeDeadline \/ PongDeadline \/ AcceptProvisional
Calm ==
  /\ WF_vars(Opened) /\ WF_vars(\E w \in BOOLEAN : Accept(w))
  /\ <>[][~Disturbance]_vars

-----------------------------------------------------------------------------
(* Properties. *)

\* Every variable keeps its type.
TypeOK ==
  /\ process \in {"down", "running", "stopping"} /\ writeEnabled \in BOOLEAN
  /\ socket \in {"none", "connecting", "open", "closing"}
  /\ ping \in BOOLEAN /\ pong \in BOOLEAN /\ reconnect \in BOOLEAN
  /\ attempts \in 0 .. BackoffCap
  /\ opening \subseteq Ages /\ replying \subseteq Ages
  /\ offer \in {"none"} \cup Grants /\ deadline \in BOOLEAN
  /\ session \in {NoSession} \cup {Session(grant) : grant \in Grants}
  /\ provisional \in BOOLEAN /\ strays \in 0 .. MaxStrays
  /\ marker \in BOOLEAN

\* A running agent either has a socket or a reconnect timer, never both and
\* never neither: no order of forced and natural closes leaves it cut off, or
\* connects it twice (websocket-client.ts:21-81).
AlwaysReconnecting ==
  /\ running => (socket = "none" <=> reconnect)
  /\ ~running => socket = "none" /\ ~reconnect

\* Timers belong to the connection that is up: pings run exactly while a socket
\* is open or closing, and a handshake deadline is pending only for a handshake
\* that connection sent and that is unanswered (lifecycle.ts:77, 139).
TimersOwned ==
  /\ ping <=> socket \in {"open", "closing"}
  /\ pong => ping
  /\ deadline => ping /\ offer # "none" /\ ~session.ready /\ ~provisional
  /\ "current" \in opening => ping /\ offer = "none"

\* Tools, heartbeats and telemetry exist only on a connection that is up, has
\* sent its handshake and has a final answer; writes only if this connection's
\* handshake advertised the helper (lifecycle.ts:128-130).
SessionEarned ==
  session.ready =>
    /\ socket \in {"open", "closing"} /\ offer # "none"
    /\ ~deadline /\ ~provisional
    /\ session.grant = "write" => writeEnabled /\ offer = "write"

\* While the agent runs, the marker the installer waits for exists only if the
\* present connection is authenticated, whatever an earlier process left.
MarkerTruthful == process # "down" /\ marker => running /\ session.ready

\* The backoff is reset only by an authenticated session or a new process: a
\* control plane that accepts connections and rejects them is not hammered.
BackoffHolds ==
  [][attempts' < attempts => session'.ready \/ process' # process]_vars

\* A connection that opens is authenticated, or given up: there is no state
\* between opening and readiness in which nothing is pending.
OpenedIsDecided == IsOpen ~> (session.ready \/ ~IsOpen)

\* A peer that no longer answers pings does not keep its session.
SilentPeerDropped ==
  <>[][~PongArrives]_vars => []<>(~IsOpen)

\* Once disturbances cease the agent is authenticated for good.
EventuallyReady == Calm => <>[](session.ready)

\* A session the control plane has committed is not dropped by the provisional
\* response an earlier connection received.
CommittedStaysUp ==
  [][StrayTimer /\ session.ready => session'.ready]_vars

\* A connection attempt ends: in an open connection or in a retry.
ConnectingEnds == socket = "connecting" ~> socket # "connecting"
=============================================================================
