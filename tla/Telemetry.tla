----------------------------- MODULE Telemetry -----------------------------
(***************************************************************************)
(* The lifecycle manager with its snapshot manager: a session that becomes *)
(* ready starts telemetry and the end of a session stops it.  The steps of *)
(* collect() interleave with those of the connection.                      *)
(***************************************************************************)
EXTENDS Lifecycle

CONSTANT Jobs

VARIABLES inFlight, pending, job, begun

telemetry == <<inFlight, pending, job, begun>>
allvars == <<vars, telemetry>>

Snapshots == INSTANCE SnapshotManager WITH active <- session.telemetry

TelemetryInit == Init /\ Snapshots!Init

\* Each clearSession() calls stop(); when nothing is active that changes
\* nothing.
Coupled ==
  IF process' = "down" THEN Snapshots!Reset
  ELSE IF session'.telemetry = session.telemetry THEN UNCHANGED telemetry
  ELSE IF session'.telemetry THEN Snapshots!Start ELSE Snapshots!Stop

Collecting ==
  /\ process # "down"
  /\ UNCHANGED vars
  /\ \/ Snapshots!Ask("interval") \/ Snapshots!Ask("manual")
     \/ \E j \in Jobs : Snapshots!Collected(j) \/ Snapshots!Compressed(j)

TelemetryNext == (Next /\ Coupled) \/ Collecting

TelemetrySpec == TelemetryInit /\ [][TelemetryNext]_allvars

\* Collectors settle (commands are killed at their timeouts) and gzip returns.
TelemetryFairSpec ==
  TelemetrySpec /\ Fairness /\ \A j \in Jobs :
    /\ WF_allvars(UNCHANGED vars /\ process # "down" /\ Snapshots!Collected(j))
    /\ WF_allvars(UNCHANGED vars /\ process # "down" /\ Snapshots!Compressed(j))

-----------------------------------------------------------------------------
(* Properties. *)

\* Every variable keeps its type.
TelemetryTypeOK == TypeOK /\ Snapshots!TypeOK

\* At most one collection of the host runs at a time, across sessions.
OneCollection == Snapshots!OneCollection

\* A coalesced request is kept only while a collection of the same session, or
\* one before it, is under way that will serve it.
NoLostRequest == Snapshots!NoLostRequest

\* Together: through the ends and starts of sessions one collection runs at a
\* time and serves whoever asked meanwhile (snapshot-manager.ts:39-43, 97-102).
CollectionsShared == OneCollection /\ NoLostRequest

\* Whatever the connection does, it starts and stops telemetry in the pattern
\* the snapshot manager is written for: never started twice without a stop.
KeepsSnapshotContract == Snapshots!Spec

\* Every session gets a collection of its own, even if it becomes ready while
\* one of an earlier session is still running.
SessionCollects == session.telemetry ~> begun \/ ~session.telemetry
=============================================================================
