----------------------------- MODULE MCInstall -----------------------------
(* Requests of InstallTransaction for TLC.                                 *)
EXTENDS InstallTransaction

AllRequests == Request
\* The release is installed again, or the agent is not running: recovery does
\* not have to restart what it has restored before.
Settled == {r \in Request : r.sameRelease \/ ~r.active}
\* Another release replaces that of a running agent.
Upgrades == {r \in Request : r.active /\ ~r.sameRelease}
=============================================================================
