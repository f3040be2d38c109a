--------------------------- MODULE RestartPromise ---------------------------
(***************************************************************************)
(* What the action helper promises its callers about one operation ID, in  *)
(* the words of docs: it "persists in_progress, performs one restart" and  *)
(* "the same operation ID returns the stored receipt".  An operation moves *)
(* from fresh to claimed (recorded, nothing done), commanded (its one      *)
(* restart was issued) and settled (its verdict is fixed); it becomes      *)
(* fresh again only by retiring its record.                                *)
(***************************************************************************)
CONSTANT Ops

VARIABLES
  stage,      \* how far each operation has got
  verdict,    \* the settled receipt's outcome
  answered    \* definite outcomes its senders were told

vars == <<stage, verdict, answered>>
Definite == {"success", "failed"}

Init ==
  /\ stage = [o \in Ops |-> "fresh"]
  /\ verdict = [o \in Ops |-> "none"]
  /\ answered = [o \in Ops |-> {}]

Claim(o) ==
  /\ stage[o] \in {"fresh", "claimed"}
  /\ stage' = [stage EXCEPT ![o] = "claimed"]
  /\ verdict' = [verdict EXCEPT ![o] = "unknown"]
  /\ UNCHANGED answered

Command(o) ==
  /\ stage[o] = "claimed"
  /\ stage' = [stage EXCEPT ![o] = "commanded"]
  /\ UNCHANGED <<verdict, answered>>

Settle(o) ==
  /\ stage[o] = "commanded"
  /\ stage' = [stage EXCEPT ![o] = "settled"]
  /\ \E v \in Definite \cup {"unknown"} :
       verdict' = [verdict EXCEPT ![o] = v]
  /\ UNCHANGED answered

Answer(o) ==
  /\ stage[o] = "settled" /\ verdict[o] \in Definite
  /\ answered' = [answered EXCEPT ![o] = {verdict[o]}]
  /\ UNCHANGED <<stage, verdict>>

\* One prune retires any set of records, and may answer one operation.
Retire(gone) ==
  /\ stage' = [o \in Ops |-> IF o \in gone THEN "fresh" ELSE stage[o]]
  /\ verdict' = [o \in Ops |-> IF o \in gone THEN "none" ELSE verdict[o]]
  /\ \E told \in SUBSET (Ops \ gone) :
       /\ \A o \in told : stage[o] = "settled" /\ verdict[o] \in Definite
       /\ answered' = [o \in Ops |-> IF o \in gone THEN {}
                         ELSE IF o \in told THEN {verdict[o]} ELSE answered[o]]

Next ==
  \/ \E o \in Ops : Claim(o) \/ Command(o) \/ Settle(o) \/ Answer(o)
  \/ \E gone \in SUBSET Ops : Retire(gone)

Spec == Init /\ [][Next]_vars
=============================================================================
