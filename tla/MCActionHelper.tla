--------------------------- MODULE MCActionHelper ---------------------------
(* The action helper with two operations over one unit.  The first operation
   ID is sent with two different argument sets. *)
EXTENDS ActionHelper, TLC

CONSTANTS o1, o2, MaxInvocation

MCInvocations == 0 .. MaxInvocation
Symmetry == Permutations(Conns)
MCRequests ==
  {[op |-> o1, active |-> TRUE, invs |-> {0}],
   [op |-> o1, active |-> TRUE, invs |-> {1}],
   [op |-> o2, active |-> TRUE, invs |-> MCInvocations]}
MCFewRequests == {r \in MCRequests : 0 \in r.invs}
=============================================================================
