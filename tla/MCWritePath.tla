---------------------------- MODULE MCWritePath ----------------------------
(* Two connections and one operation, sent with two argument sets. *)
EXTENDS WritePath

CONSTANTS o1, MaxInvocation

MCInvocations == 0 .. MaxInvocation
MCPathRequests ==
  {[op |-> o1, active |-> TRUE, invs |-> {0}],
   [op |-> o1, active |-> TRUE, invs |-> MCInvocations]}
=============================================================================
