--------------------------- MODULE MCToolExecutor ---------------------------
(* Instances of the executor: one slot per gate, a queue shared by both. *)
EXTENDS ToolExecutor

CONSTANTS MaxGeneration

MCGenerations == 1 .. MaxGeneration
MCConcurrency == [k \in Kinds |-> 1]
Symmetry == Permutations(Calls)
Fails(outcome) == Response("HOST_UNAVAILABLE", outcome)
MCResults ==
  [read |-> {Response("OK", "none"), Fails("none")},
   write |-> {Response("OK", "none"), Fails("failed"), Fails("none"),
              Response("TOOL_BUSY", "not_started")}]
MCFewResults == [k \in Kinds |-> {Response("OK", "none")}]
=============================================================================
