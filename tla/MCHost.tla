------------------------------- MODULE MCHost -------------------------------
(***************************************************************************)
(* Instances of the models of what the agent reads of its host, how it     *)
(* makes it fit and within which limits: HostReads, SnapshotTrim,          *)
(* LogPaging, ModelContext and SessionLimits.  They share no state; a      *)
(* behaviour is one of the machine its initial state chooses, and the      *)
(* others stay in a state in which they have nothing to do.                *)
(***************************************************************************)
EXTENDS HostReads, SnapshotTrim, LogPaging, ModelContext, SessionLimits, TLC

CONSTANTS r1, r2

\* Two reads: one of any kind and one that waits for the same lookup of ss.
MCReads == {r1, r2}
MCKinds == (r1 :> AllKinds) @@ (r2 :> {"listeners"})

\* Entries of two sizes, one of which causes a finding.
Plain == [bytes |-> 1, finding |-> 0]
Grave == [bytes |-> 2, finding |-> 1]
MCMatching == {<<>>, <<Plain>>, <<Grave>>, <<Plain, Grave>>,
               <<Grave, Grave, Plain>>}

\* Results of up to five members: strings that fit both passes, one or none,
\* arrays of them shorter and longer than the limits, and one too deep.
LimitsOf(s, a, o) ==
  [kind \in Bounded |-> IF kind = "string" THEN s ELSE IF kind = "array" THEN a ELSE o]
MCLoose == LimitsOf(4, 3, 4)
MCTight == LimitsOf(2, 2, 3)

\* Trees, and their members with the paths that lead to them.
Text(n) == [kind |-> "string", chars |-> n, kids |-> <<>>]
Node(kind, kids) == [kind |-> kind, chars |-> 0, kids |-> kids]
RECURSIVE MembersOf(_, _)
MembersOf(tree, path) ==
  FlattenSeq([i \in DOMAIN tree.kids |-> MembersOf(tree.kids[i], Append(path, i))])
    \o <<[path |-> path, kind |-> tree.kind,
         extent |-> IF tree.kind = "string" THEN tree.chars ELSE Len(tree.kids)]>>
MCTexts == {Text(n) : n \in {1, 3, 6}}
MCArrays == {Node("array", [i \in 1 .. n |-> t]) : n \in 0 .. 4, t \in MCTexts}
Deep == Node("array", <<Node("array", <<Text(1)>>)>>)
MCTrees ==
  {Node("object", <<x, y>>) :
     x \in MCArrays \cup MCTexts, y \in MCArrays \cup MCTexts \cup {Deep}}
  \cup {Node("object", [i \in 1 .. 5 |-> t]) : t \in MCTexts}
  \cup {Node("object", <<x, y, x, z, y>>) :
          x \in MCTexts, y \in MCArrays, z \in MCTexts}
MCResults == {MembersOf(tree, <<>>) : tree \in MCTrees}

\* Settings below, at, between and above the bounds; one limit is set at a
\* time, since no check relates the two.  The interval's unit is 2.
MCSettings == {Unset} \cup {[set |-> TRUE, to |-> n] : n \in {1, 2, 3, 5, 7}}
MCRanges == [min : MCSettings, max : MCSettings, value : MCSettings]
MCUnset == [min |-> Unset, max |-> Unset, value |-> Unset]
MCLimits == {"interval", "bytes"}
MCBounds ==
  ("interval" :> [floor |-> 2, min |-> 2, highest |-> 3, value |-> 4, max |-> 6,
                  ceiling |-> 7]) @@
  ("bytes" :> [floor |-> 1, min |-> 2, highest |-> 3, value |-> 3, max |-> 3,
               ceiling |-> 6])
MCUnit == ("interval" :> 2) @@ ("bytes" :> 1)
MCEnvironments ==
  {[l \in MCLimits |-> IF l = one THEN range ELSE MCUnset] :
     one \in MCLimits, range \in MCRanges}
MCRemotes ==
  {[l \in MCLimits |-> IF l = one THEN to ELSE Unset] :
     one \in MCLimits, to \in MCSettings}

VARIABLE machine

ReadsParked == up = FALSE /\ ss = "pending" /\ read = [r \in Reads |-> NoRead]
TrimParked ==
  /\ found = [i \in Places |-> <<>>] /\ kept = found
  /\ omitted = [i \in Places |-> 0] /\ required = 0 /\ phase = "dropped"
PagingParked ==
  /\ journal = <<>> /\ first = 0 /\ cursor = 0
  /\ page = NoPage /\ got = <<>> /\ reading = FALSE

ContextParked ==
  /\ source = Marker /\ data = source
  /\ omissions = <<>> /\ counted = 0 /\ pass = "done"

MCInit ==
  \/ /\ machine = "reads"
     /\ ReadsInit /\ TrimParked /\ PagingParked /\ ContextParked /\ LimitsInit
  \/ /\ machine = "trim"
     /\ ReadsParked /\ TrimInit /\ PagingParked /\ ContextParked /\ LimitsInit
  \/ /\ machine = "paging"
     /\ ReadsParked /\ TrimParked /\ PagingInit /\ ContextParked /\ LimitsInit
  \/ /\ machine = "context"
     /\ ReadsParked /\ TrimParked /\ PagingParked /\ ContextInit /\ LimitsInit
  \/ /\ machine = "limits"
     /\ ReadsParked /\ TrimParked /\ PagingParked /\ ContextParked /\ LimitsInit

MCNext ==
  /\ UNCHANGED machine
  /\ \/ machine = "reads" /\ ReadsNext
        /\ UNCHANGED <<trimVars, pagingVars, contextVars, limitsVars>>
     \/ machine = "trim" /\ TrimNext
        /\ UNCHANGED <<readVars, pagingVars, contextVars, limitsVars>>
     \/ machine = "paging" /\ PagingNext
        /\ UNCHANGED <<readVars, trimVars, contextVars, limitsVars>>
     \/ machine = "context" /\ ContextNext
        /\ UNCHANGED <<readVars, trimVars, pagingVars, limitsVars>>
     \/ machine = "limits" /\ LimitsNext
        /\ UNCHANGED <<readVars, trimVars, pagingVars, contextVars>>

MCSpec ==
  /\ MCInit
  /\ [][MCNext]_<<machine, readVars, trimVars, pagingVars, contextVars, limitsVars>>
  /\ ReadsFairness /\ TrimFairness /\ PagingFairness

\* Properties of a machine's end.  Nothing that the agent reads hangs for good,
\* whatever hangs in the host: tool calls and collections end and leave no
\* command behind, a snapshot is sent or given up, and a reader gets to a page
\* that is its last.
MachinesEnd ==
  ToolReadsEnd /\ CollectionsEnd /\ ChildrenEnd /\ TrimEnds /\ PagingEnds
=============================================================================
