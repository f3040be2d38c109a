---------------------------- MODULE ModelContext ----------------------------
(***************************************************************************)
(* How a tool's result is made to fit the model's context                  *)
(* (tools/model-context.ts, boundedProjection): compacted with generous    *)
(* limits, then with tight ones, then replaced, each only if it is still   *)
(* too long, with a list of what was omitted that is itself bounded.       *)
(*                                                                         *)
(* A value is the sequence of its members, itself the last, in the order   *)
(* in which compactValue() has done with them: members before their        *)
(* container, in the order of their keys.  A member is its path, the       *)
(* positions that lead to it, its kind and its extent: the characters of   *)
(* a string, the members of an array or object, 0 for anything else.       *)
(***************************************************************************)
EXTENDS Integers, Sequences, SequencesExt, Subsequences

CONSTANTS
  Results,        \* bound: the results to consider
  Target,         \* MODEL_DATA_TARGET_BYTES
  Loose, Tight,   \* limits of the two passes: of strings, arrays and objects
  MaxDepth,       \* depth at which a container is omitted (6 in the code)
  MaxOmissions    \* entries of the list of omissions (16)

\* What may have members, what may be cut to a limit, and what else there is:
\* "[omitted]" and { truncated: true } among it.
Containers == {"array", "object"}
Bounded == {"string"} \cup Containers
MemberKinds == Bounded \cup {"scalar", "omitted", "truncated"}
Member == [path : Seq(Nat), kind : MemberKinds, extent : Nat]

\* a is a proper prefix of the way to m.
Above(a, m) ==
  /\ Len(a.path) < Len(m.path)
  /\ \A k \in 1 .. Len(a.path) : a.path[k] = m.path[k]

\* A tree: of every member there are the containers that lead to it, of every
\* container the members it has, and each path once.
IsTree(v) ==
  LET members == ToSet(v) IN
  /\ \A m, n \in members : m.path = n.path => m = n
  /\ \A m \in members : \A k \in 1 .. Len(m.path) :
       \E c \in members :
         /\ Above(c, m) /\ Len(c.path) = k - 1
         /\ c.kind \in Containers /\ m.path[k] \in 1 .. c.extent
  /\ \A c \in members : c.kind \in Containers =>
       \A i \in 1 .. c.extent : \E m \in members : m.path = Append(c.path, i)

\* JSON.stringify(value).length, names and punctuation counted as one.
Length(v) ==
  FoldLeft(LAMBDA sum, m :
             sum + 1 + IF m.kind = "string" THEN m.extent ELSE 0, 0, v)

Marker == <<[path |-> <<>>, kind |-> "truncated", extent |-> 0]>>

ASSUME ContextAssumption ==
  /\ Target \in Nat /\ MaxDepth \in Nat /\ MaxOmissions \in Nat \ {0}
  /\ {Loose, Tight} \subseteq [Bounded -> Nat]
  /\ \A kind \in Bounded : Tight[kind] <= Loose[kind]
  /\ Results \subseteq Seq(Member) /\ \A v \in Results : IsTree(v)
  /\ Length(Marker) \in 0 .. Target

VARIABLES
  source,      \* the tool's complete result
  data,        \* what the model will see of it
  omissions,   \* what it is told about the rest
  counted,     \* history: omissions recorded before their list was cut
  pass         \* how far boundedProjection has got

contextVars == <<source, data, omissions, counted, pass>>

Omission(path, reason, of, retained) ==
  [path |-> path, reason |-> reason, of |-> of, retained |-> retained]

TooDeep(m) == m.kind \in Containers /\ Len(m.path) >= MaxDepth
TooLarge(m, limits) ==
  m.kind \in Bounded /\ ~TooDeep(m) /\ m.extent > limits[m.kind]

\* compactValue() gets to a member if each container above it is entered and
\* keeps the member that leads to it.
GetsTo(v, limits, m) ==
  \A c \in ToSet(v) : Above(c, m) =>
    ~TooDeep(c) /\ m.path[Len(c.path) + 1] <= limits[c.kind]
Reached(v, limits) == Only(v, {m \in ToSet(v) : GetsTo(v, limits, m)})

\* What is shown of a member, and what is told about it.
Shown(m, limits) ==
  IF TooDeep(m) THEN [m EXCEPT !.kind = "omitted", !.extent = 0]
  ELSE IF TooLarge(m, limits) THEN [m EXCEPT !.extent = limits[m.kind]]
  ELSE m
Note(m, limits) ==
  IF TooDeep(m) THEN Omission(m.path, "depth_limit", 0, 0)
  ELSE Omission(m.path, "size_limit", m.extent, limits[m.kind])

\* The compacted value and the omissions.
Compact(v, limits) ==
  LET reached == Reached(v, limits)
  IN  [i \in DOMAIN reached |-> Shown(reached[i], limits)]
Notes(v, limits) ==
  LET cut == Only(Reached(v, limits),
                  {m \in ToSet(v) : TooDeep(m) \/ TooLarge(m, limits)})
  IN  [i \in DOMAIN cut |-> Note(cut[i], limits)]

TooLong == Length(data) > Target

ContextInit ==
  /\ source \in Results /\ data = source
  /\ omissions = <<>> /\ counted = 0 /\ pass = "loose"

\* Variant the checks must reject: the second pass goes on from the first.
CompactedAgain(limits) ==
  IF TooLong
  THEN /\ data' = Compact(data, limits)
       /\ omissions' = omissions \o Notes(data, limits)
  ELSE UNCHANGED <<data, omissions>>

\* A pass compacts the source, not what an earlier pass has made of it, and
\* adds to the omissions of that pass.
Compacted(limits) ==
  IF TooLong
  THEN /\ data' = Compact(source, limits)
       /\ omissions' = omissions \o Notes(source, limits)
  ELSE UNCHANGED <<data, omissions>>

Loosely ==
  /\ pass = "loose" /\ pass' = "tight"
  /\ Compacted(Loose)
  /\ UNCHANGED <<source, counted>>

Tightly ==
  /\ pass = "tight" /\ pass' = "marker"
  /\ Compacted(Tight)
  /\ UNCHANGED <<source, counted>>

Replace ==
  /\ pass = "marker" /\ pass' = "list"
  /\ IF TooLong
     THEN /\ data' = Marker
          /\ omissions' =
               Append(omissions,
                      Omission(<<>>, "model_context_byte_limit", 0, 0))
     ELSE UNCHANGED <<data, omissions>>
  /\ UNCHANGED <<source, counted>>

\* Variant the checks must reject: the entry that stands for the others is not
\* counted when they are.
RestMiscounted == Len(omissions) - MaxOmissions

\* How many omissions the last entry of a full list stands for.
Rest == Len(omissions) - (MaxOmissions - 1)

CutList ==
  /\ pass = "list" /\ pass' = "done"
  /\ counted' = Len(omissions)
  /\ omissions' =
       IF Len(omissions) > MaxOmissions
       THEN Append(SubSeq(omissions, 1, MaxOmissions - 1),
                   Omission(<<>>, "metadata_limit", Rest, 0))
       ELSE omissions
  /\ UNCHANGED <<source, data>>

ContextNext == Loosely \/ Tightly \/ Replace \/ CutList

ContextSpec == ContextInit /\ [][ContextNext]_contextVars

-----------------------------------------------------------------------------
(* Properties. *)

Done == pass = "done"
ListCut == omissions # <<>> /\ Last(omissions).reason = "metadata_limit"

\* Entry k is what the model is told last about a path.
ToldLast(k, path) ==
  /\ omissions[k].path = path
  /\ \A j \in k + 1 .. Len(omissions) : omissions[j].path # path

\* What the model is told last about a member that was cut is true of the data
\* it sees and of the complete result, whichever passes were needed; unless the
\* list itself was cut.
CutsReported ==
  Done /\ ~ListCut /\ data # Marker =>
    \A shown \in ToSet(data) : \E whole \in ToSet(source) :
      /\ whole.path = shown.path
      /\ shown # whole =>
           \E k \in 1 .. Len(omissions) :
             /\ ToldLast(k, shown.path)
             /\ shown.kind = whole.kind =>
                  /\ omissions[k].of = whole.extent
                  /\ omissions[k].retained = shown.extent

\* What is left is a whole value: a container shows as many members as it says.
ShownWhole == IsTree(data)

\* No omission is silent or imagined, the list is bounded, and an entry that
\* stands for others says how many they are.
NothingSilent ==
  Done =>
    /\ (omissions = <<>>) = (data = source)
    /\ Len(omissions) <= MaxOmissions
    /\ counted = IF ListCut THEN Len(omissions) - 1 + Last(omissions).of
                 ELSE Len(omissions)

\* Together: what the model is told of a result is true of what it sees
\* (model-context.ts:56-100).
ContextTrue == CutsReported /\ ShownWhole /\ NothingSilent
=============================================================================
