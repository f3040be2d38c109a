---------------------------- MODULE SnapshotTrim ----------------------------
(***************************************************************************)
(* How a snapshot is made to fit (core/snapshot-manager.ts, 65-95): each   *)
(* adapter sorts what it found and cuts it at the section's limit, entries *)
(* are popped from the optional sections while the snapshot exceeds its    *)
(* budget, and a snapshot that still does not fit is dropped.              *)
(*                                                                         *)
(* The optional sections are numbered in the order they are given up:      *)
(* top_processes, listeners, filesystems, degraded_services.  An entry is  *)
(* its own bytes and those of the finding it causes, which is made before  *)
(* the trimming and stays.  A section whose collector failed is empty.     *)
(***************************************************************************)
EXTENDS Naturals, Sequences, SequencesExt

CONSTANTS
  Sections,    \* how many optional sections there are (4 in the code)
  Limit,       \* entries an adapter returns for a section (20 or 50)
  Matching,    \* what an adapter may find: sequences of entries
  Fixed,       \* bytes of host summary, health and the empty sections
  MaxBytes,    \* the session's snapshot limit
  Headroom,    \* bytes kept for the envelope (1024)
  Envelope     \* bytes createNotification() adds

Places == 1 .. Sections
Entry == [bytes : Nat, finding : Nat]

ASSUME TrimAssumption ==
  /\ Sections \in Nat /\ Limit \in Nat
  /\ Matching \subseteq Seq(Entry)
  /\ {Fixed, MaxBytes, Headroom, Envelope} \subseteq Nat

VARIABLES
  found,      \* history: what matched in each section, in the adapter's order
  kept,       \* snapshot[section]
  omitted,    \* snapshot.truncation[section]
  required,   \* bytes of everything else in the snapshot
  phase       \* "trimming", "wrapped" (being compressed), "sent" or "dropped"

trimVars == <<found, kept, omitted, required, phase>>

\* The head of every adapter's list: items.slice(0, limit), and omitted_count.
Listed(s) == SubSeq(s, 1, IF Len(s) > Limit THEN Limit ELSE Len(s))

\* Variant the checks must reject: the adapter counts what it returned.
BeyondNothing(s) == 0

Beyond(s) == IF Len(s) > Limit THEN Len(s) - Limit ELSE 0

\* The bytes of lists of entries, and of the findings that lists caused.
ListBytes(k) ==
  FoldLeft(LAMBDA sum, s : sum + FoldLeft(LAMBDA n, e : n + e.bytes, 0, s), 0, k)
Findings(k) ==
  FoldLeft(LAMBDA sum, s : sum + FoldLeft(LAMBDA n, e : n + e.finding, 0, s), 0, k)

TrimInit ==
  /\ found \in [Places -> Matching]
  /\ kept = [i \in Places |-> Listed(found[i])]
  /\ omitted = [i \in Places |-> Beyond(found[i])]
  /\ required = Fixed + Findings(kept)
  /\ phase = "trimming"

\* JSON.stringify(snapshot).length with the lists k, the digits of the counters
\* aside.
Size(k) == required + ListBytes(k)

Budget == IF MaxBytes > Headroom THEN MaxBytes - Headroom ELSE 0
Over(k) == Size(k) > Budget

\* Variant the checks must reject: entries are taken from the last section.
LastFirst(i) == kept[i] # <<>> /\ \A j \in Places : j > i => kept[j] = <<>>

\* The section the loop takes an entry from: the first that is not empty.
First(i) == kept[i] # <<>> /\ \A j \in Places : j < i => kept[j] = <<>>

\* Variant the checks must reject: the loop trims to below the budget.
PopExactFit(i) ==
  /\ phase = "trimming" /\ Size(kept) >= Budget /\ First(i)
  /\ kept' = [kept EXCEPT ![i] = SubSeq(@, 1, Len(@) - 1)]
  /\ omitted' = [omitted EXCEPT ![i] = @ + 1]
  /\ UNCHANGED <<found, required, phase>>

\* One round of the loop.
Pop(i) ==
  /\ phase = "trimming" /\ Over(kept) /\ First(i)
  /\ kept' = [kept EXCEPT ![i] = SubSeq(@, 1, Len(@) - 1)]
  /\ omitted' = [omitted EXCEPT ![i] = @ + 1]
  /\ UNCHANGED <<found, required, phase>>

\* Variant the checks must reject: the loop waits for the snapshot to fit.
DecideFitting ==
  /\ phase = "trimming" /\ ~Over(kept)
  /\ phase' = IF Size(kept) + Envelope > MaxBytes THEN "dropped" ELSE "wrapped"
  /\ UNCHANGED <<found, kept, omitted, required>>

\* The loop has ended: what exceeds the budget, or with its envelope the
\* session's limit, is dropped.
Decide ==
  /\ phase = "trimming"
  /\ Over(kept) => \A i \in Places : kept[i] = <<>>
  /\ phase' = IF Over(kept) \/ Size(kept) + Envelope > MaxBytes
              THEN "dropped" ELSE "wrapped"
  /\ UNCHANGED <<found, kept, omitted, required>>

\* gzip has ended; its result may still be too long, or the session gone.
Compressed ==
  /\ phase = "wrapped"
  /\ phase' \in {"sent", "dropped"}
  /\ UNCHANGED <<found, kept, omitted, required>>

TrimNext == (\E i \in Places : Pop(i)) \/ Decide \/ Compressed

\* The loop is synchronous code.
TrimFairness == WF_trimVars(TrimNext)

TrimSpec == TrimInit /\ [][TrimNext]_trimVars /\ TrimFairness

-----------------------------------------------------------------------------
(* Properties. *)

\* Every entry the adapters found is in the snapshot or counted as omitted, by
\* the adapter's limit and the trimming together, and those kept are the first
\* of the adapter's order.
Accounted ==
  \A i \in Places :
    /\ Len(kept[i]) + omitted[i] = Len(found[i])
    /\ kept[i] = SubSeq(found[i], 1, Len(kept[i]))

Trimmed(i) == Len(kept[i]) < Len(Listed(found[i]))

\* No section is trimmed while an earlier one still has entries.
GivenUpInOrder ==
  \A i, j \in Places : i < j /\ Trimmed(j) => kept[i] = <<>>

\* Nothing is given up needlessly: with the entry that was taken last, the
\* snapshot exceeded its budget; and what is sent fits.
Restored(i) == [kept EXCEPT ![i] = SubSeq(found[i], 1, Len(@) + 1)]
NoMoreThanNeeded ==
  /\ \A i \in Places :
       Trimmed(i) /\ (\A j \in Places : j > i => ~Trimmed(j)) => Over(Restored(i))
  /\ phase \in {"wrapped", "sent"} => ~Over(kept)

\* Trimming ends, also when even empty sections exceed the budget.
TrimEnds == phase = "trimming" ~> phase # "trimming"

\* Together: the trimming loses count of nothing, takes from the sections in
\* their order, and takes no more than it must (snapshot-manager.ts:57-95).
TrimExact == Accounted /\ GivenUpInOrder /\ NoMoreThanNeeded
=============================================================================
