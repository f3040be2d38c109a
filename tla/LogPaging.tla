----------------------------- MODULE LogPaging -----------------------------
(***************************************************************************)
(* Reading a journal page by page (adapters/journal.ts): a reader calls    *)
(* query_logs, follows next_cursor to older records, and stops when there  *)
(* is none.  journalctl is asked for one line more than the page holds, so *)
(* that the page can say that it is not complete.                          *)
(*                                                                         *)
(* Records are numbered from the oldest; the journal grows while a reader  *)
(* is at it.  A record is the bytes of the entry that is made of it; a     *)
(* malformed one has none.  A query that fails (see HostReads) leaves the  *)
(* reader where it was.                                                    *)
(***************************************************************************)
EXTENDS Integers, Sequences, SequencesExt, FiniteSetsExt, Subsequences

CONSTANTS
  Records,     \* what a record may be: its bytes, or 0 if it is malformed
  MaxRecords,  \* bound: length of the journal
  PageLimit,   \* entries a page may hold (at most 500)
  ByteLimit    \* bytes they may have

ASSUME PagingAssumption ==
  /\ Records \subseteq Nat /\ MaxRecords \in Nat
  /\ PageLimit \in Nat \ {0} /\ ByteLimit \in Nat

VARIABLES
  journal,   \* the records of the allowed units, oldest first
  first,     \* the newest record when the reader began
  cursor,    \* the record whose cursor the reader will send, 0 for none
  page,      \* the answer it got last
  got,       \* history: the records it was given, in that order
  reading    \* whether it will ask again

pagingVars == <<journal, first, cursor, page, got, reading>>

NoPage == [entries |-> <<>>, next |-> 0, truncated |-> FALSE, status |-> "ok"]

PagingInit ==
  /\ journal \in BoundedSeq(Records, MaxRecords)
  /\ first = Len(journal) /\ cursor = 0
  /\ page = NoPage /\ got = <<>> /\ reading = TRUE

Readable(i) == journal[i] > 0
Newest == IF cursor = 0 THEN Len(journal) ELSE cursor - 1

\* Variant the checks must reject: exactly a page is asked for.
LinesExact == IF Newest > PageLimit THEN PageLimit ELSE Newest

\* How many lines --reverse --lines PageLimit + 1 --after-cursor prints.
Lines == IF Newest > PageLimit + 1 THEN PageLimit + 1 ELSE Newest
Printed == [k \in 1 .. Lines |-> Newest + 1 - k]

\* The entries made of the lines; a malformed line leaves none.
Parsed == Only(Printed, {i \in 1 .. Newest : Readable(i)})

\* The entries that fit are those before the first that does not.
EntryBytes(n) == FoldLeft(LAMBDA sum, i : sum + journal[i], 0, SubSeq(Parsed, 1, n))
Fits(n) == \A k \in 1 .. n : k <= PageLimit /\ EntryBytes(k) <= ByteLimit
Returned == SubSeq(Parsed, 1, Max({n \in 0 .. Len(Parsed) : Fits(n)}))

\* Variant the checks must reject: the cursor of the last record parsed.
NextOfParsed == IF Parsed = <<>> THEN 0 ELSE Last(Parsed)

\* Variant the checks must reject: an empty page repeats the reader's cursor.
NextOrSame == IF Returned = <<>> THEN cursor ELSE Last(Returned)

\* next_cursor: that of the last entry returned, or null.
NextCursor == IF Returned = <<>> THEN 0 ELSE Last(Returned)

\* Variant the checks must reject: only the number of entries truncates.
TruncatedByCount == Len(Parsed) > PageLimit

Truncated == Len(Returned) < Len(Parsed)

Answer ==
  [entries |-> Returned, next |-> NextCursor, truncated |-> Truncated,
   status |-> IF Len(Parsed) < Lines THEN "partial" ELSE "ok"]

\* query() answers with a page; the reader goes on if it has a cursor.
Query ==
  /\ reading
  /\ page' = Answer /\ got' = got \o Returned
  /\ first' = IF cursor = 0 THEN Len(journal) ELSE first
  /\ cursor' = NextCursor /\ reading' = (NextCursor # 0)
  /\ UNCHANGED journal

\* A unit logs.
Arrive ==
  /\ Len(journal) < MaxRecords
  /\ \E r \in Records : journal' = Append(journal, r)
  /\ UNCHANGED <<first, cursor, page, got, reading>>

PagingNext == Query \/ Arrive

\* The reader goes on.
PagingFairness == WF_pagingVars(Query)

PagingSpec == PagingInit /\ [][PagingNext]_pagingVars /\ PagingFairness

-----------------------------------------------------------------------------
(* Properties. *)

\* The records a reader was given are all the readable ones from the newest
\* when it began to the one its cursor names, each once, newest first, whatever
\* limits cut the pages and whatever was logged meanwhile.
NoGaps ==
  got # <<>> =>
    /\ \A j, k \in 1 .. Len(got) : j < k => got[j] > got[k]
    /\ ToSet(got) = {i \in Last(got) .. first : Readable(i)}

\* A reader that stops before the oldest readable record was told so by its
\* last page: truncated, as an entry exceeds the byte limit, or partial.
Oldest == IF got = <<>> THEN first + 1 ELSE Last(got)
StopsKnowingly ==
  ~reading /\ (\E i \in 1 .. Oldest - 1 : Readable(i)) =>
    page.truncated \/ page.status = "partial"

\* A page that is neither truncated nor partial is the last one.
CompleteMeansAll ==
  ~page.truncated /\ page.status = "ok" /\ page # NoPage =>
    \A i \in 1 .. Oldest - 1 : ~Readable(i)

\* Every reader stops.
PagingEnds == reading ~> ~reading

\* Together: what a reader has been given is what it was told (journal.ts:53-66).
PagesTrue == NoGaps /\ StopsKnowingly /\ CompleteMeansAll
=============================================================================
