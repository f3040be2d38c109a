---------------------------- MODULE Host_proofs -----------------------------
(***************************************************************************)
(* Proofs about what the agent reads of its host and how it makes it fit:  *)
(* HostReads, SnapshotTrim, LogPaging and ModelContext, each for any       *)
(* constants that satisfy its assumption.                                  *)
(*                                                                         *)
(* Reads.  The invariant says what a list of processes has counted at      *)
(* each of its stages: the entries and failures so far and the files still *)
(* being read are the processes of the batches begun.  A settled read with *)
(* the verdict OK has therefore counted every candidate.                   *)
(*                                                                         *)
(* Trimming.  The three properties need each other: that the entry taken   *)
(* last was needed is known of the section that was trimmed last, and      *)
(* which one that is follows from the order in which sections are given    *)
(* up.  Bytes are never computed: the proof only uses that a round of the  *)
(* loop is taken when the snapshot as it is exceeds the budget.            *)
(*                                                                         *)
(* Paging.  A page is what is readable of the newest lines, as far as it   *)
(* fits.  What the reader was given is what is readable from the record    *)
(* its cursor names to where it began, and when it is at an end without a  *)
(* warning that record is the oldest.                                      *)
(*                                                                         *)
(* The model's context.  What the model is told last about a member is     *)
(* what the last pass has told, so the proof is about one pass over the    *)
(* source: a member is shown whole or it is noted, and only then; what is  *)
(* left is a tree again; and a pass that notes nothing has reached         *)
(* everything.  That the last two say the same of the looser and of the    *)
(* tighter pass is what makes the list empty exactly if nothing was cut.   *)
(***************************************************************************)
EXTENDS HostReads, SnapshotTrim, LogPaging, ModelContext, SequenceTheorems,
  WellFoundedInduction, TLAPS

(* Numbers. *)

\* A nonempty set of numbers has a least element: what induction rests on.
LEMMA LeastElement ==
  ASSUME NEW T \in SUBSET Nat, T # {}
  PROVE  \E n \in T : \A m \in T : n <= m
<1> DEFINE R == {p \in Nat \X Nat : p[1] < p[2]}
<1>1. IsWellFoundedOn(R, Nat)
  BY NatLessThanWellFounded DEF OpToRel
<1>2. \A x, y \in Nat : y < x => <<y, x>> \in R
  OBVIOUS
<1> HIDE DEF R
<1>3. \E x \in T : \A y \in T : <<y, x>> \notin R
  BY <1>1, WFMin
<1>4. PICK x \in T : \A y \in T : <<y, x>> \notin R
  BY <1>3
<1>5. \A y \in T : ~(y < x)
  BY <1>2, <1>4
<1>6. \A y \in T : x <= y
  BY <1>5
<1> QED  BY <1>6

\* Induction, for a set of numbers in the place of a formula.
LEMMA Induct ==
  ASSUME NEW T \in SUBSET Nat, 0 \in T, \A n \in T : n + 1 \in T
  PROVE  T = Nat
<1> DEFINE U == Nat \ T
<1>1. SUFFICES ASSUME U # {} PROVE FALSE
  OBVIOUS
<1>2. PICK n \in U : \A m \in U : n <= m
  BY <1>1, LeastElement
<1>3. n # 0 /\ n - 1 \in Nat /\ n - 1 \notin U
  BY <1>2
<1> QED BY <1>2, <1>3

\* A bounded nonempty set of numbers has a greatest element, which Max chooses.
LEMMA GreatestElement ==
  ASSUME NEW N \in Nat, NEW T \in SUBSET (0 .. N), T # {}
  PROVE  Max(T) \in T /\ \A m \in T : m <= Max(T)
<1> DEFINE U == {n \in Nat : N - n \in T}
<1>1. U # {}
  <2>1. PICK m \in T : TRUE
    OBVIOUS
  <2>2. N - m \in Nat /\ N - (N - m) = m
    BY <2>1
  <2> QED BY <2>1, <2>2
<1>2. PICK n \in U : \A m \in U : n <= m
  BY <1>1, LeastElement
<1>3. ASSUME NEW m \in T
      PROVE  N - n >= m
  <2>1. N - m \in Nat /\ N - (N - m) = m
    OBVIOUS
  <2>2. N - m \in U
    BY <2>1
  <2>3. n <= N - m
    BY <1>2, <2>2
  <2> QED BY <2>1, <2>3, <1>2
<1>4. \E x \in T : \A y \in T : x >= y
  BY <1>2, <1>3
<1>5. Max(T) \in T /\ \A y \in T : Max(T) >= y
  BY <1>4 DEF Max
<1> QED BY <1>5

-----------------------------------------------------------------------------
(* Sequences. *)

\* The elements of a longer sequence.
LEMMA ToSetFacts ==
  ASSUME NEW S, NEW s \in Seq(S)
  PROVE  /\ ToSet(s) = {s[i] : i \in 1 .. Len(s)}
         /\ \A e \in S : ToSet(Append(s, e)) = ToSet(s) \cup {e}
         /\ \A t \in Seq(S) : ToSet(s \o t) = ToSet(s) \cup ToSet(t)
<1>1. \A t \in Seq(S) : ToSet(t) = {t[i] : i \in 1 .. Len(t)}
  BY LenProperties DEF ToSet
<1>2. ASSUME NEW e \in S
      PROVE  ToSet(Append(s, e)) = ToSet(s) \cup {e}
  <2> DEFINE a == Append(s, e)
  <2>1. /\ a \in Seq(S) /\ Len(a) = Len(s) + 1 /\ a[Len(s) + 1] = e
        /\ \A i \in 1 .. Len(s) : a[i] = s[i]
        /\ Len(s) \in Nat
    OBVIOUS
  <2> HIDE DEF a
  <2>2. {a[i] : i \in 1 .. Len(s) + 1} = {s[i] : i \in 1 .. Len(s)} \cup {e}
    <3>1. \A i \in 1 .. Len(s) + 1 : i \in 1 .. Len(s) \/ i = Len(s) + 1
      BY <2>1
    <3>2. \A i \in 1 .. Len(s) : i \in 1 .. Len(s) + 1
      BY <2>1
    <3>3. Len(s) + 1 \in 1 .. Len(s) + 1
      BY <2>1
    <3> QED  BY <2>1, <3>1, <3>2, <3>3
  <2> QED  BY <1>1, <2>1, <2>2 DEF a
<1>3. ASSUME NEW t \in Seq(S)
      PROVE  ToSet(s \o t) = ToSet(s) \cup ToSet(t)
  <2> DEFINE c == s \o t
  <2>1. /\ c \in Seq(S) /\ Len(c) = Len(s) + Len(t)
        /\ \A i \in 1 .. Len(s) : c[i] = s[i]
        /\ \A i \in 1 .. Len(t) : c[Len(s) + i] = t[i]
        /\ Len(s) \in Nat /\ Len(t) \in Nat
    OBVIOUS
  <2> HIDE DEF c
  <2>2. \A i \in 1 .. Len(c) :
          i \in 1 .. Len(s) \/ \E j \in 1 .. Len(t) : i = Len(s) + j
    <3> SUFFICES ASSUME NEW i \in 1 .. Len(c), i \notin 1 .. Len(s)
                 PROVE  \E j \in 1 .. Len(t) : i = Len(s) + j
      OBVIOUS
    <3>1. i - Len(s) \in 1 .. Len(t) /\ i = Len(s) + (i - Len(s))
      BY <2>1
    <3> QED  BY <3>1
  <2>3. {c[i] : i \in 1 .. Len(c)} \subseteq
          {s[i] : i \in 1 .. Len(s)} \cup {t[i] : i \in 1 .. Len(t)}
    <3> SUFFICES ASSUME NEW i \in 1 .. Len(c)
                 PROVE  \/ \E j \in 1 .. Len(s) : c[i] = s[j]
                        \/ \E j \in 1 .. Len(t) : c[i] = t[j]
      OBVIOUS
    <3>1. CASE i \in 1 .. Len(s)
      BY <2>1, <3>1
    <3>2. CASE i \notin 1 .. Len(s)
      <4>1. PICK j \in 1 .. Len(t) : i = Len(s) + j
        BY <2>2, <3>2
      <4>2. c[i] = t[j]
        BY <2>1, <4>1
      <4> QED  BY <4>2
    <3> QED  BY <3>1, <3>2
  <2>4. /\ \A i \in 1 .. Len(s) : i \in 1 .. Len(c)
        /\ \A i \in 1 .. Len(t) : Len(s) + i \in 1 .. Len(c)
    BY <2>1
  <2>5. {s[i] : i \in 1 .. Len(s)} \cup {t[i] : i \in 1 .. Len(t)} \subseteq
          {c[i] : i \in 1 .. Len(c)}
    BY <2>1, <2>4
  <2> QED  BY <1>1, <2>1, <2>3, <2>5 DEF c
<1> QED  BY <1>1, <1>2, <1>3

\* Sequences with the same elements at the same places.
LEMMA SameSequence ==
  ASSUME NEW T, NEW s \in Seq(T), NEW t \in Seq(T), Len(s) = Len(t),
         \A i \in 1 .. Len(s) : s[i] = t[i]
  PROVE  s = t
  OBVIOUS

\* The loop that Only stands for is defined for sequences of every length.
LEMMA OnlyLoop ==
  ASSUME NEW T, NEW s \in Seq(T), NEW S
  PROVE  \E upTo :
           /\ Only(s, S) = upTo[Len(s)]
           /\ \A k \in 0 .. Len(s) :
                upTo[k] = IF k = 0 THEN <<>>
                          ELSE IF s[k] \in S THEN Append(upTo[k - 1], s[k])
                          ELSE upTo[k - 1]
<1> DEFINE step(f, k) == IF k = 0 THEN <<>>
                         ELSE IF s[k] \in S THEN Append(f[k - 1], s[k])
                         ELSE f[k - 1]
           N == {n \in Nat : \E f : f = [k \in 0 .. n |-> step(f, k)]}
<1>1. 0 \in N
  <2>1. [k \in 0 .. 0 |-> <<>>] =
          [k \in 0 .. 0 |-> step([j \in 0 .. 0 |-> <<>>], k)]
    OBVIOUS
  <2> QED  BY <2>1
<1>2. ASSUME NEW n \in N
      PROVE  n + 1 \in N
  <2>1. PICK f : f = [k \in 0 .. n |-> step(f, k)]
    OBVIOUS
  <2> DEFINE g == [k \in 0 .. n + 1 |-> IF k <= n THEN f[k] ELSE step(f, k)]
  <2>2. ASSUME NEW k \in 0 .. n + 1
        PROVE  g[k] = step(g, k)
    <3>1. k = 0 \/ k - 1 \in 0 .. n
      OBVIOUS
    <3>2. k # 0 => g[k - 1] = f[k - 1]
      BY <3>1
    <3>3. step(g, k) = step(f, k)
      BY <3>2
    <3>4. k <= n => f[k] = step(f, k)
      <4> HIDE DEF step
      <4>1. \A j \in 0 .. n : f[j] = step(f, j)
        BY <2>1
      <4> QED  BY <4>1
    <3> QED  BY <3>3, <3>4
  <2>3. g = [k \in 0 .. n + 1 |-> step(g, k)]
    BY <2>2
  <2>4. \E h : h = [k \in 0 .. n + 1 |-> step(h, k)]
    <3> HIDE DEF g, step
    <3> QED  BY <2>3
  <2>5. n + 1 \in Nat
    OBVIOUS
  <2> HIDE DEF step
  <2> QED  BY <2>4, <2>5
<1>3. N = Nat
  BY <1>1, <1>2, Induct
<1>4. \E f : f = [k \in 0 .. Len(s) |-> step(f, k)]
  BY <1>3
<1> DEFINE upTo == CHOOSE f : f = [k \in 0 .. Len(s) |-> step(f, k)]
<1>5. upTo = [k \in 0 .. Len(s) |-> step(upTo, k)]
  <2> HIDE DEF step
  <2> QED  BY <1>4
<1>6. Only(s, S) = upTo[Len(s)]
  BY DEF Only
<1> HIDE DEF upTo
<1>7. \A k \in 0 .. Len(s) : upTo[k] = step(upTo, k)
  <2> HIDE DEF step
  <2> QED  BY <1>5
<1>8. \A k \in 0 .. Len(s) :
        upTo[k] = IF k = 0 THEN <<>>
                  ELSE IF s[k] \in S THEN Append(upTo[k - 1], s[k])
                  ELSE upTo[k - 1]
  BY <1>7
<1> QED  BY <1>6, <1>8

\* What Only leaves after k rounds, and that it keeps an order s has.
LeftBy(u, k, s, S, Rel) ==
  /\ Len(u) <= k
  /\ ToSet(u) = {s[i] : i \in 1 .. k} \cap S
  /\ Len(u) = k => \A i \in 1 .. k : u[i] = s[i]
  /\ (\A i \in 1 .. k : s[i] \in S) => Len(u) = k
  /\ \A i, j \in 1 .. Len(u) : i < j => <<u[i], u[j]>> \in Rel

\* One round.
LEMMA OnlyRound ==
  ASSUME NEW T, NEW s \in Seq(T), NEW S, NEW Rel,
         \A i, j \in 1 .. Len(s) : i < j => <<s[i], s[j]>> \in Rel,
         NEW k \in Nat, k + 1 <= Len(s), NEW u \in Seq(T),
         LeftBy(u, k, s, S, Rel)
  PROVE  LET t == IF s[k + 1] \in S THEN Append(u, s[k + 1]) ELSE u IN
         t \in Seq(T) /\ LeftBy(t, k + 1, s, S, Rel)
<1> DEFINE e == s[k + 1]
<1>1. /\ k + 1 \in 1 .. Len(s) /\ e \in T /\ Len(u) \in Nat /\ Len(u) <= k
      /\ 1 .. k + 1 = (1 .. k) \cup {k + 1} /\ Len(s) \in Nat
  <2>1. Len(s) \in Nat /\ Len(u) \in Nat /\ Len(u) <= k
    BY DEF LeftBy
  <2>2. k + 1 \in 1 .. Len(s)
    BY <2>1
  <2>3. \A i : i \in 1 .. k + 1 <=> i \in 1 .. k \/ i = k + 1
    OBVIOUS
  <2> QED  BY <2>1, <2>2, <2>3
<1>2. {s[i] : i \in 1 .. k + 1} = {s[i] : i \in 1 .. k} \cup {e}
  BY <1>1
<1>3. CASE e \notin S
  <2>1. ToSet(u) = {s[i] : i \in 1 .. k + 1} \cap S
    BY <1>2, <1>3 DEF LeftBy
  <2>2. ~(\A i \in 1 .. k + 1 : s[i] \in S) /\ Len(u) # k + 1
    BY <1>1, <1>3
  <2> QED  BY <1>1, <1>3, <2>1, <2>2 DEF LeftBy
<1>4. CASE e \in S
  <2> DEFINE t == Append(u, e)
  <2>1. /\ t \in Seq(T) /\ Len(t) = Len(u) + 1 /\ t[Len(u) + 1] = e
        /\ \A i \in 1 .. Len(u) : t[i] = u[i]
    BY <1>1
  <2>2. ToSet(t) = {s[i] : i \in 1 .. k + 1} \cap S
    <3>1. ToSet(t) = ToSet(u) \cup {e}
      BY <1>1, ToSetFacts
    <3> HIDE DEF t, e
    <3> QED  BY <1>2, <1>4, <3>1 DEF LeftBy
  <2> HIDE DEF t
  <2>3. Len(t) = k + 1 => \A i \in 1 .. k + 1 : t[i] = s[i]
    <3> SUFFICES ASSUME Len(t) = k + 1, NEW i \in 1 .. k + 1
                 PROVE  t[i] = s[i]
      OBVIOUS
    <3>1. Len(u) = k /\ (i \in 1 .. k \/ i = k + 1)
      BY <1>1, <2>1
    <3>2. CASE i \in 1 .. k
      BY <2>1, <3>1, <3>2 DEF LeftBy
    <3>3. CASE i = k + 1
      BY <2>1, <3>1, <3>3
    <3> QED  BY <3>1, <3>2, <3>3
  <2>4. (\A i \in 1 .. k + 1 : s[i] \in S) => Len(t) = k + 1
    BY <1>1, <2>1 DEF LeftBy
  <2>5. ASSUME NEW i \in 1 .. Len(t), NEW j \in 1 .. Len(t), i < j
        PROVE  <<t[i], t[j]>> \in Rel
    <3>1. i \in 1 .. Len(u) /\ (j \in 1 .. Len(u) \/ j = Len(u) + 1)
      BY <1>1, <2>1, <2>5
    <3>2. CASE j \in 1 .. Len(u)
      BY <2>1, <2>5, <3>1, <3>2 DEF LeftBy
    <3>3. CASE j = Len(u) + 1
      <4>1. u[i] \in ToSet(u)
        BY <3>1, ToSetFacts
      <4>2. PICK n \in 1 .. k : u[i] = s[n]
        BY <4>1 DEF LeftBy
      <4>3. n \in 1 .. Len(s) /\ n < k + 1
        BY <1>1, <4>2
      <4>4. <<s[n], s[k + 1]>> \in Rel
        BY <1>1, <4>3
      <4> QED  BY <2>1, <3>1, <3>3, <4>2, <4>4
    <3> QED  BY <3>1, <3>2, <3>3
  <2>6. LeftBy(t, k + 1, s, S, Rel)
    BY <1>1, <2>1, <2>2, <2>3, <2>4, <2>5 DEF LeftBy
  <2> QED  BY <1>4, <2>1, <2>6 DEF t
<1> QED  BY <1>3, <1>4

\* What Only returns: no more than s has, the elements of S and no others, in
\* the order in which s has them; and s itself if it leaves none out.
LEMMA OnlyFacts ==
  ASSUME NEW T, NEW s \in Seq(T), NEW S
  PROVE  /\ Only(s, S) \in Seq(T) /\ Len(Only(s, S)) <= Len(s)
         /\ ToSet(Only(s, S)) = ToSet(s) \cap S
         /\ Len(Only(s, S)) = Len(s) => Only(s, S) = s
         /\ ToSet(s) \subseteq S => Only(s, S) = s
         /\ \A Rel :
              (\A i, j \in 1 .. Len(s) : i < j => <<s[i], s[j]>> \in Rel) =>
                \A i, j \in 1 .. Len(Only(s, S)) :
                  i < j => <<Only(s, S)[i], Only(s, S)[j]>> \in Rel
<1> DEFINE Pairs(Rel) ==
             \A i, j \in 1 .. Len(s) : i < j => <<s[i], s[j]>> \in Rel
<1>1. PICK upTo :
        /\ Only(s, S) = upTo[Len(s)]
        /\ \A k \in 0 .. Len(s) :
             upTo[k] = IF k = 0 THEN <<>>
                       ELSE IF s[k] \in S THEN Append(upTo[k - 1], s[k])
                       ELSE upTo[k - 1]
  BY OnlyLoop
<1>2. Len(s) \in Nat /\ ToSet(s) = {s[i] : i \in 1 .. Len(s)}
  BY ToSetFacts
<1>3. ASSUME NEW Rel, Pairs(Rel)
      PROVE  Only(s, S) \in Seq(T) /\ LeftBy(Only(s, S), Len(s), s, S, Rel)
  <2> DEFINE Right(k) == upTo[k] \in Seq(T) /\ LeftBy(upTo[k], k, s, S, Rel)
             N == {n \in Nat : n <= Len(s) => Right(n)}
  <2>1. 0 \in N
    <3>1. upTo[0] = <<>>
      BY <1>1, <1>2
    <3>2. ToSet(<<>>) = {}
      BY DEF ToSet
    <3>3. <<>> \in Seq(T) /\ Len(<<>>) = 0 /\ {s[i] : i \in 1 .. 0} = {}
      OBVIOUS
    <3>4. LeftBy(<<>>, 0, s, S, Rel)
      BY <3>2, <3>3 DEF LeftBy
    <3> QED  BY <3>1, <3>3, <3>4
  <2>2. ASSUME NEW n \in N
        PROVE  n + 1 \in N
    <3>1. SUFFICES ASSUME n + 1 <= Len(s) PROVE Right(n + 1)
      OBVIOUS
    <3>2. n \in Nat /\ Right(n) /\ n + 1 # 0 /\ n + 1 - 1 = n
            /\ n + 1 \in 0 .. Len(s)
      BY <1>2, <3>1
    <3>3. upTo[n + 1] = IF s[n + 1] \in S THEN Append(upTo[n], s[n + 1])
                        ELSE upTo[n]
      <4>1. upTo[n + 1] =
              IF n + 1 = 0 THEN <<>>
              ELSE IF s[n + 1] \in S THEN Append(upTo[n + 1 - 1], s[n + 1])
              ELSE upTo[n + 1 - 1]
        BY <1>1, <3>2
      <4> QED  BY <3>2, <4>1
    <3>4. LET t == IF s[n + 1] \in S THEN Append(upTo[n], s[n + 1])
                   ELSE upTo[n]
          IN  t \in Seq(T) /\ LeftBy(t, n + 1, s, S, Rel)
      BY <1>3, <3>1, <3>2, OnlyRound
    <3> QED  BY <3>3, <3>4
  <2>3. N = Nat
    <3> HIDE DEF N
    <3>1. N \in SUBSET Nat
      BY DEF N
    <3> QED  BY <2>1, <2>2, <3>1, Induct
  <2>4. Right(Len(s))
    BY <1>2, <2>3
  <2> QED  BY <1>1, <2>4
<1>4. \E Rel : Pairs(Rel)
  <2>1. Pairs(T \X T)
    OBVIOUS
  <2> QED  BY <2>1
<1> HIDE DEF Pairs
<1>5. PICK Rel : Only(s, S) \in Seq(T) /\ LeftBy(Only(s, S), Len(s), s, S, Rel)
  BY <1>3, <1>4
<1>6. Len(Only(s, S)) = Len(s) => Only(s, S) = s
  <2> SUFFICES ASSUME Len(Only(s, S)) = Len(s) PROVE Only(s, S) = s
    OBVIOUS
  <2>1. \A i \in 1 .. Len(s) : Only(s, S)[i] = s[i]
    BY <1>5 DEF LeftBy
  <2> DEFINE o == Only(s, S)
  <2>2. o \in Seq(T) /\ Len(o) = Len(s) /\ \A i \in 1 .. Len(s) : o[i] = s[i]
    BY <1>5, <2>1
  <2> HIDE DEF o
  <2>3. o = s
    BY <2>2
  <2> QED  BY <2>3 DEF o
<1>7. ToSet(s) \subseteq S => Len(Only(s, S)) = Len(s)
  BY <1>2, <1>5 DEF LeftBy
<1> QED  BY <1>2, <1>3, <1>5, <1>6, <1>7 DEF LeftBy, Pairs

-----------------------------------------------------------------------------
(* Reads. *)

\* What a read and a stage of its plan are.
ReadRec ==
  [kind : AllKinds, stage : Nat, signal : BOOLEAN, aborted : BOOLEAN,
   work : [States -> Nat], failures : Nat, items : Nat, verdict : Codes]
StageRec ==
  [fail : {"reject", "count", "sample", "ignore"}, file : Nat, bare : Nat,
   command : Nat]

\* Processes in the first k batches.
Through(k) == IF k < Batches THEN Batch * k ELSE Candidates

\* There are as many batches as the candidates need, the last one not empty.
LEMMA BatchFacts ==
  /\ Batches \in Nat /\ Candidates <= Batch * Batches
  /\ Batches = 0 => Candidates = 0
  /\ Batches > 0 => Batch * (Batches - 1) < Candidates
<1> USE ReadsAssumption DEF Batches
<1> DEFINE q == (Candidates + Batch - 1) \div Batch
<1>1. q \in Nat /\ Batch * q <= Candidates + Batch - 1
        /\ Candidates + Batch - 1 < Batch * (q + 1)
  OBVIOUS
<1>2. /\ Batch * (q + 1) = Batch * q + Batch
      /\ Batch * (q - 1) = Batch * q - Batch
      /\ Batch * q \in Nat
  BY <1>1
<1> HIDE DEF q
<1>3. q = 0 => Batch * q = 0
  BY <1>1
<1> QED  BY <1>1, <1>2, <1>3 DEF q

\* The batches together are the candidates.
LEMMA ThroughFacts ==
  /\ Through(0) = 0 /\ Through(Batches) = Candidates
  /\ \A k \in 1 .. Batches :
       LET n == IF k < Batches THEN Batch ELSE Candidates - Batch * (k - 1) IN
       n \in Nat /\ Through(k) = Through(k - 1) + n
<1> USE ReadsAssumption, BatchFacts
<1>1. Through(0) = 0 /\ Through(Batches) = Candidates
  BY DEF Through
<1>2. ASSUME NEW k \in 1 .. Batches
      PROVE  LET n == IF k < Batches THEN Batch
                      ELSE Candidates - Batch * (k - 1) IN
             n \in Nat /\ Through(k) = Through(k - 1) + n
  <2>1. Batch * k = Batch * (k - 1) + Batch
    OBVIOUS
  <2>2. k - 1 < Batches
    OBVIOUS
  <2>3. CASE k < Batches
    BY <2>1, <2>2, <2>3 DEF Through
  <2>4. CASE k = Batches
    BY <2>2, <2>4 DEF Through
  <2> QED  BY <2>3, <2>4
<1> QED  BY <1>1, <1>2

\* What a plan is made of.
LEMMA StageType ==
  ASSUME NEW f \in {"reject", "count", "sample", "ignore"}, NEW a \in Nat,
         NEW b \in Nat, NEW c \in Nat
  PROVE  Stage(f, a, b, c) \in StageRec
  BY DEF Stage, StageRec

\* A list of processes: the context first, then every batch.
LEMMA ListPlan ==
  /\ ProcessList \in Seq(StageRec) /\ Len(ProcessList) = Batches + 1
  /\ ProcessList[1] = Stage("reject", 2, 1, 0)
  /\ \A i \in 2 .. Batches + 1 :
       \E n \in Nat : /\ ProcessList[i] = Stage("count", n, 0, 0)
                      /\ Through(i - 1) = Through(i - 2) + n
<1> DEFINE n(k) == IF k < Batches THEN Batch ELSE Candidates - Batch * (k - 1)
           rest == [k \in 1 .. Batches |-> Stage("count", n(k), 0, 0)]
<1>1. \A k \in 1 .. Batches :
        n(k) \in Nat /\ Through(k) = Through(k - 1) + n(k)
  BY ThroughFacts
<1>2. ProcessList = <<Stage("reject", 2, 1, 0)>> \o rest
  BY DEF ProcessList
<1> HIDE DEF n
<1>3. \A k \in 1 .. Batches : Stage("count", n(k), 0, 0) \in StageRec
  BY <1>1, StageType
<1>4. rest \in Seq(StageRec) /\ Len(rest) = Batches
  BY <1>3, BatchFacts
<1>5. <<Stage("reject", 2, 1, 0)>> \in Seq(StageRec)
  BY StageType
<1>6. \A k \in 1 .. Batches : rest[k] = Stage("count", n(k), 0, 0)
  OBVIOUS
<1> HIDE DEF rest
<1>7. /\ ProcessList \in Seq(StageRec) /\ Len(ProcessList) = Batches + 1
      /\ ProcessList[1] = Stage("reject", 2, 1, 0)
      /\ \A i \in 2 .. Batches + 1 : ProcessList[i] = rest[i - 1]
  BY <1>2, <1>4, <1>5, ConcatProperties, BatchFacts
<1>8. ASSUME NEW i \in 2 .. Batches + 1
      PROVE  \E m \in Nat : /\ ProcessList[i] = Stage("count", m, 0, 0)
                            /\ Through(i - 1) = Through(i - 2) + m
  <2>1. i - 1 \in 1 .. Batches /\ (i - 1) - 1 = i - 2
    BY BatchFacts
  <2> QED  BY <1>1, <1>6, <1>7, <2>1
<1> QED  BY <1>7, <1>8

\* Every kind of read has a plan, and only the CPU sample of the host summary
\* may be skipped.
LEMMA PlanFacts ==
  ASSUME NEW kind \in AllKinds
  PROVE  /\ Plan[kind] \in Seq(StageRec) /\ Len(Plan[kind]) >= 1
         /\ \A i \in 1 .. Len(Plan[kind]) :
              Plan[kind][i].fail = "sample" => kind = "host"
<1> USE StageType
<1>1. CASE kind \in {"services", "service", "logs"}
  <2>1. Plan[kind] = OneCommand
    BY <1>1 DEF Plan
  <2> QED  BY <2>1 DEF OneCommand, Stage
<1>2. CASE kind = "filesystems"
  BY <1>2 DEF Plan, Filesystems, Stage
<1>3. CASE kind = "listeners"
  BY <1>3 DEF Plan, Listeners, Stage
<1>4. CASE kind = "process"
  BY <1>4 DEF Plan, OneProcess, Stage
<1>5. CASE kind = "host"
  <2>1. CpuSample \in Seq(StageRec) /\ Len(CpuSample) = 3
    BY DEF CpuSample, Stage
  <2> QED  BY <1>5, <2>1, ConcatProperties DEF Plan, HostSummary
<1>6. CASE kind = "processes"
  <2>1. Plan[kind] = ProcessList
    BY <1>6 DEF Plan
  <2>2. \A i \in 1 .. Len(ProcessList) : ProcessList[i].fail # "sample"
    <3> SUFFICES ASSUME NEW i \in 1 .. Batches + 1
                 PROVE  ProcessList[i].fail # "sample"
      BY ListPlan
    <3>1. i = 1 \/ i \in 2 .. Batches + 1
      BY BatchFacts
    <3>2. CASE i = 1
      BY <3>2, ListPlan DEF Stage
    <3>3. CASE i \in 2 .. Batches + 1
      <4>1. PICK n \in Nat : ProcessList[i] = Stage("count", n, 0, 0)
        BY <3>3, ListPlan
      <4> QED  BY <4>1 DEF Stage
    <3> QED  BY <3>1, <3>2, <3>3
  <2> QED  BY <2>1, <2>2, ListPlan, BatchFacts
<1> QED  BY <1>1, <1>2, <1>3, <1>4, <1>5, <1>6 DEF AllKinds

\* What a read has counted so far.
Listing(x) ==
  x.kind = "processes" =>
    /\ x.stage = 1 => x.items + x.failures = 0
    /\ x.stage > 1 =>
         /\ x.items + x.failures + x.work["file"] = Through(x.stage - 1)
         /\ \A s \in States \ {"file"} : x.work[s] = 0
    /\ x.stage = 0 /\ x.verdict = "OK" => x.items + x.failures = Candidates

\* A read is at a stage of its plan, and has counted what it should have.
Sound(x) == x \in ReadRec /\ x.stage <= Len(Plan[x.kind]) /\ Listing(x)

\* The invariant.
ReadsInv ==
  /\ up \in BOOLEAN /\ ss \in {"pending", "found", "missing"}
  /\ read \in [Reads -> ReadRec]
  /\ \A r \in Reads : Sound(read[r])

\* A read with nothing outstanding has no part in any state.
LEMMA OutstandingFacts ==
  ASSUME NEW w \in [States -> Nat], Outstanding(w) = 0
  PROVE  \A s \in States : w[s] = 0
<1> DEFINE a == w["file"]     b == w["bare"]   c == w["command"]
           d == w["expired"]  e == w["flooded"]
           f == w["killed"]   g == w["deaf"]
<1>1. \A s \in States : w[s] \in Nat
  OBVIOUS
<1>2. a \in Nat /\ b \in Nat /\ c \in Nat /\ d \in Nat /\ e \in Nat
        /\ f \in Nat /\ g \in Nat
  BY <1>1 DEF States
<1>3. a + b + c + d + e + f + g = 0
  BY DEF Outstanding
<1>4. \A s \in States : w[s] \in {a, b, c, d, e, f, g}
  BY DEF States
<1> HIDE DEF a, b, c, d, e, f, g
<1>5. a = 0 /\ b = 0 /\ c = 0 /\ d = 0 /\ e = 0 /\ f = 0 /\ g = 0
  BY <1>2, <1>3
<1> QED  BY <1>4, <1>5

\* An abort leaves counts of parts.
LEMMA KillsFacts ==
  ASSUME NEW w \in [States -> Nat]
  PROVE  \A v \in Kills(w) :
           /\ v \in [States -> Nat]
  BY DEF Kills, States

\* A read may settle, if a list of processes that is fine is complete.
LEMMA SettledSound ==
  ASSUME NEW x \in ReadRec, NEW v \in Codes,
         v = "OK" /\ x.kind = "processes" => x.items + x.failures = Candidates
  PROVE  Sound(Settled(x, v))
<1> DEFINE y == Settled(x, v)
<1>1. /\ y \in ReadRec /\ y.stage = 0 /\ y.kind = x.kind /\ y.items = x.items
      /\ y.failures = x.failures /\ y.verdict = v
  BY DEF Settled, ReadRec
<1>2. Len(Plan[x.kind]) \in Nat
  BY PlanFacts DEF ReadRec
<1> QED  BY <1>1, <1>2 DEF Sound, Listing

\* An abort settles a read with a timeout, whatever it had counted.
LEMMA CutSound ==
  ASSUME NEW x \in ReadRec
  PROVE  \A y \in Cut(x) : Sound(y)
<1> SUFFICES ASSUME NEW w \in Kills(x.work)
             PROVE  Sound(Settled([x EXCEPT !.work = w], "TOOL_TIMEOUT"))
  BY DEF Cut
<1>1. [x EXCEPT !.work = w] \in ReadRec
  BY KillsFacts DEF ReadRec
<1> QED  BY <1>1, SettledSound DEF Codes

\* What starts with a stage: of a batch, only files.
LEMMA StartedFacts ==
  ASSUME NEW w \in [States -> Nat], NEW stage \in StageRec
  PROVE  /\ Started(w, stage) \in [States -> Nat]
         /\ Started(w, stage)["file"] = w["file"] + stage.file
         /\ \A t \in States \ {"file"} : stage.bare = 0 /\ stage.command = 0 =>
              Started(w, stage)[t] = w[t]
<1>1. /\ stage["file"] \in Nat /\ stage["bare"] \in Nat
      /\ stage["command"] \in Nat
      /\ DOMAIN stage = {"fail", "file", "bare", "command"}
  BY DEF StageRec
<1>2. \A s \in States \cap DOMAIN stage : stage[s] \in Nat
  BY <1>1 DEF States
<1>3. "file" \in States
  BY DEF States
<1>4. \A s \in States : Started(w, stage)[s] =
        IF s \in DOMAIN stage THEN w[s] + stage[s] ELSE w[s]
  BY DEF Started
<1>5. \A s \in States : w[s] \in Nat
  OBVIOUS
<1>6. Started(w, stage) \in [States -> Nat]
  BY <1>2, <1>5 DEF Started
<1>7. \A s \in States \ {"file"} : stage.bare = 0 /\ stage.command = 0 =>
              Started(w, stage)[s] = w[s]
  BY <1>1, <1>4, <1>5 DEF States
<1> QED  BY <1>1, <1>3, <1>4, <1>6, <1>7

\* The read goes on from one stage to the next.
LEMMA EnteredSound ==
  ASSUME NEW x \in ReadRec, NEW s \in Nat \ {0}, s <= Len(Plan[x.kind]) + 1,
         x.kind = "processes" =>
           /\ \A t \in States : x.work[t] = 0
           /\ x.items + x.failures = IF s = 1 THEN 0 ELSE Through(s - 2)
  PROVE  \A y \in Entered(x, s) : Sound(y)
<1>1. x.kind \in AllKinds /\ Len(Plan[x.kind]) \in Nat
  BY PlanFacts DEF ReadRec
<1>2. Plan["processes"] = ProcessList
  BY DEF Plan
<1>3. CASE s > Len(Plan[x.kind])
  <2>1. s = Len(Plan[x.kind]) + 1
    BY <1>1, <1>3
  <2>2. x.kind = "processes" => x.items + x.failures = Candidates
    <3>1. SUFFICES ASSUME x.kind = "processes"
                   PROVE  x.items + x.failures = Candidates
      OBVIOUS
    <3>2. s = Batches + 2
      BY <2>1, <3>1, <1>2, ListPlan, BatchFacts
    <3>3. s # 1 /\ s - 2 = Batches
      BY <3>2, BatchFacts
    <3> QED  BY <3>1, <3>3, ThroughFacts
  <2>3. \A verdict \in Final(x.kind) : Sound(Settled(x, verdict))
    BY <2>2, SettledSound DEF Final, ServiceFound, LogsReadable, Codes
  <2> QED  BY <1>3, <2>3 DEF Entered
<1>4. CASE s <= Len(Plan[x.kind])
  <2> DEFINE stage == Plan[x.kind][s]
             begun == [x EXCEPT !.stage = s, !.work = Started(@, stage)]
  <2>1. stage \in StageRec
    BY <1>1, <1>4, PlanFacts
  <2>2. /\ Started(x.work, stage) \in [States -> Nat]
        /\ Started(x.work, stage)["file"] = x.work["file"] + stage.file
        /\ \A t \in States \ {"file"} : stage.bare = 0 /\ stage.command = 0 =>
             Started(x.work, stage)[t] = x.work[t]
    BY <2>1, StartedFacts DEF ReadRec
  <2>3. /\ begun \in ReadRec /\ begun.stage = s /\ begun.kind = x.kind
        /\ begun.items = x.items /\ begun.failures = x.failures
        /\ begun.work = Started(x.work, stage)
    BY <2>2 DEF ReadRec
  <2> HIDE DEF begun
  <2>4. Listing(begun)
    <3>1. SUFFICES ASSUME x.kind = "processes" PROVE Listing(begun)
      BY <2>3 DEF Listing
    <3>2. CASE s = 1
      BY <3>1, <3>2, <2>3 DEF Listing
    <3>3. CASE s > 1
      <4>1. s \in 2 .. Batches + 1
        BY <1>4, <3>1, <3>3, <1>2, ListPlan, BatchFacts
      <4>2. PICK n \in Nat : /\ stage = Stage("count", n, 0, 0)
                             /\ Through(s - 1) = Through(s - 2) + n
        BY <4>1, <3>1, <1>2, ListPlan
      <4>3. /\ begun.work["file"] = n
            /\ \A t \in States \ {"file"} : begun.work[t] = 0
        BY <4>2, <2>2, <2>3, <3>1 DEF Stage, States
      <4> QED  BY <4>2, <4>3, <3>1, <3>3, <2>3 DEF Listing
    <3> QED  BY <3>2, <3>3
  <2>5. Sound(begun)
    BY <2>3, <2>4, <1>4 DEF Sound
  <2>6. Sound(Settled(x, "TOOL_TIMEOUT"))
    BY SettledSound DEF Codes
  <2>7. \A y \in Cut(begun) : Sound(y)
    BY <2>3, CutSound
  <2>8. Entered(x, s) \in {{Settled(x, "TOOL_TIMEOUT")}, Cut(begun), {begun}}
    BY <1>1, <1>4 DEF Entered, begun
  <2> QED  BY <2>5, <2>6, <2>7, <2>8
<1> QED  BY <1>1, <1>3, <1>4

\* A part that has ended counts for one item, for one failure or for neither.
LEMMA ResolvedSound ==
  ASSUME NEW x \in ReadRec, x.stage \in 1 .. Len(Plan[x.kind]),
         NEW w \in [States -> Nat], NEW item \in {0, 1},
         x.kind = "processes" =>
           /\ x.stage = 1 => x.items + x.failures + item = 0
           /\ x.stage > 1 =>
                /\ x.items + x.failures + item + w["file"] =
                     Through(x.stage - 1)
                /\ \A s \in States \ {"file"} : w[s] = 0
  PROVE  \A y \in Resolved(x, w, item) : Sound(y)
<1> DEFINE next == [x EXCEPT !.work = w, !.items = @ + item]
<1>0. x.items + item \in Nat
  BY DEF ReadRec
<1>1. /\ next \in ReadRec /\ next.kind = x.kind /\ next.stage = x.stage
      /\ next.failures = x.failures /\ next.items = x.items + item
      /\ next.work = w
  BY <1>0 DEF ReadRec
<1> HIDE DEF next
<1>2. x.kind \in AllKinds /\ Len(Plan[x.kind]) \in Nat /\ x.stage \in Nat
        /\ x.items \in Nat /\ x.failures \in Nat
  BY PlanFacts DEF ReadRec
<1>3. CASE Outstanding(w) = 0
  <2>1. \A s \in States : w[s] = 0
    BY <1>3, OutstandingFacts
  <2>2. w["file"] = 0
    BY <2>1 DEF States
  <2>3. \A y \in Entered(next, x.stage + 1) : Sound(y)
    <3>1. x.kind = "processes" =>
            x.items + item + x.failures =
              IF x.stage + 1 = 1 THEN 0 ELSE Through(x.stage + 1 - 2)
      <4>1. CASE x.stage = 1
        BY <4>1, <1>2, ThroughFacts
      <4>2. CASE x.stage > 1
        <5>1. x.stage + 1 - 2 = x.stage - 1
          BY <1>2
        <5> QED  BY <4>2, <1>2, <2>2, <5>1
      <4> QED  BY <4>1, <4>2, <1>2
    <3> DEFINE s == x.stage + 1
    <3>2. s \in Nat \ {0} /\ s <= Len(Plan[next.kind]) + 1
      BY <1>1, <1>2
    <3>3. next.kind = "processes" =>
            /\ \A t \in States : next.work[t] = 0
            /\ next.items + next.failures = IF s = 1 THEN 0 ELSE Through(s - 2)
      BY <1>1, <2>1, <3>1
    <3> HIDE DEF s
    <3>4. \A y \in Entered(next, s) : Sound(y)
      BY <1>1, <3>2, <3>3, EnteredSound
    <3> QED  BY <3>4 DEF s
  <2>4. Resolved(x, w, item) = Entered(next, x.stage + 1)
    BY <1>3 DEF Resolved, next
  <2> QED  BY <2>3, <2>4
<1>4. CASE Outstanding(w) # 0
  <2>1. Sound(next)
    BY <1>1, <1>2 DEF Sound, Listing
  <2>2. Resolved(x, w, item) = {next}
    BY <1>4 DEF Resolved, next
  <2> QED  BY <2>1, <2>2
<1> QED  BY <1>3, <1>4

\* One part fewer.
LEMMA EndedFacts ==
  ASSUME NEW w \in [States -> Nat], NEW s \in States, w[s] > 0
  PROVE  /\ Ended(w, s) \in [States -> Nat] /\ Ended(w, s)[s] = w[s] - 1
         /\ \A t \in States \ {s} : Ended(w, s)[t] = w[t]
  BY DEF Ended

\* What a failure does to a read under way; for a list of processes, it rejects
\* the context and is counted in every batch.
LEMMA FailFacts ==
  ASSUME NEW x, Sound(x), x.stage # 0
  PROVE  /\ x.stage \in 1 .. Len(Plan[x.kind])
         /\ Plan[x.kind][x.stage].fail
              \in {"reject", "count", "sample", "ignore"}
         /\ Plan[x.kind][x.stage].fail = "sample" => x.kind = "host"
         /\ x.kind = "processes" =>
              Plan[x.kind][x.stage].fail =
                IF x.stage = 1 THEN "reject" ELSE "count"
<1>1. x.kind \in AllKinds /\ x.stage \in Nat
  BY DEF Sound, ReadRec
<1>2. x.stage \in 1 .. Len(Plan[x.kind])
  BY <1>1, PlanFacts DEF Sound
<1>3. Plan[x.kind][x.stage] \in StageRec
  BY <1>1, <1>2, PlanFacts
<1>4. ASSUME x.kind = "processes"
      PROVE  Plan[x.kind][x.stage].fail =
               IF x.stage = 1 THEN "reject" ELSE "count"
  <2>1. Plan[x.kind] = ProcessList
    BY <1>4 DEF Plan
  <2>2. x.stage = 1 \/ x.stage \in 2 .. Batches + 1
    BY <1>2, <2>1, ListPlan, BatchFacts
  <2>3. CASE x.stage = 1
    BY <2>1, <2>3, ListPlan DEF Stage
  <2>4. CASE x.stage \in 2 .. Batches + 1
    <3>1. PICK n \in Nat : ProcessList[x.stage] = Stage("count", n, 0, 0)
      BY <2>4, ListPlan
    <3> QED  BY <2>1, <2>4, <3>1 DEF Stage
  <2> QED  BY <2>2, <2>3, <2>4
<1> QED  BY <1>1, <1>2, <1>3, <1>4, PlanFacts DEF StageRec

\* What a settled read left behind is nothing to it.
LEMMA LeftSound ==
  ASSUME NEW x, Sound(x), x.stage = 0, NEW w \in [States -> Nat]
  PROVE  Sound([x EXCEPT !.work = w])
<1> DEFINE y == [x EXCEPT !.work = w]
<1>1. /\ y \in ReadRec /\ y.kind = x.kind /\ y.stage = 0 /\ y.items = x.items
      /\ y.failures = x.failures /\ y.verdict = x.verdict
  BY DEF Sound, ReadRec
<1> QED  BY <1>1 DEF Sound, Listing

\* A part succeeds.
LEMMA SucceededSound ==
  ASSUME NEW x, NEW s \in States, Sound(x), x.work[s] > 0
  PROVE  \A y \in Succeeded(x, Ended(x.work, s)) : Sound(y)
<1> DEFINE w == Ended(x.work, s)
<1>1. x \in ReadRec /\ x.work \in [States -> Nat] /\ x.items \in Nat
        /\ x.failures \in Nat
  BY DEF Sound, ReadRec
<1>2. /\ w \in [States -> Nat] /\ w[s] = x.work[s] - 1
      /\ \A t \in States \ {s} : w[t] = x.work[t]
  BY <1>1, EndedFacts
<1> HIDE DEF w
<1>3. CASE x.stage = 0
  BY <1>2, <1>3, LeftSound DEF Succeeded, w
<1>4. CASE x.stage # 0
  <2> DEFINE item == IF Plan[x.kind][x.stage].fail = "count" THEN 1 ELSE 0
  <2>1. item \in {0, 1}
    OBVIOUS
  <2>2. x.kind = "processes" => item = IF x.stage = 1 THEN 0 ELSE 1
    BY <1>4, FailFacts
  <2> HIDE DEF item
  <2>3. x.kind = "processes" =>
           /\ x.stage = 1 => x.items + x.failures + item = 0
           /\ x.stage > 1 =>
                /\ x.items + x.failures + item + w["file"] =
                     Through(x.stage - 1)
                /\ \A t \in States \ {"file"} : w[t] = 0
    <3>1. CASE x.stage = 1
      BY <3>1, <2>2, <1>1 DEF Sound, Listing
    <3>2. CASE x.stage > 1
      <4>1. x.kind = "processes" => s = "file"
        BY <3>2 DEF Sound, Listing
      <4>2. "file" \in States
        BY DEF States
      <4> QED  BY <3>2, <4>1, <4>2, <2>2, <1>1, <1>2 DEF Sound, Listing
    <3> QED  BY <1>1, <1>4, <3>1, <3>2 DEF ReadRec
  <2>4. \A y \in Resolved(x, w, item) : Sound(y)
    BY <1>1, <1>2, <1>4, <2>1, <2>3, FailFacts, ResolvedSound
  <2>5. Succeeded(x, w) = Resolved(x, w, item)
    BY <1>4 DEF Succeeded, item
  <2> QED  BY <2>4, <2>5 DEF w
<1> QED  BY <1>3, <1>4

\* A part fails: in each of the five ways, the read stays sound.
LEMMA FailedSound ==
  ASSUME NEW x, NEW s \in States, Sound(x), x.work[s] > 0,
         NEW code \in Codes \ {"OK"}
  PROVE  \A y \in Failed(x, Ended(x.work, s), code) : Sound(y)
<1> DEFINE w == Ended(x.work, s)
           tally == [x EXCEPT !.failures = @ + 1]
           sampled == [x EXCEPT !.failures = @ + 1, !.work = w]
<1>1. x \in ReadRec /\ x.work \in [States -> Nat] /\ x.items \in Nat
        /\ x.failures \in Nat /\ x.kind \in AllKinds
  BY DEF Sound, ReadRec
<1>2. /\ w \in [States -> Nat] /\ w[s] = x.work[s] - 1
      /\ \A t \in States \ {s} : w[t] = x.work[t]
  BY <1>1, EndedFacts
<1> HIDE DEF w
<1>3. CASE x.stage = 0
  BY <1>2, <1>3, LeftSound DEF Failed, w
<1>4. CASE x.stage # 0 /\ Plan[x.kind][x.stage].fail = "reject"
  <2>1. [x EXCEPT !.work = w] \in ReadRec
    BY <1>1, <1>2 DEF ReadRec
  <2>2. Sound(Settled([x EXCEPT !.work = w], code))
    BY <2>1, SettledSound
  <2>3. Failed(x, w, code) = {Settled([x EXCEPT !.work = w], code)}
    BY <1>4 DEF Failed
  <2> QED  BY <2>2, <2>3 DEF w
<1>5. CASE x.stage # 0 /\ Plan[x.kind][x.stage].fail = "count"
  <2>1. /\ tally \in ReadRec /\ tally.kind = x.kind
        /\ tally.stage = x.stage /\ tally.items = x.items
        /\ tally.failures = x.failures + 1
    BY <1>1 DEF ReadRec
  <2> HIDE DEF tally
  <2>2. x.kind = "processes" =>
          /\ x.stage > 1
          /\ x.items + (x.failures + 1) + 0 + w["file"] = Through(x.stage - 1)
          /\ \A t \in States \ {"file"} : w[t] = 0
    <3> SUFFICES ASSUME x.kind = "processes"
                 PROVE  /\ x.stage > 1
                        /\ x.items + (x.failures + 1) + 0 + w["file"] =
                             Through(x.stage - 1)
                        /\ \A t \in States \ {"file"} : w[t] = 0
      OBVIOUS
    <3>1. x.stage > 1
      BY <1>1, <1>5, FailFacts DEF ReadRec
    <3>2. s = "file" /\ "file" \in States
      BY <3>1 DEF Sound, Listing, States
    <3> QED  BY <3>1, <3>2, <1>1, <1>2 DEF Sound, Listing
  <2>3. x.stage \in 1 .. Len(Plan[x.kind])
    BY <1>5, FailFacts
  <2>4. \A y \in Resolved(tally, w, 0) : Sound(y)
    BY <1>2, <2>1, <2>2, <2>3, ResolvedSound
  <2>5. Failed(x, w, code) = Resolved(tally, w, 0)
    BY <1>5 DEF Failed, tally
  <2> QED  BY <2>4, <2>5 DEF w
<1>6. CASE x.stage # 0 /\ Plan[x.kind][x.stage].fail = "sample"
  <2>1. x.kind = "host"
    BY <1>6, FailFacts
  <2>2. sampled \in ReadRec /\ sampled.kind = "host"
    <3>1. x.failures + 1 \in Nat
      BY <1>1
    <3> QED  BY <1>1, <1>2, <2>1, <3>1 DEF ReadRec
  <2> HIDE DEF sampled
  <2>3. Len(Plan["host"]) \in Nat \ {0} /\ Plan.host = Plan["host"]
    BY <1>1, <2>1, PlanFacts
  <2>4. \A y \in Entered(sampled, Len(Plan.host)) : Sound(y)
    BY <2>2, <2>3, EnteredSound
  <2>5. Failed(x, w, code) = Entered(sampled, Len(Plan.host))
    BY <1>6 DEF Failed, sampled
  <2> QED  BY <2>4, <2>5 DEF w
<1>7. CASE x.stage # 0 /\ Plan[x.kind][x.stage].fail = "ignore"
  <2>1. x.kind # "processes"
    BY <1>7, FailFacts
  <2>2. \A y \in Resolved(x, w, 0) : Sound(y)
    BY <1>1, <1>2, <1>7, <2>1, FailFacts, ResolvedSound
  <2>3. Failed(x, w, code) = Resolved(x, w, 0)
    BY <1>7 DEF Failed
  <2> QED  BY <2>2, <2>3 DEF w
<1> QED  BY <1>3, <1>4, <1>5, <1>6, <1>7, FailFacts

\* The invariant holds at the start.
LEMMA ReadsStart == ReadsInit => ReadsInv
<1> SUFFICES ASSUME ReadsInit PROVE ReadsInv
  OBVIOUS
<1>1. NoRead \in ReadRec
  BY DEF NoRead, NoWork, ReadRec, AllKinds, Codes
<1>2. Sound(NoRead)
  <2>1. "services" \in AllKinds
    BY DEF AllKinds
  <2>2. Len(Plan["services"]) >= 0
    BY <2>1, PlanFacts
  <2> QED  BY <1>1, <2>2 DEF Sound, Listing, NoRead
<1> QED  BY <1>1, <1>2 DEF ReadsInit, ReadsInv

\* A step of one read to a sound outcome keeps the invariant.
LEMMA BecomesKeeps ==
  ASSUME ReadsInv, NEW r \in Reads, NEW outcomes, Becomes(r, outcomes),
         \A y \in outcomes : Sound(y), UNCHANGED <<up, ss>>
  PROVE  ReadsInv'
<1>1. PICK y \in outcomes : read' = [read EXCEPT ![r] = y]
  BY DEF Becomes
<1>2. Sound(y) /\ y \in ReadRec
  BY <1>1 DEF Sound
<1> QED  BY <1>1, <1>2 DEF ReadsInv

\* Moving a child from one state to another is nothing to a list of processes.
LEMMA MovedSound ==
  ASSUME NEW x, Sound(x), NEW w \in [States -> Nat],
         x.kind = "processes" /\ x.stage > 1 => w = x.work
  PROVE  Sound([x EXCEPT !.work = w])
<1> DEFINE y == [x EXCEPT !.work = w]
<1>1. /\ y \in ReadRec /\ y.kind = x.kind /\ y.stage = x.stage
      /\ y.items = x.items /\ y.failures = x.failures
      /\ y.verdict = x.verdict /\ y.work = w
  BY DEF Sound, ReadRec
<1> HIDE DEF y
<1>2. Sound(y)
  BY <1>1 DEF Sound, Listing
<1> QED  BY <1>2 DEF y

\* Every step of a read keeps the invariant.
LEMMA ReadStepKeeps ==
  ASSUME ReadsInv, NEW r \in Reads, ReadStep(r)
  PROVE  ReadsInv'
<1> DEFINE x == read[r]
<1>1. Sound(x) /\ x \in ReadRec /\ x.work \in [States -> Nat]
        /\ x.kind \in AllKinds /\ x.stage \in Nat
  BY DEF ReadsInv, Sound, ReadRec
<1>2. {"file", "bare", "command", "expired", "flooded", "killed", "deaf"}
        \subseteq States
  BY DEF States
<1>3. ASSUME NEW s \in States \ {"file"}, x.work[s] > 0
      PROVE  ~(x.kind = "processes" /\ x.stage > 1)
  BY <1>1, <1>3 DEF Sound, Listing
<1>4. {"HOST_UNAVAILABLE", "PERMISSION_DENIED", "COMMAND_UNAVAILABLE", "raw",
       "RESOURCE_NOT_FOUND", "TOOL_TIMEOUT", "OUTPUT_TOO_LARGE"}
        \subseteq Codes \ {"OK"}
  BY DEF Codes
<1> HIDE DEF x
<1>5. ASSUME NEW kind \in Kinds[r], NEW signal \in BOOLEAN,
             Begin(r, kind, signal)
      PROVE  ReadsInv'
  <2> DEFINE b == [NoRead EXCEPT !.kind = kind, !.signal = signal]
             outcomes ==
               Entered(b, 1) \cup {Settled(b, code) : code \in Refused(kind)}
  <2>1. kind \in AllKinds
    BY <1>5, ReadsAssumption
  <2>2. /\ b \in ReadRec /\ b.kind = kind /\ b.items = 0 /\ b.failures = 0
        /\ \A t \in States : b.work[t] = 0
    BY <2>1 DEF NoRead, NoWork, ReadRec, Codes, AllKinds
  <2> HIDE DEF b
  <2>3. \A y \in Entered(b, 1) : Sound(y)
    <3>1. Len(Plan[b.kind]) \in Nat
      BY <2>1, <2>2, PlanFacts
    <3> QED  BY <2>2, <3>1, EnteredSound
  <2>4. \A code \in Refused(kind) : Sound(Settled(b, code))
    BY <2>2, SettledSound DEF Refused, Codes
  <2>5. \A y \in outcomes : Sound(y)
    BY <2>3, <2>4
  <2>6. Becomes(r, outcomes) /\ UNCHANGED <<up, ss>>
    BY <1>5 DEF Begin, b
  <2> HIDE DEF outcomes
  <2> QED  BY <2>5, <2>6, BecomesKeeps
<1>6. CASE Abort(r)
  <2> DEFINE a == [x EXCEPT !.aborted = TRUE]
             outcomes == IF Listening(a.work) THEN Cut(a) ELSE {a}
  <2>1. a \in ReadRec /\ Sound(a)
    BY <1>1 DEF Sound, Listing, ReadRec
  <2> HIDE DEF a
  <2>2. \A y \in outcomes : Sound(y)
    BY <2>1, CutSound
  <2>3. Becomes(r, outcomes) /\ UNCHANGED <<up, ss>>
    BY <1>6 DEF Abort, a, x
  <2> HIDE DEF outcomes
  <2> QED  BY <2>2, <2>3, BecomesKeeps
<1>7. CASE FileEnds(r)
  <2> DEFINE w == Ended(x.work, "file")
  <2>1. x.work["file"] > 0 /\ UNCHANGED <<up, ss>>
    BY <1>7 DEF FileEnds, x
  <2>2. /\ \A y \in Succeeded(x, w) : Sound(y)
        /\ \A y \in Failed(x, w, "raw") : Sound(y)
        /\ \A y \in Failed(x, w, "RESOURCE_NOT_FOUND") : Sound(y)
    BY <1>1, <1>2, <1>4, <2>1, SucceededSound, FailedSound
  <2>3. \E o \in {Succeeded(x, w), Failed(x, w, "raw"),
                  Failed(x, w, "RESOURCE_NOT_FOUND")} : Becomes(r, o)
    BY <1>7 DEF FileEnds, x
  <2> HIDE DEF w
  <2> QED  BY <2>1, <2>2, <2>3, BecomesKeeps
<1>8. CASE BareEnds(r)
  <2> DEFINE w == Ended(x.work, "bare")
  <2>1. x.work["bare"] > 0 /\ UNCHANGED <<up, ss>>
    BY <1>8 DEF BareEnds, x
  <2>2. /\ \A y \in Succeeded(x, w) : Sound(y)
        /\ \A y \in Failed(x, w, "raw") : Sound(y)
        /\ \A y \in Failed(x, w, "COMMAND_UNAVAILABLE") : Sound(y)
    BY <1>1, <1>2, <1>4, <2>1, SucceededSound, FailedSound
  <2>3. \E o \in {Succeeded(x, w), Failed(x, w, "raw"),
                  Failed(x, w, "COMMAND_UNAVAILABLE")} : Becomes(r, o)
    BY <1>8 DEF BareEnds, x
  <2> HIDE DEF w
  <2> QED  BY <2>1, <2>2, <2>3, BecomesKeeps
<1>9. CASE CommandEnds(r)
  <2> DEFINE w == Ended(x.work, "command")
  <2>1. x.work["command"] > 0 /\ UNCHANGED <<up, ss>>
    BY <1>9 DEF CommandEnds, x
  <2>2. /\ \A y \in Succeeded(x, w) : Sound(y)
        /\ \A code \in Codes \ {"OK"} : \A y \in Failed(x, w, code) : Sound(y)
    BY <1>1, <1>2, <2>1, SucceededSound, FailedSound
  <2>3. \/ Becomes(r, Succeeded(x, w))
        \/ \E code \in Codes \ {"OK"} : Becomes(r, Failed(x, w, code))
    BY <1>4, <1>9 DEF CommandEnds, x
  <2> HIDE DEF w
  <2> QED  BY <2>1, <2>2, <2>3, BecomesKeeps
<1>10. CASE Expire(r) \/ Flood(r)
  <2>1. x.work["command"] > 0 /\ UNCHANGED <<up, ss>>
    BY <1>10 DEF Expire, Flood, x
  <2>2. PICK s \in {"expired", "flooded", "deaf"} :
          Becomes(r, {[x EXCEPT !.work = Moved(@, "command", s)]})
    BY <1>10 DEF Expire, Flood, x
  <2>3. Moved(x.work, "command", s) \in [States -> Nat]
    BY <1>1, <1>2, <2>1 DEF Moved
  <2>4. Sound([x EXCEPT !.work = Moved(x.work, "command", s)])
    BY <1>1, <1>2, <1>3, <2>1, <2>3, MovedSound
  <2>5. [x EXCEPT !.work = Moved(@, "command", s)] =
          [x EXCEPT !.work = Moved(x.work, "command", s)]
    BY <1>1 DEF ReadRec
  <2> QED  BY <2>1, <2>2, <2>4, <2>5, BecomesKeeps
<1>11. CASE ChildCloses(r)
  <2>1. UNCHANGED <<up, ss>>
    BY <1>11 DEF ChildCloses
  <2>2. CASE /\ x.work["expired"] > 0
             /\ Becomes(r, Failed(x, Ended(x.work, "expired"), "TOOL_TIMEOUT"))
    <3>1. \A y \in Failed(x, Ended(x.work, "expired"), "TOOL_TIMEOUT") :
            Sound(y)
      BY <1>1, <1>2, <1>4, <2>2, FailedSound
    <3> QED  BY <2>1, <2>2, <3>1, BecomesKeeps
  <2>3. CASE /\ x.work["flooded"] > 0
             /\ Becomes(r, Failed(x, Ended(x.work, "flooded"),
                                  "OUTPUT_TOO_LARGE"))
    <3>1. \A y \in Failed(x, Ended(x.work, "flooded"), "OUTPUT_TOO_LARGE") :
            Sound(y)
      BY <1>1, <1>2, <1>4, <2>3, FailedSound
    <3> QED  BY <2>1, <2>3, <3>1, BecomesKeeps
  <2>4. CASE /\ x.work["killed"] > 0
             /\ Becomes(r, {[x EXCEPT !.work = Ended(@, "killed")]})
    <3>1. Ended(x.work, "killed") \in [States -> Nat]
      BY <1>1, <1>2, <2>4, EndedFacts
    <3>2. Sound([x EXCEPT !.work = Ended(x.work, "killed")])
      BY <1>1, <1>2, <1>3, <2>4, <3>1, MovedSound
    <3>3. [x EXCEPT !.work = Ended(@, "killed")] =
            [x EXCEPT !.work = Ended(x.work, "killed")]
      BY <1>1 DEF ReadRec
    <3> QED  BY <2>1, <2>4, <3>2, <3>3, BecomesKeeps
  <2> QED  BY <1>11, <2>2, <2>3, <2>4 DEF ChildCloses, x
<1> QED  BY <1>5, <1>6, <1>7, <1>8, <1>9, <1>10, <1>11 DEF ReadStep

\* So does every step of the process.
LEMMA ReadsKeep == ReadsInv /\ [ReadsNext]_readVars => ReadsInv'
<1> SUFFICES ASSUME ReadsInv, [ReadsNext]_readVars PROVE ReadsInv'
  OBVIOUS
<1>1. CASE \E r \in Reads : ReadStep(r)
  BY <1>1, ReadStepKeeps
<1>2. ASSUME read' = [r \in Reads |-> NoRead], up' = FALSE
      PROVE  read' \in [Reads -> ReadRec] /\ \A r \in Reads : Sound(read[r])'
  <2>1. NoRead \in ReadRec /\ Sound(NoRead)
    <3>1. NoRead \in ReadRec
      BY DEF NoRead, NoWork, ReadRec, AllKinds, Codes
    <3>2. "services" \in AllKinds
      BY DEF AllKinds
    <3>3. Len(Plan["services"]) >= 0
      BY <3>2, PlanFacts
    <3> QED  BY <3>1, <3>3 DEF Sound, Listing, NoRead
  <2> QED  BY <1>2, <2>1
<1>3. CASE Resolve
  BY <1>2, <1>3 DEF Resolve, Stops, ReadsInv
<1>4. CASE Stop
  BY <1>2, <1>4 DEF Stop, Stops, ReadsInv
<1>5. CASE Restart
  BY <1>5 DEF Restart, ReadsInv
<1>6. CASE UNCHANGED readVars
  BY <1>6 DEF readVars, ReadsInv
<1> QED  BY <1>1, <1>3, <1>4, <1>5, <1>6 DEF ReadsNext

\* So it holds in every reachable state.
LEMMA ReadsInvariant == ReadsSpec => []ReadsInv
  BY ReadsStart, ReadsKeep, PTL DEF ReadsSpec

\* A list of processes accounts for every process, and no part of any read is
\* counted twice or lost (procfs.ts:45-62, command-runner.ts:17-47).
THEOREM ReadsAreCounted == ReadsSpec => []ReadsCounted
<1>1. ReadsInv => ReadsCounted
  <2> SUFFICES ASSUME ReadsInv PROVE ReadsCounted
    OBVIOUS
  <2>1. ASSUME NEW r \in Reads
        PROVE  /\ read[r].kind \in AllKinds /\ read[r].verdict \in Codes
               /\ read[r].stage \in 0 .. Len(Plan[read[r].kind])
               /\ \A s \in States : read[r].work[s] \in Nat
    BY PlanFacts DEF ReadsInv, Sound, ReadRec
  <2>2. ListsEverything
    BY DEF ReadsInv, Sound, Listing, ListsEverything, Active, Health, ReadRec
  <2> QED  BY <2>1, <2>2 DEF ReadsInv, ReadsTypeOK, ReadsCounted
<1> QED  BY <1>1, ReadsInvariant, PTL

-----------------------------------------------------------------------------
(* Trimming. *)

\* What the lists and their counters are.
TrimTypeOK ==
  /\ found \in [Places -> Seq(Entry)]
  /\ kept \in [Places -> Seq(Entry)]
  /\ omitted \in [Places -> Nat]

\* No list is longer than what its adapter returned.
NotLonger == \A i \in Places : Len(kept[i]) <= Len(Listed(found[i]))

\* The invariant.
TrimInv ==
  TrimTypeOK /\ NotLonger /\ Accounted /\ GivenUpInOrder /\ NoMoreThanNeeded

\* An adapter's list is the head of what matched, no longer than it, and what
\* is beyond it is counted.
LEMMA ListedFacts ==
  ASSUME NEW s \in Seq(Entry)
  PROVE  /\ Listed(s) \in Seq(Entry)
         /\ Len(Listed(s)) \in Nat /\ Len(Listed(s)) <= Len(s)
         /\ Listed(s) = SubSeq(s, 1, Len(Listed(s)))
         /\ Beyond(s) \in Nat
         /\ Len(Listed(s)) + Beyond(s) = Len(s)
<1> DEFINE n == IF Len(s) > Limit THEN Limit ELSE Len(s)
<1>1. n \in 0 .. Len(s) /\ Len(s) \in Nat /\ Limit \in Nat
  BY TrimAssumption
<1>2. Listed(s) = SubSeq(s, 1, n)
  BY DEF Listed
<1>3. Beyond(s) = Len(s) - n
  BY <1>1 DEF Beyond
<1> HIDE DEF n
<1>4. SubSeq(s, 1, n) \in Seq(Entry) /\ Len(SubSeq(s, 1, n)) = n
  BY <1>1, SubSeqProperties, Z3
<1> QED
  BY <1>1, <1>2, <1>3, <1>4

\* Removing the last entry of a list that is not empty leaves one fewer, the
\* first ones.
LEMMA PopFacts ==
  ASSUME NEW s \in Seq(Entry), NEW t \in Seq(Entry), t # <<>>,
         t = SubSeq(s, 1, Len(t)), Len(t) <= Len(s)
  PROVE  LET p == SubSeq(t, 1, Len(t) - 1) IN
         /\ p \in Seq(Entry)
         /\ Len(p) = Len(t) - 1
         /\ p = SubSeq(s, 1, Len(p))
         /\ SubSeq(s, 1, Len(p) + 1) = t
OBVIOUS

\* The lists as the adapters return them satisfy the invariant.
LEMMA TrimStarts == TrimInit => TrimInv
<1> SUFFICES ASSUME TrimInit PROVE TrimInv
  OBVIOUS
<1>1. \A i \in Places : found[i] \in Seq(Entry)
  BY TrimAssumption DEF TrimInit
<1>2. \A i \in Places :
        kept[i] = Listed(found[i]) /\ omitted[i] = Beyond(found[i])
  BY DEF TrimInit
<1>3. TrimTypeOK
  BY <1>1, ListedFacts DEF TrimInit, TrimTypeOK
<1>4. NotLonger /\ Accounted
  BY <1>1, <1>2, ListedFacts DEF NotLonger, Accounted
<1>5. \A i \in Places : ~Trimmed(i)
  BY <1>1, <1>2, ListedFacts DEF Trimmed
<1>6. GivenUpInOrder /\ NoMoreThanNeeded
  BY <1>5 DEF GivenUpInOrder, NoMoreThanNeeded, TrimInit
<1> QED
  BY <1>3, <1>4, <1>6 DEF TrimInv

\* Taking one entry from the first section that has any keeps the invariant.
LEMMA PopKeeps ==
  ASSUME TrimInv, NEW i \in Places, Pop(i)
  PROVE  TrimInv'
<1> USE DEF TrimInv
<1>1. /\ kept[i] \in Seq(Entry) /\ found[i] \in Seq(Entry)
      /\ omitted[i] \in Nat
      /\ kept[i] # <<>> /\ kept[i] = SubSeq(found[i], 1, Len(kept[i]))
      /\ Len(kept[i]) + omitted[i] = Len(found[i])
  BY DEF TrimTypeOK, Accounted, Pop, First
<1>2. Len(kept[i]) <= Len(found[i])
  BY <1>1
<1> DEFINE p == SubSeq(kept[i], 1, Len(kept[i]) - 1)
<1>3. /\ p \in Seq(Entry) /\ Len(p) = Len(kept[i]) - 1
      /\ p = SubSeq(found[i], 1, Len(p))
      /\ SubSeq(found[i], 1, Len(p) + 1) = kept[i]
  BY <1>1, <1>2, PopFacts
<1>4. /\ kept' = [kept EXCEPT ![i] = p]
      /\ omitted' = [omitted EXCEPT ![i] = @ + 1]
      /\ found' = found /\ required' = required /\ phase' = phase
      /\ phase = "trimming" /\ Over(kept)
  BY DEF Pop
<1> HIDE DEF p
<1>5. kept'[i] = p /\ \A j \in Places : j # i => kept'[j] = kept[j]
  BY <1>4 DEF TrimTypeOK
<1>6. /\ omitted'[i] = omitted[i] + 1
      /\ \A j \in Places : j # i => omitted'[j] = omitted[j]
  BY <1>4 DEF TrimTypeOK
<1>7. TrimTypeOK'
  BY <1>1, <1>3, <1>4 DEF TrimTypeOK
<1>8. Len(kept[i]) <= Len(Listed(found[i])) /\ Len(Listed(found[i])) \in Nat
  BY <1>1, ListedFacts DEF NotLonger
<1>9. NotLonger' /\ Trimmed(i)'
  <2>1. Len(p) < Len(Listed(found[i]))
    BY <1>1, <1>3, <1>8
  <2> QED
    BY <2>1, <1>4, <1>5, <1>1, <1>3 DEF NotLonger, Trimmed
<1>10. Accounted'
  <2>1. Len(p) + (omitted[i] + 1) = Len(found[i])
    <3>1. Len(kept[i]) \in Nat /\ omitted[i] \in Nat
      BY <1>1
    <3>2. /\ Len(kept[i]) + omitted[i] = Len(found[i])
          /\ Len(p) = Len(kept[i]) - 1
      BY <1>1, <1>3
    <3> QED
      BY <3>1, <3>2
  <2> QED
    BY <2>1, <1>3, <1>4, <1>5, <1>6 DEF Accounted
<1>11. \A j \in Places : j # i => (Trimmed(j)' <=> Trimmed(j))
  BY <1>4, <1>5 DEF Trimmed
<1>12. \A j \in Places : j < i => kept[j] = <<>>
  BY DEF Pop, First
<1>13. GivenUpInOrder'
  <2> SUFFICES ASSUME NEW j \in Places, NEW k \in Places, j < k, Trimmed(k)'
               PROVE  kept'[j] = <<>>
    BY DEF GivenUpInOrder
  <2>1. CASE k = i
    BY <2>1, <1>12, <1>5 DEF Places
  <2>2. CASE k # i
    <3>1. kept[j] = <<>>
      BY <2>2, <1>11 DEF GivenUpInOrder
    <3> QED
      BY <3>1, <1>1, <1>5
  <2> QED
    BY <2>1, <2>2
<1>14. NoMoreThanNeeded'
  <2> SUFFICES ASSUME NEW j \in Places, Trimmed(j)',
                      \A k \in Places : k > j => ~Trimmed(k)'
               PROVE  Over(Restored(j))'
    BY <1>4 DEF NoMoreThanNeeded
  <2>1. j = i
    <3>1. ~(i > j)
      BY <1>9
    <3>2. ~(j > i)
      <4> SUFFICES ASSUME j > i PROVE FALSE
        OBVIOUS
      <4>1. j # i /\ i < j
        BY DEF Places
      <4>2. Trimmed(j)
        BY <4>1, <1>11
      <4> QED
        BY <4>1, <4>2, <1>1 DEF GivenUpInOrder
    <3> QED
      BY <3>1, <3>2 DEF Places
  <2>2. Restored(i)' = kept
    BY <1>3, <1>4, <1>5 DEF Restored, TrimTypeOK
  <2>3. Over(Restored(i))' <=> Over(kept)
    BY <2>2, <1>4 DEF Over, Size
  <2> QED
    BY <2>1, <2>3, <1>4
<1> QED
  BY <1>7, <1>9, <1>10, <1>13, <1>14

\* The decision to send, the compression and its check touch no list.
LEMMA OthersKeep ==
  ASSUME TrimInv, UNCHANGED <<found, kept, omitted, required>>,
         phase' \in {"wrapped", "sent"} => ~Over(kept)
  PROVE  TrimInv'
<1>1. TrimTypeOK' /\ NotLonger' /\ Accounted'
  BY DEF TrimInv, TrimTypeOK, NotLonger, Accounted
<1>2. \A i \in Places : Trimmed(i)' <=> Trimmed(i)
  BY DEF Trimmed
<1>3. GivenUpInOrder'
  BY <1>2 DEF TrimInv, GivenUpInOrder
<1>4. Over(kept)' <=> Over(kept)
  BY DEF Over, Size
<1>5. \A i \in Places : Over(Restored(i))' <=> Over(Restored(i))
  BY DEF Over, Size, Restored
<1>6. NoMoreThanNeeded'
  BY <1>2, <1>4, <1>5 DEF TrimInv, NoMoreThanNeeded
<1> QED
  BY <1>1, <1>3, <1>6 DEF TrimInv

\* Every step keeps the invariant.
LEMMA TrimSteps == TrimInv /\ [TrimNext]_trimVars => TrimInv'
<1> SUFFICES ASSUME TrimInv, [TrimNext]_trimVars PROVE TrimInv'
  OBVIOUS
<1>1. CASE \E i \in Places : Pop(i)
  BY <1>1, PopKeeps
<1>2. CASE Decide
  BY <1>2, OthersKeep DEF Decide
<1>3. CASE Compressed
  BY <1>3, OthersKeep DEF Compressed, TrimInv, NoMoreThanNeeded
<1>4. CASE UNCHANGED trimVars
  BY <1>4, OthersKeep DEF trimVars, TrimInv, NoMoreThanNeeded
<1> QED
  BY <1>1, <1>2, <1>3, <1>4 DEF TrimNext

\* So it holds in every reachable state.
LEMMA TrimInvariant == TrimSpec => []TrimInv
BY TrimStarts, TrimSteps, PTL DEF TrimSpec

\* Whatever is cut by an adapter's limit or by the trimming is counted, and
\* what is left are the first entries of the adapter's order.
THEOREM TrimCountsAll == TrimSpec => []Accounted
<1>1. TrimInv => Accounted
  BY DEF TrimInv
<1> QED
  BY <1>1, TrimInvariant, PTL

\* Sections are given up in their order of importance.
THEOREM TrimKeepsOrder == TrimSpec => []GivenUpInOrder
<1>1. TrimInv => GivenUpInOrder
  BY DEF TrimInv
<1> QED
  BY <1>1, TrimInvariant, PTL

\* The trimming is minimal, and nothing that exceeds the budget is sent.
THEOREM TrimIsMinimal == TrimSpec => []NoMoreThanNeeded
<1>1. TrimInv => NoMoreThanNeeded
  BY DEF TrimInv
<1> QED
  BY <1>1, TrimInvariant, PTL

\* The three together: what the run of the small instance checks.
THEOREM TrimIsExact == TrimSpec => []TrimExact
  BY TrimInvariant, PTL DEF TrimInv, TrimExact

-----------------------------------------------------------------------------
(* Paging. *)

\* Newest first; and all there is from the last of them up.
Descends(s) == \A j, k \in 1 .. Len(s) : j < k => s[j] > s[k]
Covers(s, hi) ==
  s # <<>> => ToSet(s) = {i \in Last(s) .. hi : Readable(i)}

\* Two descending sequences, the first above the second, make a descending one.
LEMMA ConcatFacts ==
  ASSUME NEW s \in Seq(Nat), NEW t \in Seq(Nat), t # <<>>
  PROVE  /\ s \o t \in Seq(Nat) /\ s \o t # <<>> /\ Last(s \o t) = Last(t)
         /\ Descends(s) /\ Descends(t)
              /\ (\A i \in 1 .. Len(s), j \in 1 .. Len(t) : s[i] > t[j])
            => Descends(s \o t)
<1> DEFINE c == s \o t
<1>1. /\ c \in Seq(Nat) /\ Len(c) = Len(s) + Len(t)
      /\ \A i \in 1 .. Len(s) : c[i] = s[i]
      /\ \A i \in 1 .. Len(t) : c[Len(s) + i] = t[i]
      /\ Len(s) \in Nat /\ Len(t) \in Nat /\ Len(t) > 0
  OBVIOUS
<1> HIDE DEF c
<1>2. c # <<>> /\ Last(c) = Last(t)
  BY <1>1 DEF Last
<1>3. \A k \in 1 .. Len(c) :
        k \notin 1 .. Len(s) =>
          k - Len(s) \in 1 .. Len(t) /\ c[k] = t[k - Len(s)]
  <2> SUFFICES ASSUME NEW k \in 1 .. Len(c), k \notin 1 .. Len(s)
               PROVE  k - Len(s) \in 1 .. Len(t) /\ c[k] = t[k - Len(s)]
    OBVIOUS
  <2>1. k - Len(s) \in 1 .. Len(t) /\ Len(s) + (k - Len(s)) = k
    BY <1>1
  <2> QED  BY <1>1, <2>1
<1>4. ASSUME Descends(s), Descends(t),
             \A i \in 1 .. Len(s), j \in 1 .. Len(t) : s[i] > t[j]
      PROVE  Descends(c)
  <2> SUFFICES ASSUME NEW j \in 1 .. Len(c), NEW k \in 1 .. Len(c), j < k
               PROVE  c[j] > c[k]
    BY DEF Descends
  <2>1. CASE k \in 1 .. Len(s)
    <3>1. j \in 1 .. Len(s)
      BY <1>1, <2>1
    <3> QED  BY <1>1, <1>4, <2>1, <3>1 DEF Descends
  <2>2. CASE k \notin 1 .. Len(s) /\ j \in 1 .. Len(s)
    BY <1>1, <1>3, <1>4, <2>2
  <2>3. CASE k \notin 1 .. Len(s) /\ j \notin 1 .. Len(s)
    <3>1. /\ j - Len(s) \in 1 .. Len(t) /\ c[j] = t[j - Len(s)]
          /\ k - Len(s) \in 1 .. Len(t) /\ c[k] = t[k - Len(s)]
      BY <1>3, <2>3
    <3>2. j - Len(s) < k - Len(s)
      BY <1>1
    <3> QED  BY <1>4, <3>1, <3>2 DEF Descends
  <2>4. k \in 1 .. Len(s) => j \in 1 .. Len(s)
    BY <1>1
  <2> QED  BY <2>1, <2>2, <2>3, <2>4
<1> QED  BY <1>1, <1>2, <1>4 DEF c

\* What journalctl prints: at most one line more than the page, and fewer only
\* if there are no more.
LEMMA LinesFacts ==
  ASSUME Newest \in Nat
  PROVE  /\ Lines \in 0 .. Newest
         /\ Lines <= PageLimit + 1 /\ (Lines <= PageLimit => Lines = Newest)
         /\ \A k \in 1 .. Lines : Printed[k] = Newest + 1 - k
  BY PagingAssumption DEF Lines, Printed

\* What the lines leave: their readable records, newest first.
LEMMA ParsedFacts ==
  ASSUME Newest \in Nat
  PROVE  /\ Parsed \in Seq(Nat) /\ Len(Parsed) <= Lines /\ Descends(Parsed)
         /\ ToSet(Parsed) = {i \in Newest + 1 - Lines .. Newest : Readable(i)}
         /\ Len(Parsed) = Lines /\ Lines > 0 =>
              Parsed[Lines] = Newest + 1 - Lines
<1> DEFINE S == {i \in 1 .. Newest : Readable(i)}
           Later == {p \in Nat \X Nat : p[1] > p[2]}
<1>1. /\ Lines \in 0 .. Newest /\ Lines \in Nat
      /\ \A k \in 1 .. Lines : Printed[k] = Newest + 1 - k
  BY LinesFacts
<1>2. Printed \in Seq(Nat) /\ Len(Printed) = Lines
  BY <1>1 DEF Printed
<1>3. Parsed = Only(Printed, S)
  BY DEF Parsed
<1>4. \A i, j \in 1 .. Len(Printed) :
        i < j => <<Printed[i], Printed[j]>> \in Later
  BY <1>1, <1>2
<1> HIDE DEF Later, S
<1>5. /\ Parsed \in Seq(Nat) /\ Len(Parsed) <= Lines
      /\ ToSet(Parsed) = ToSet(Printed) \cap S
      /\ Len(Parsed) = Lines => Parsed = Printed
      /\ \A i, j \in 1 .. Len(Parsed) :
           i < j => <<Parsed[i], Parsed[j]>> \in Later
  BY <1>2, <1>3, <1>4, OnlyFacts
<1>6. Descends(Parsed)
  BY <1>5 DEF Descends, Later
<1>7. ToSet(Printed) = Newest + 1 - Lines .. Newest
  <2>1. ToSet(Printed) = {Printed[k] : k \in 1 .. Lines}
    BY <1>2, ToSetFacts
  <2>2. ASSUME NEW i \in Newest + 1 - Lines .. Newest
        PROVE  \E k \in 1 .. Lines : Printed[k] = i
    <3>1. Newest + 1 - i \in 1 .. Lines /\ Newest + 1 - (Newest + 1 - i) = i
      BY <1>1
    <3> QED  BY <1>1, <3>1
  <2>3. \A k \in 1 .. Lines : Printed[k] \in Newest + 1 - Lines .. Newest
    BY <1>1
  <2> QED  BY <2>1, <2>2, <2>3
<1>8. Newest + 1 - Lines .. Newest \subseteq 1 .. Newest
  BY <1>1
<1> QED  BY <1>1, <1>5, <1>6, <1>7, <1>8 DEF S

\* A page: the newest of the parsed records, as many as fit.
LEMMA ReturnedFacts ==
  ASSUME Newest \in Nat
  PROVE  /\ Parsed \in Seq(Nat) /\ Len(Parsed) <= Lines
         /\ Returned \in Seq(Nat) /\ Len(Returned) <= Len(Parsed)
         /\ Len(Returned) <= PageLimit
         /\ Descends(Returned)
         /\ Returned # <<>> =>
              /\ Last(Returned) \in 1 .. Newest
              /\ ToSet(Returned) =
                   {i \in Last(Returned) .. Newest : Readable(i)}
         /\ Len(Returned) = Lines /\ Lines > 0 =>
              Last(Returned) = Newest + 1 - Lines
<1> DEFINE m == Max({n \in 0 .. Len(Parsed) : Fits(n)})
<1>1. /\ Parsed \in Seq(Nat) /\ Len(Parsed) \in Nat /\ Len(Parsed) <= Lines
      /\ Descends(Parsed) /\ Lines \in Nat
      /\ ToSet(Parsed) = {i \in Newest + 1 - Lines .. Newest : Readable(i)}
      /\ Len(Parsed) = Lines /\ Lines > 0 => Parsed[Lines] = Newest + 1 - Lines
  BY ParsedFacts, LinesFacts
<1>2. m \in {n \in 0 .. Len(Parsed) : Fits(n)}
  <2> DEFINE F == {n \in 0 .. Len(Parsed) : Fits(n)}
  <2>1. 0 \in F
    BY <1>1 DEF Fits
  <2>2. F \in SUBSET (0 .. Len(Parsed))
    OBVIOUS
  <2> HIDE DEF F
  <2>3. Max(F) \in F
    BY <1>1, <2>1, <2>2, GreatestElement
  <2> QED  BY <2>3 DEF F
<1>3. m \in 0 .. Len(Parsed) /\ Fits(m)
  BY <1>2
<1>4. Returned = SubSeq(Parsed, 1, m)
  BY DEF Returned
<1> HIDE DEF m
<1>5. m <= PageLimit
  BY <1>3, <1>1, PagingAssumption DEF Fits
<1>6. /\ Returned \in Seq(Nat) /\ Len(Returned) = m
      /\ \A i \in 1 .. m : Returned[i] = Parsed[i]
  BY <1>1, <1>3, <1>4
<1>7. Descends(Returned)
  <2> SUFFICES ASSUME NEW i \in 1 .. m, NEW j \in 1 .. m, i < j
               PROVE  Returned[i] > Returned[j]
    BY <1>6 DEF Descends
  <2>1. i \in 1 .. Len(Parsed) /\ j \in 1 .. Len(Parsed)
    BY <1>1, <1>3
  <2>2. Parsed[i] > Parsed[j]
    BY <1>1, <2>1 DEF Descends
  <2> QED  BY <1>6, <2>2
<1>8. ASSUME m > 0
      PROVE  /\ Last(Returned) = Parsed[m]
             /\ Parsed[m] \in 1 .. Newest
             /\ ToSet(Returned) = {i \in Parsed[m] .. Newest : Readable(i)}
  <2>1. Last(Returned) = Parsed[m]
    BY <1>3, <1>6, <1>8 DEF Last
  <2>2. ToSet(Parsed) = {Parsed[i] : i \in 1 .. Len(Parsed)}
    BY <1>1, ToSetFacts
  <2>3. ToSet(Returned) = {Parsed[i] : i \in 1 .. m}
    BY <1>6, ToSetFacts
  <2>4. Newest + 1 - Lines >= 1
    BY LinesFacts
  <2>5. \A i \in 1 .. Len(Parsed) :
          /\ Parsed[i] \in Nat /\ Parsed[i] <= Newest /\ Parsed[i] >= 1
          /\ Readable(Parsed[i]) /\ Parsed[i] >= Newest + 1 - Lines
    BY <1>1, <2>2, <2>4
  <2>6. Parsed[m] \in 1 .. Newest
    BY <1>3, <1>8, <2>5
  <2>7. \A i \in 1 .. m :
          Parsed[i] \in Parsed[m] .. Newest /\ Readable(Parsed[i])
    BY <1>1, <1>3, <1>8, <2>5 DEF Descends
  <2>8. ASSUME NEW n \in Parsed[m] .. Newest, Readable(n)
        PROVE  n \in {Parsed[i] : i \in 1 .. m}
    <3>1. n \in ToSet(Parsed)
      BY <1>1, <1>3, <1>8, <2>5, <2>8
    <3>2. PICK i \in 1 .. Len(Parsed) : n = Parsed[i]
      BY <2>2, <3>1
    <3>3. i <= m
      BY <1>1, <1>3, <1>8, <2>5, <2>8, <3>2 DEF Descends
    <3> QED  BY <3>2, <3>3
  <2>9. ToSet(Returned) = {i \in Parsed[m] .. Newest : Readable(i)}
    BY <2>3, <2>7, <2>8
  <2> QED  BY <2>1, <2>6, <2>9
<1>9. Returned # <<>> => m > 0
  BY <1>3, <1>6
<1> QED  BY <1>1, <1>3, <1>5, <1>6, <1>7, <1>8, <1>9

\* A reader that will send no cursor has been given nothing; one that will send
\* one was given that record last.
ReaderInv ==
  /\ journal \in Seq(Nat) /\ first \in 0 .. Len(journal) /\ got \in Seq(Nat)
  /\ cursor \in Nat /\ reading \in BOOLEAN
  /\ reading /\ cursor = 0 => got = <<>>
  /\ cursor # 0 => got # <<>> /\ cursor = Last(got)
  /\ got # <<>> => Last(got) \in 1 .. first

\* Of what there is below the oldest record it has, it was told.
ToldInv ==
  /\ ~reading => page.truncated \/ page.status = "partial" \/ Oldest = 1
  /\ page # NoPage =>
       page.truncated \/ page.status = "partial" \/ Oldest = 1

\* The invariant.
PagingInv == ReaderInv /\ Descends(got) /\ Covers(got, first) /\ ToldInv

\* The invariant holds when the reader begins.
LEMMA PagingStart == PagingInit => PagingInv
<1> SUFFICES ASSUME PagingInit PROVE PagingInv
  OBVIOUS
<1>1. journal \in Seq(Nat)
  <2>1. PICK m \in 0 .. MaxRecords : journal \in [1 .. m -> Records]
    BY DEF PagingInit, BoundedSeq, SeqOf
  <2>2. journal \in [1 .. m -> Nat]
    BY <2>1, PagingAssumption
  <2>3. m \in Nat
    BY PagingAssumption
  <2> QED  BY <2>2, <2>3
<1>2. Len(journal) \in Nat
  BY <1>1
<1>3. /\ first = Len(journal) /\ cursor = 0 /\ page = NoPage /\ got = <<>>
      /\ reading = TRUE
  BY DEF PagingInit
<1>4. ReaderInv
  BY <1>1, <1>2, <1>3 DEF ReaderInv
<1>5. Descends(got) /\ Covers(got, first) /\ ToldInv
  BY <1>3 DEF Descends, Covers, ToldInv
<1> QED  BY <1>4, <1>5 DEF PagingInv

\* What is logged meanwhile is newer than all the reader will be given.
LEMMA ArriveKeeps == PagingInv /\ Arrive => PagingInv'
<1> SUFFICES ASSUME PagingInv, Arrive PROVE PagingInv'
  OBVIOUS
<1>1. PICK r \in Records : journal' = Append(journal, r)
  BY DEF Arrive
<1>2. r \in Nat /\ journal \in Seq(Nat)
  BY PagingAssumption DEF PagingInv, ReaderInv
<1>3. /\ journal' \in Seq(Nat) /\ Len(journal') = Len(journal) + 1
      /\ \A i \in 1 .. Len(journal) : journal'[i] = journal[i]
      /\ Len(journal) \in Nat
  BY <1>1, <1>2
<1>4. UNCHANGED <<first, cursor, page, got, reading>>
  BY DEF Arrive
<1>5. ReaderInv'
  BY <1>2, <1>3, <1>4 DEF PagingInv, ReaderInv
<1>6. Covers(got, first)'
  <2>1. CASE got = <<>>
    BY <1>4, <2>1 DEF Covers
  <2>2. CASE got # <<>>
    <3>1. Last(got) \in 1 .. first /\ first \in 0 .. Len(journal)
      BY <2>2 DEF PagingInv, ReaderInv
    <3>2. \A i \in Last(got) .. first : i \in 1 .. Len(journal)
      BY <1>3, <3>1
    <3>3. \A i \in Last(got) .. first : (journal'[i] > 0) = (journal[i] > 0)
      BY <1>3, <3>2
    <3>4. ToSet(got) = {i \in Last(got) .. first : journal[i] > 0}
      BY <2>2 DEF PagingInv, Covers, Readable
    <3>5. ToSet(got) = {i \in Last(got) .. first : journal'[i] > 0}
      BY <3>3, <3>4
    <3> QED  BY <1>4, <3>5 DEF Covers, Readable
  <2> QED  BY <2>1, <2>2
<1>7. Descends(got)' /\ ToldInv'
  BY <1>4 DEF PagingInv, Descends, ToldInv, Oldest
<1> QED  BY <1>5, <1>6, <1>7 DEF PagingInv

\* What a reader knows and gets: its page, and where its last one ended.
LEMMA QueryFacts ==
  ASSUME PagingInv, Query
  PROVE  /\ Newest \in 0 .. Len(journal) /\ Len(journal) \in Nat
         /\ journal' = journal /\ got' = got \o Returned
         /\ page' = Answer /\ reading' = (NextCursor # 0)
         /\ cursor' = NextCursor
         /\ \/ /\ cursor = 0 /\ got = <<>> /\ first' = Newest
            \/ /\ cursor # 0 /\ got # <<>> /\ first' = first
               /\ Newest = cursor - 1 /\ cursor = Last(got)
               /\ Last(got) \in 1 .. first
<1>1. /\ journal \in Seq(Nat) /\ first \in 0 .. Len(journal)
      /\ got \in Seq(Nat) /\ cursor \in Nat /\ reading
      /\ reading /\ cursor = 0 => got = <<>>
      /\ cursor # 0 => got # <<>> /\ cursor = Last(got)
      /\ got # <<>> => Last(got) \in 1 .. first
  BY DEF PagingInv, ReaderInv, Query
<1>2. Len(journal) \in Nat
  BY <1>1
<1> QED  BY <1>1, <1>2 DEF Query, Newest

\* What a query tells: whether the page leaves something readable behind.
LEMMA QueryTells ==
  ASSUME PagingInv, Query,
         ~page'.truncated, page'.status # "partial"
  PROVE  /\ Len(Returned) = Newest
         /\ Returned # <<>> => Last(Returned) = 1
<1>1. /\ page'.truncated = (Len(Returned) < Len(Parsed))
      /\ page'.status = IF Len(Parsed) < Lines THEN "partial" ELSE "ok"
  BY QueryFacts DEF Answer, Truncated
<1>2. /\ Returned \in Seq(Nat) /\ Len(Returned) <= Len(Parsed)
      /\ Len(Parsed) <= Lines /\ Len(Returned) <= PageLimit
      /\ Parsed \in Seq(Nat) /\ Newest \in Nat
      /\ Len(Returned) = Lines /\ Lines > 0 =>
           Last(Returned) = Newest + 1 - Lines
  BY QueryFacts, ReturnedFacts
<1>3. Lines \in Nat /\ (Lines <= PageLimit => Lines = Newest)
  BY <1>2, LinesFacts
<1>4. Len(Returned) \in Nat /\ Len(Parsed) \in Nat
  BY <1>2
<1>5. Len(Returned) = Lines /\ Lines = Newest
  <2>1. ~(Len(Returned) < Len(Parsed))
    BY <1>1
  <2>2. ~(Len(Parsed) < Lines)
    BY <1>1
  <2> QED  BY <1>2, <1>3, <1>4, <2>1, <2>2
<1>6. Returned # <<>> => Len(Returned) > 0
  BY <1>2
<1> QED  BY <1>2, <1>5, <1>6

\* An empty page ends the reading and leaves everything else as it was.
LEMMA EmptyPageKeeps ==
  ASSUME PagingInv, Query, Returned = <<>>
  PROVE  PagingInv'
<1>1. /\ journal' = journal /\ got' = got /\ cursor' = 0 /\ reading' = FALSE
      /\ first' \in 0 .. Len(journal) /\ (got # <<>> => first' = first)
  <2>1. got \in Seq(Nat) /\ NextCursor = 0
    BY DEF PagingInv, ReaderInv, NextCursor
  <2>2. got \o Returned = got
    BY <2>1
  <2>3. first' \in 0 .. Len(journal) /\ (got # <<>> => first' = first)
    BY QueryFacts DEF PagingInv, ReaderInv
  <2> QED  BY <2>1, <2>2, <2>3, QueryFacts
<1>2. ReaderInv'
  BY <1>1 DEF PagingInv, ReaderInv
<1>3. Descends(got)'
  BY <1>1 DEF PagingInv, Descends
<1>4. Covers(got, first)'
  BY <1>1 DEF PagingInv, Covers, Readable
<1>5. page'.truncated \/ page'.status = "partial" \/ Oldest' = 1
  <2>1. SUFFICES ASSUME ~page'.truncated, page'.status # "partial"
                 PROVE  Oldest' = 1
    OBVIOUS
  <2>2. Newest = 0
    BY <2>1, QueryTells
  <2>3. CASE cursor = 0
    <3>1. got' = <<>> /\ first' = 0
      BY <1>1, <2>2, <2>3, QueryFacts
    <3> QED  BY <3>1 DEF Oldest
  <2>4. CASE cursor # 0
    <3>1. got # <<>> /\ Last(got) = 1
      BY <2>2, <2>4, QueryFacts DEF PagingInv, ReaderInv
    <3> QED  BY <1>1, <3>1 DEF Oldest
  <2> QED  BY <2>3, <2>4
<1>6. ToldInv'
  BY <1>1, <1>5 DEF ToldInv
<1> QED  BY <1>2, <1>3, <1>4, <1>6 DEF PagingInv

\* A page with entries goes on where the last one ended.
LEMMA PageKeeps ==
  ASSUME PagingInv, Query, Returned # <<>>
  PROVE  PagingInv'
<1> DEFINE l == Last(Returned)
<1>1. /\ Newest \in 0 .. Len(journal) /\ Len(journal) \in Nat
      /\ journal' = journal /\ got' = got \o Returned
      /\ \/ /\ cursor = 0 /\ got = <<>> /\ first' = Newest
         \/ /\ cursor # 0 /\ got # <<>> /\ first' = first
            /\ Newest = cursor - 1 /\ cursor = Last(got)
            /\ Last(got) \in 1 .. first
  BY QueryFacts
<1>2. /\ Returned \in Seq(Nat) /\ Descends(Returned) /\ l \in 1 .. Newest
      /\ ToSet(Returned) = {i \in l .. Newest : Readable(i)}
  BY <1>1, ReturnedFacts
<1>3. cursor' = l /\ cursor' # 0 /\ reading' = TRUE
  <2>1. NextCursor = l
    BY DEF NextCursor
  <2>2. l # 0
    BY <1>1, <1>2
  <2> QED  BY <2>1, <2>2, QueryFacts
<1>4. /\ got \in Seq(Nat) /\ Descends(got) /\ journal \in Seq(Nat)
      /\ first \in 0 .. Len(journal)
      /\ got # <<>> =>
           ToSet(got) = {i \in Last(got) .. first : Readable(i)}
  BY DEF PagingInv, ReaderInv, Covers
<1>5. ToSet(got') = ToSet(got) \cup ToSet(Returned)
  <2>1. got \in Seq(Nat) /\ Returned \in Seq(Nat)
    BY <1>2, <1>4
  <2>2. ToSet(got \o Returned) = ToSet(got) \cup ToSet(Returned)
    BY <2>1, ToSetFacts
  <2>3. got' = got \o Returned
    BY <1>1
  <2> QED  BY <2>2, <2>3
<1>6. got' \in Seq(Nat) /\ got' # <<>> /\ Last(got') = l
  BY <1>1, <1>2, <1>4, ConcatFacts
<1>7. first' \in Newest .. Len(journal)
  BY <1>1, <1>4
<1> HIDE DEF l
<1>8. ToSet(got') = {i \in l .. first' : Readable(i)}
  <2>1. CASE cursor = 0
    <3>1. got = <<>> /\ first' = Newest
      BY <1>1, <2>1
    <3>2. ToSet(got) = {}
      BY <3>1 DEF ToSet
    <3> QED  BY <1>2, <1>5, <3>1, <3>2
  <2>2. CASE cursor # 0
    <3>1. /\ first' = first /\ Newest = cursor - 1 /\ cursor \in 1 .. first
          /\ ToSet(got) = {i \in cursor .. first : Readable(i)}
          /\ first \in Nat /\ l \in 1 .. Newest
      BY <1>1, <1>2, <1>4, <2>2
    <3>2. \A i :
            i \in l .. first <=> i \in l .. Newest \/ i \in cursor .. first
      BY <3>1
    <3> QED  BY <1>2, <1>5, <3>1, <3>2
  <2> QED  BY <2>1, <2>2
<1>9. Descends(got)'
  <2>1. \A i \in 1 .. Len(Returned) :
          Returned[i] \in Nat /\ Returned[i] <= Newest
    <3>1. \A i \in 1 .. Len(Returned) : Returned[i] \in ToSet(Returned)
      BY <1>2, ToSetFacts
    <3> QED  BY <1>1, <1>2, <3>1
  <2>2. \A i \in 1 .. Len(got) : got[i] \in Nat /\ got[i] > Newest
    <3>1. CASE cursor = 0
      BY <1>1, <3>1
    <3>2. CASE cursor # 0
      <4>1. \A i \in 1 .. Len(got) : got[i] \in ToSet(got)
        BY <1>4, ToSetFacts
      <4>2. ToSet(got) = {i \in cursor .. first : Readable(i)}
              /\ Newest = cursor - 1 /\ cursor \in 1 .. first /\ first \in Nat
        BY <1>1, <1>4, <3>2
      <4> QED  BY <4>1, <4>2
    <3> QED  BY <3>1, <3>2
  <2>3. \A i \in 1 .. Len(got), j \in 1 .. Len(Returned) : got[i] > Returned[j]
    BY <1>1, <2>1, <2>2
  <2>4. Descends(got \o Returned)
    BY <1>2, <1>4, <2>3, ConcatFacts
  <2> QED  BY <1>1, <2>4 DEF Descends
<1>10. ReaderInv'
  BY <1>1, <1>2, <1>3, <1>4, <1>6, <1>7 DEF ReaderInv
<1>11. Covers(got, first)'
  BY <1>1, <1>6, <1>8 DEF Covers, Readable
<1>12. page'.truncated \/ page'.status = "partial" \/ Oldest' = 1
  <2>1. SUFFICES ASSUME ~page'.truncated, page'.status # "partial"
                 PROVE  Oldest' = 1
    OBVIOUS
  <2>2. l = 1
    BY <2>1, QueryTells DEF l
  <2> QED  BY <1>6, <2>2 DEF Oldest
<1>13. ToldInv'
  BY <1>12 DEF ToldInv
<1> QED  BY <1>9, <1>10, <1>11, <1>13 DEF PagingInv

\* Every query keeps the invariant.
LEMMA QueryKeeps == PagingInv /\ Query => PagingInv'
  BY EmptyPageKeeps, PageKeeps

\* So it holds in every reachable state.
LEMMA PagingInvariant == PagingSpec => []PagingInv
<1>1. PagingInv /\ UNCHANGED pagingVars => PagingInv'
  BY DEF PagingInv, ReaderInv, ToldInv, Covers, Descends, Oldest, Readable,
    pagingVars
<1>2. PagingInv /\ [PagingNext]_pagingVars => PagingInv'
  BY <1>1, QueryKeeps, ArriveKeeps DEF PagingNext
<1> QED  BY <1>2, PagingStart, PTL DEF PagingSpec

\* A reader is given every readable record once, newest first, and is told when
\* there is more (journal.ts:8-31, 53-66).
THEOREM PagesAreTrue == PagingSpec => []PagesTrue
<1>1. PagingInv => PagesTrue
  <2> SUFFICES ASSUME PagingInv PROVE PagesTrue
    OBVIOUS
  <2>1. NoGaps
    BY DEF PagingInv, Descends, Covers, NoGaps
  <2>2. StopsKnowingly /\ CompleteMeansAll
    BY DEF PagingInv, ReaderInv, ToldInv, StopsKnowingly, CompleteMeansAll,
      NoPage
  <2> QED  BY <2>1, <2>2 DEF PagesTrue
<1> QED  BY <1>1, PagingInvariant, PTL

-----------------------------------------------------------------------------
(* The model's context. *)

\* What may be told before the list is cut.
Reasons == {"depth_limit", "size_limit", "model_context_byte_limit"}
Remark == [path : Seq(Nat), reason : Reasons, of : Nat, retained : Nat]
IsCut(m, limits) == TooDeep(m) \/ TooLarge(m, limits)

\* The members of a value.
LEMMA MemberFacts ==
  ASSUME NEW v \in Seq(Member), NEW m \in ToSet(v)
  PROVE  m \in Member /\ m.path \in Seq(Nat) /\ Len(m.path) \in Nat
<1>1. m \in Member
  BY ToSetFacts
<1>2. m.path \in Seq(Nat)
  BY <1>1 DEF Member
<1> QED  BY <1>1, <1>2

\* The containers above a member, in a tree, have the member that leads to it.
LEMMA AboveFacts ==
  ASSUME NEW v \in Seq(Member), IsTree(v),
         NEW c \in ToSet(v), NEW m \in ToSet(v), Above(c, m)
  PROVE  c.kind \in Containers /\ m.path[Len(c.path) + 1] \in 1 .. c.extent
<1>1. /\ c \in Member /\ m \in Member
      /\ c.path \in Seq(Nat) /\ m.path \in Seq(Nat)
  BY MemberFacts
<1> DEFINE k == Len(c.path) + 1
<1>2. k \in 1 .. Len(m.path) /\ Len(c.path) = k - 1 /\ Len(c.path) \in Nat
  BY <1>1 DEF Above
<1> HIDE DEF k
<1>3. PICK d \in ToSet(v) :
        /\ Above(d, m) /\ Len(d.path) = k - 1
        /\ d.kind \in Containers /\ m.path[k] \in 1 .. d.extent
  BY <1>2 DEF IsTree
<1>4. d.path \in Seq(Nat)
  BY MemberFacts
<1>5. d.path = c.path
  <2>1. Len(d.path) = Len(c.path)
    BY <1>2, <1>3
  <2>2. \A i \in 1 .. Len(c.path) : d.path[i] = c.path[i]
    BY <1>2, <1>3 DEF Above
  <2> QED  BY <1>1, <1>4, <2>1, <2>2, SameSequence
<1>6. d = c
  BY <1>5 DEF IsTree
<1> QED  BY <1>3, <1>6 DEF k

\* Whoever gets to a member has got to the containers above it.
LEMMA AboveReached ==
  ASSUME NEW v \in Seq(Member), NEW limits, NEW c \in ToSet(v),
         NEW m \in ToSet(v), Above(c, m),
         \A b \in ToSet(v) : Above(b, m) /\ Len(b.path) < Len(c.path) =>
           ~TooDeep(b) /\ m.path[Len(b.path) + 1] <= limits[b.kind]
  PROVE  GetsTo(v, limits, c)
<1> SUFFICES ASSUME NEW b \in ToSet(v), Above(b, c)
             PROVE  ~TooDeep(b) /\ c.path[Len(b.path) + 1] <= limits[b.kind]
  BY DEF GetsTo
<1>1. /\ b.path \in Seq(Nat) /\ c.path \in Seq(Nat) /\ m.path \in Seq(Nat)
  BY MemberFacts
<1>2. Len(b.path) \in Nat /\ Len(c.path) \in Nat /\ Len(m.path) \in Nat
        /\ Len(b.path) < Len(c.path) /\ Len(c.path) < Len(m.path)
  BY <1>1 DEF Above
<1>3. Above(b, m)
  <2>1. \A k \in 1 .. Len(b.path) : k \in 1 .. Len(c.path)
    BY <1>2
  <2>2. \A k \in 1 .. Len(b.path) : b.path[k] = c.path[k]
    BY DEF Above
  <2>3. \A k \in 1 .. Len(c.path) : c.path[k] = m.path[k]
    BY DEF Above
  <2>4. Len(b.path) < Len(m.path)
    BY <1>2
  <2> QED  BY <2>1, <2>2, <2>3, <2>4 DEF Above
<1>4. c.path[Len(b.path) + 1] = m.path[Len(b.path) + 1]
  BY <1>2 DEF Above
<1> QED  BY <1>2, <1>3, <1>4

\* What a pass gets to, in order; all of it if it gets to everything.
LEMMA ReachedFacts ==
  ASSUME NEW v \in Seq(Member), NEW limits
  PROVE  /\ Reached(v, limits) \in Seq(Member)
         /\ ToSet(Reached(v, limits)) =
              {m \in ToSet(v) : GetsTo(v, limits, m)}
         /\ (\A m \in ToSet(v) : GetsTo(v, limits, m)) =>
              Reached(v, limits) = v
<1> DEFINE S == {m \in ToSet(v) : GetsTo(v, limits, m)}
<1>1. /\ Only(v, S) \in Seq(Member) /\ ToSet(Only(v, S)) = ToSet(v) \cap S
      /\ ToSet(v) \subseteq S => Only(v, S) = v
  BY OnlyFacts
<1>2. Reached(v, limits) = Only(v, S)
  BY DEF Reached
<1>3. S \subseteq ToSet(v)
  OBVIOUS
<1>4. (\A m \in ToSet(v) : GetsTo(v, limits, m)) => ToSet(v) \subseteq S
  OBVIOUS
<1>5. ToSet(v) \cap S = S
  BY <1>3
<1> HIDE DEF S
<1>6. S = {m \in ToSet(v) : GetsTo(v, limits, m)}
  BY DEF S
<1> QED  BY <1>1, <1>2, <1>4, <1>5, <1>6

\* A member that is cut is shown shorter, and what is noted of it is true of
\* both; one that is not is shown as it is.
LEMMA ShownFacts ==
  ASSUME NEW m \in Member, NEW limits \in [Bounded -> Nat]
  PROVE  /\ Shown(m, limits) \in Member /\ Shown(m, limits).path = m.path
         /\ IsCut(m, limits) => Shown(m, limits) # m
         /\ ~IsCut(m, limits) => Shown(m, limits) = m
         /\ Shown(m, limits).kind \in Containers =>
              /\ m.kind \in Containers /\ ~TooDeep(m)
              /\ Shown(m, limits).extent <= m.extent
              /\ Shown(m, limits).extent <= limits[m.kind]
         /\ m.kind \in Containers /\ ~TooDeep(m) =>
              /\ Shown(m, limits).kind = m.kind
              /\ \A i \in 1 .. m.extent :
                   i <= limits[m.kind] => i \in 1 .. Shown(m, limits).extent
         /\ Note(m, limits).path = m.path
         /\ IsCut(m, limits) =>
              /\ Note(m, limits) \in Remark
              /\ Shown(m, limits).kind = m.kind =>
                   /\ Note(m, limits).of = m.extent
                   /\ Note(m, limits).retained = Shown(m, limits).extent
<1>1. /\ m.path \in Seq(Nat) /\ m.kind \in MemberKinds /\ m.extent \in Nat
      /\ DOMAIN m = {"path", "kind", "extent"}
  BY DEF Member
<1>2. Containers \subseteq Bounded /\ "omitted" \notin Bounded
        /\ Bounded \subseteq MemberKinds /\ "omitted" \in MemberKinds
  BY DEF Containers, Bounded, MemberKinds
<1>3. m.kind \in Bounded => limits[m.kind] \in Nat
  OBVIOUS
<1>4. CASE TooDeep(m)
  <2> DEFINE x == [m EXCEPT !.kind = "omitted", !.extent = 0]
  <2>1. x \in Member /\ x.path = m.path /\ x.kind = "omitted" /\ x.extent = 0
    BY <1>1, <1>2 DEF Member
  <2>2. Shown(m, limits) = x
    BY <1>4 DEF Shown
  <2> HIDE DEF x
  <2>3. Note(m, limits) = Omission(m.path, "depth_limit", 0, 0)
    BY <1>4 DEF Note
  <2>4. m.kind \in Containers
    BY <1>4 DEF TooDeep
  <2> QED  BY <1>1, <1>2, <1>4, <2>1, <2>2, <2>3, <2>4
             DEF IsCut, Omission, Remark, Reasons
<1>5. CASE ~TooDeep(m) /\ TooLarge(m, limits)
  <2> DEFINE x == [m EXCEPT !.extent = limits[m.kind]]
  <2>1. /\ m.kind \in Bounded /\ m.extent > limits[m.kind]
        /\ limits[m.kind] \in Nat
    BY <1>3, <1>5 DEF TooLarge
  <2>2. /\ x \in Member /\ x.path = m.path /\ x.kind = m.kind
        /\ x.extent = limits[m.kind]
    BY <1>1, <2>1 DEF Member
  <2>3. Shown(m, limits) = x
    BY <1>5 DEF Shown
  <2> HIDE DEF x
  <2>4. Note(m, limits) =
          Omission(m.path, "size_limit", m.extent, limits[m.kind])
    BY <1>5 DEF Note
  <2>5. x # m /\ x.extent <= m.extent
    BY <1>1, <2>1, <2>2
  <2>6. \A i \in 1 .. m.extent : i <= limits[m.kind] => i \in 1 .. x.extent
    BY <1>1, <2>1, <2>2
  <2>7. Note(m, limits) \in Remark /\ Note(m, limits).path = m.path
          /\ Note(m, limits).of = m.extent
          /\ Note(m, limits).retained = limits[m.kind]
    BY <1>1, <2>1, <2>4 DEF Omission, Remark, Reasons
  <2> QED  BY <1>5, <2>1, <2>2, <2>3, <2>5, <2>6, <2>7 DEF IsCut
<1>6. CASE ~TooDeep(m) /\ ~TooLarge(m, limits)
  <2>1. Shown(m, limits) = m
    BY <1>6 DEF Shown
  <2>2. m.kind \in Bounded => m.extent <= limits[m.kind]
    BY <1>1, <1>3, <1>6 DEF TooLarge
  <2>3. Note(m, limits).path = m.path
    BY <1>6 DEF Note, Omission
  <2> QED  BY <1>1, <1>2, <1>6, <2>1, <2>2, <2>3 DEF IsCut
<1> QED  BY <1>4, <1>5, <1>6

\* What a pass leaves: what is shown of each member it gets to.
LEMMA CompactFacts ==
  ASSUME NEW v \in Seq(Member), NEW limits \in [Bounded -> Nat]
  PROVE  /\ Compact(v, limits) \in Seq(Member)
         /\ ToSet(Compact(v, limits)) =
              {Shown(m, limits) :
                 m \in {n \in ToSet(v) : GetsTo(v, limits, n)}}
         /\ (\A m \in ToSet(v) : GetsTo(v, limits, m) /\ ~IsCut(m, limits)) =>
              Compact(v, limits) = v
<1> DEFINE r == Reached(v, limits)
           d == Compact(v, limits)
<1>1. /\ r \in Seq(Member)
      /\ ToSet(r) = {m \in ToSet(v) : GetsTo(v, limits, m)}
      /\ (\A m \in ToSet(v) : GetsTo(v, limits, m)) => r = v
  BY ReachedFacts
<1>2. d = [i \in 1 .. Len(r) |-> Shown(r[i], limits)]
  BY <1>1 DEF Compact
<1> HIDE DEF r, d
<1>3. \A i \in 1 .. Len(r) : Shown(r[i], limits) \in Member
  BY <1>1, ShownFacts
<1>4. /\ d \in Seq(Member) /\ Len(d) = Len(r)
      /\ \A i \in 1 .. Len(r) : d[i] = Shown(r[i], limits)
  BY <1>1, <1>2, <1>3
<1>5. ToSet(d) = {Shown(m, limits) : m \in ToSet(r)}
  <2>1. ToSet(d) = {d[i] : i \in 1 .. Len(r)}
    BY <1>4, ToSetFacts
  <2>2. ToSet(r) = {r[i] : i \in 1 .. Len(r)}
    BY <1>1, ToSetFacts
  <2> QED  BY <1>4, <2>1, <2>2
<1>6. ASSUME \A m \in ToSet(v) : GetsTo(v, limits, m) /\ ~IsCut(m, limits)
      PROVE  d = v
  <2>1. r = v
    BY <1>1, <1>6
  <2>2. \A i \in 1 .. Len(v) : v[i] \in Member /\ v[i] \in ToSet(v)
    BY ToSetFacts
  <2>3. \A i \in 1 .. Len(v) : d[i] = v[i]
    BY <1>4, <1>6, <2>1, <2>2, ShownFacts
  <2> QED  BY <1>4, <2>1, <2>3, SameSequence
<1> QED  BY <1>1, <1>4, <1>5, <1>6 DEF d

\* What a pass notes: each cut it makes, and nothing else.
LEMMA NotesFacts ==
  ASSUME NEW v \in Seq(Member), NEW limits \in [Bounded -> Nat]
  PROVE  /\ Notes(v, limits) \in Seq(Remark)
         /\ \A k \in 1 .. Len(Notes(v, limits)) :
              \E m \in ToSet(v) :
                /\ GetsTo(v, limits, m) /\ IsCut(m, limits)
                /\ Notes(v, limits)[k] = Note(m, limits)
         /\ \A m \in ToSet(v) : GetsTo(v, limits, m) /\ IsCut(m, limits) =>
              \E k \in 1 .. Len(Notes(v, limits)) :
                Notes(v, limits)[k] = Note(m, limits)
<1> DEFINE r == Reached(v, limits)
           S == {m \in ToSet(v) : TooDeep(m) \/ TooLarge(m, limits)}
           t == Only(r, S)
           o == Notes(v, limits)
<1>1. /\ r \in Seq(Member)
      /\ ToSet(r) = {m \in ToSet(v) : GetsTo(v, limits, m)}
  BY ReachedFacts
<1>2. o = [i \in DOMAIN t |-> Note(t[i], limits)]
  BY DEF Notes
<1> HIDE DEF r, o
<1>3. t \in Seq(Member) /\ ToSet(t) = ToSet(r) \cap S
  BY <1>1, OnlyFacts
<1> HIDE DEF t
<1>4. ToSet(t) = {m \in ToSet(v) : GetsTo(v, limits, m) /\ IsCut(m, limits)}
  BY <1>1, <1>3 DEF S, IsCut
<1> HIDE DEF S
<1>5. ToSet(t) = {t[i] : i \in 1 .. Len(t)} /\ ToSet(t) \subseteq Member
  BY <1>3, ToSetFacts
<1>6. \A i \in 1 .. Len(t) : Note(t[i], limits) \in Remark
  BY <1>4, <1>5, ShownFacts
<1>7. /\ o \in Seq(Remark) /\ Len(o) = Len(t)
      /\ \A i \in 1 .. Len(t) : o[i] = Note(t[i], limits)
  BY <1>2, <1>3, <1>6
<1>8. ASSUME NEW k \in 1 .. Len(o)
      PROVE  \E m \in ToSet(v) :
               /\ GetsTo(v, limits, m) /\ IsCut(m, limits)
               /\ o[k] = Note(m, limits)
  BY <1>4, <1>5, <1>7
<1>9. ASSUME NEW m \in ToSet(v), GetsTo(v, limits, m), IsCut(m, limits)
      PROVE  \E k \in 1 .. Len(o) : o[k] = Note(m, limits)
  <2>1. m \in ToSet(t)
    BY <1>4, <1>9
  <2>2. PICK i \in 1 .. Len(t) : m = t[i]
    BY <1>5, <2>1
  <2> QED  BY <1>7, <2>2
<1> QED  BY <1>7, <1>8, <1>9 DEF o

\* If nothing that is got to is cut, everything is got to.
LEMMA NothingCutReached ==
  ASSUME NEW v \in Seq(Member), IsTree(v), NEW limits \in [Bounded -> Nat],
         \A m \in ToSet(v) : GetsTo(v, limits, m) => ~IsCut(m, limits)
  PROVE  \A m \in ToSet(v) : GetsTo(v, limits, m)
<1> SUFFICES ASSUME NEW m \in ToSet(v), ~GetsTo(v, limits, m)
             PROVE  FALSE
  OBVIOUS
<1> DEFINE Bars(c) ==
             Above(c, m) /\ ~(/\ ~TooDeep(c)
                              /\ m.path[Len(c.path) + 1] <= limits[c.kind])
           T == {Len(c.path) : c \in {b \in ToSet(v) : Bars(b)}}
<1>1. T \in SUBSET Nat
  BY MemberFacts
<1>2. T # {}
  BY DEF GetsTo
<1>3. PICK n \in T : \A k \in T : n <= k
  BY <1>1, <1>2, LeastElement
<1>4. PICK c \in ToSet(v) : Bars(c) /\ Len(c.path) = n
  OBVIOUS
<1>5. \A b \in ToSet(v) : Bars(b) => Len(b.path) \in T
  OBVIOUS
<1> HIDE DEF T
<1>6. ASSUME NEW b \in ToSet(v), Above(b, m), Len(b.path) < Len(c.path)
      PROVE  ~TooDeep(b) /\ m.path[Len(b.path) + 1] <= limits[b.kind]
  <2>1. ~(Len(c.path) <= Len(b.path))
    BY <1>6, MemberFacts
  <2>2. ~Bars(b)
    BY <1>3, <1>4, <1>5, <2>1
  <2> QED  BY <1>6, <2>2
<1>7. Above(c, m)
  BY <1>4
<1>8. GetsTo(v, limits, c)
  BY <1>6, <1>7, AboveReached
<1>9. ~TooDeep(c) /\ ~TooLarge(c, limits)
  BY <1>8 DEF IsCut
<1>10. c.kind \in Containers /\ m.path[Len(c.path) + 1] \in 1 .. c.extent
  BY <1>7, AboveFacts
<1>11. c.kind \in Bounded /\ c.extent \in Nat /\ limits[c.kind] \in Nat
  BY <1>10, MemberFacts DEF Bounded, Member
<1>12. c.extent <= limits[c.kind]
  BY <1>9, <1>11 DEF TooLarge
<1>13. m.path[Len(c.path) + 1] <= limits[c.kind]
  BY <1>10, <1>11, <1>12
<1> QED  BY <1>4, <1>9, <1>13

\* A pass notes something exactly if it changes something.
LEMMA NotesTell ==
  ASSUME NEW v \in Seq(Member), IsTree(v), NEW limits \in [Bounded -> Nat]
  PROVE  (Notes(v, limits) = <<>>) = (Compact(v, limits) = v)
<1>1. ASSUME Notes(v, limits) = <<>>
      PROVE  Compact(v, limits) = v
  <2>1. \A m \in ToSet(v) : GetsTo(v, limits, m) => ~IsCut(m, limits)
    <3>1. 1 .. Len(Notes(v, limits)) = {}
      BY <1>1
    <3> QED  BY <3>1, NotesFacts
  <2>2. \A m \in ToSet(v) : GetsTo(v, limits, m)
    BY <2>1, NothingCutReached
  <2> QED  BY <2>1, <2>2, CompactFacts
<1>2. ASSUME Notes(v, limits) # <<>>
      PROVE  Compact(v, limits) # v
  <2>1. 1 \in 1 .. Len(Notes(v, limits))
    <3> DEFINE o == Notes(v, limits)
    <3>1. o \in Seq(Remark) /\ o # <<>>
      BY <1>2, NotesFacts
    <3> HIDE DEF o
    <3>2. 1 \in 1 .. Len(o)
      BY <3>1
    <3> QED  BY <3>2 DEF o
  <2>2. PICK m \in ToSet(v) : GetsTo(v, limits, m) /\ IsCut(m, limits)
    BY <2>1, NotesFacts
  <2>3. Shown(m, limits) # m /\ Shown(m, limits).path = m.path
    BY <2>2, ShownFacts, MemberFacts
  <2>4. Shown(m, limits) \in ToSet(Compact(v, limits))
    BY <2>2, CompactFacts
  <2>5. Compact(v, limits) = v => FALSE
    BY <2>3, <2>4 DEF IsTree
  <2> QED  BY <2>5
<1> QED  BY <1>1, <1>2

\* A tighter pass notes something if a looser one does.
LEMMA TighterTells ==
  ASSUME NEW v \in Seq(Member), IsTree(v), Notes(v, Tight) = <<>>
  PROVE  Notes(v, Loose) = <<>>
<1>1. /\ Tight \in [Bounded -> Nat] /\ Loose \in [Bounded -> Nat]
      /\ \A kind \in Bounded : Tight[kind] <= Loose[kind]
  BY ContextAssumption
<1>2. \A m \in ToSet(v) : GetsTo(v, Tight, m) => ~IsCut(m, Tight)
  <2>1. 1 .. Len(Notes(v, Tight)) = {}
    OBVIOUS
  <2> QED  BY <1>1, <2>1, NotesFacts
<1>3. \A m \in ToSet(v) : ~IsCut(m, Tight)
  BY <1>1, <1>2, NothingCutReached
<1>4. ASSUME NEW m \in ToSet(v)
      PROVE  ~IsCut(m, Loose)
  <2>1. m.extent \in Nat
    BY MemberFacts DEF Member
  <2> QED  BY <1>1, <1>3, <2>1 DEF IsCut, TooLarge
<1> DEFINE o == Notes(v, Loose)
<1>5. o \in Seq(Remark) /\ \A k \in 1 .. Len(o) : FALSE
  BY <1>1, <1>4, NotesFacts
<1> HIDE DEF o
<1>6. o = <<>>
  BY <1>5
<1> QED  BY <1>6 DEF o

\* What a pass leaves is a tree.
LEMMA CompactIsTree ==
  ASSUME NEW v \in Seq(Member), IsTree(v), NEW limits \in [Bounded -> Nat]
  PROVE  IsTree(Compact(v, limits))
<1> DEFINE d == Compact(v, limits)
           G == {m \in ToSet(v) : GetsTo(v, limits, m)}
<1>1. d \in Seq(Member) /\ ToSet(d) = {Shown(m, limits) : m \in G}
  BY CompactFacts
<1> HIDE DEF d
<1>2. \A m \in ToSet(v) :
        m \in Member /\ m.path \in Seq(Nat) /\ Len(m.path) \in Nat
  BY MemberFacts
<1>3. \A m \in ToSet(v) : Shown(m, limits).path = m.path
  BY <1>2, ShownFacts
<1>4. \A m, n \in ToSet(v) : m.path = n.path => m = n
  BY DEF IsTree
<1>5. \A x, y \in ToSet(d) : x.path = y.path => x = y
  <2> SUFFICES ASSUME NEW m \in G, NEW n \in G,
                      Shown(m, limits).path = Shown(n, limits).path
               PROVE  m = n
    BY <1>1
  <2> QED  BY <1>3, <1>4
<1>6. ASSUME NEW x \in ToSet(d), NEW k \in 1 .. Len(x.path)
      PROVE  \E c \in ToSet(d) :
               /\ Above(c, x) /\ Len(c.path) = k - 1
               /\ c.kind \in Containers /\ x.path[k] \in 1 .. c.extent
  <2>1. PICK m \in G : x = Shown(m, limits)
    BY <1>1
  <2>2. m \in ToSet(v) /\ x.path = m.path /\ GetsTo(v, limits, m)
    BY <1>3, <2>1
  <2>3. PICK c \in ToSet(v) :
          /\ Above(c, m) /\ Len(c.path) = k - 1
          /\ c.kind \in Containers /\ m.path[k] \in 1 .. c.extent
    BY <1>6, <2>2 DEF IsTree
  <2>4. ~TooDeep(c) /\ m.path[k] <= limits[c.kind]
    <3>1. Len(c.path) + 1 = k
      BY <2>3
    <3> QED  BY <2>2, <2>3, <3>1 DEF GetsTo
  <2>5. c \in G
    <3>1. \A b \in ToSet(v) : Above(b, m) =>
            ~TooDeep(b) /\ m.path[Len(b.path) + 1] <= limits[b.kind]
      BY <2>2 DEF GetsTo
    <3> QED  BY <2>2, <2>3, <3>1, AboveReached
  <2> DEFINE y == Shown(c, limits)
  <2>6. y \in ToSet(d) /\ y.path = c.path
    BY <1>1, <1>3, <2>5
  <2>7. y.kind = c.kind /\ m.path[k] \in 1 .. y.extent
    BY <1>2, <2>3, <2>4, ShownFacts
  <2> HIDE DEF y
  <2>8. Above(y, x)
    BY <2>2, <2>3, <2>6 DEF Above
  <2> QED  BY <2>2, <2>3, <2>6, <2>7, <2>8
<1>7. ASSUME NEW x \in ToSet(d), x.kind \in Containers, NEW i \in 1 .. x.extent
      PROVE  \E y \in ToSet(d) : y.path = Append(x.path, i)
  <2>1. PICK c \in G : x = Shown(c, limits)
    BY <1>1
  <2>2. /\ c \in ToSet(v) /\ x.path = c.path /\ GetsTo(v, limits, c)
        /\ c \in Member
    BY <1>2, <1>3, <2>1
  <2>3. /\ c.kind \in Containers /\ ~TooDeep(c)
        /\ x.extent <= c.extent /\ x.extent <= limits[c.kind]
    BY <1>7, <2>1, <2>2, ShownFacts
  <2>4. c.extent \in Nat /\ x.extent \in Nat /\ limits[c.kind] \in Nat
    <3>1. x \in Member
      BY <1>1, MemberFacts
    <3> QED  BY <2>2, <2>3, <3>1 DEF Member, Bounded
  <2>5. i \in 1 .. c.extent /\ i <= limits[c.kind] /\ i \in Nat
    BY <1>7, <2>3, <2>4
  <2>6. PICK m \in ToSet(v) : m.path = Append(c.path, i)
    BY <2>2, <2>3, <2>5 DEF IsTree
  <2>7. /\ Len(m.path) = Len(c.path) + 1 /\ m.path[Len(c.path) + 1] = i
        /\ \A k \in 1 .. Len(c.path) : m.path[k] = c.path[k]
        /\ Len(c.path) \in Nat /\ c.path \in Seq(Nat)
    BY <1>2, <2>2, <2>5, <2>6
  <2>8. ASSUME NEW b \in ToSet(v), Above(b, m)
        PROVE  ~TooDeep(b) /\ m.path[Len(b.path) + 1] <= limits[b.kind]
    <3>1. /\ Len(b.path) <= Len(c.path) /\ b.path \in Seq(Nat)
          /\ Len(b.path) \in Nat
      BY <1>2, <2>7, <2>8 DEF Above
    <3>2. \A k \in 1 .. Len(b.path) : b.path[k] = c.path[k]
      BY <2>7, <2>8, <3>1 DEF Above
    <3>3. CASE Len(b.path) = Len(c.path)
      <4>1. b.path = c.path
        BY <2>7, <3>1, <3>2, <3>3, SameSequence
      <4>2. b = c
        BY <1>4, <2>2, <4>1
      <4> QED  BY <2>3, <2>5, <2>7, <4>2
    <3>4. CASE Len(b.path) < Len(c.path)
      <4>1. Above(b, c)
        BY <3>2, <3>4 DEF Above
      <4>2. ~TooDeep(b) /\ c.path[Len(b.path) + 1] <= limits[b.kind]
        BY <2>2, <4>1 DEF GetsTo
      <4>3. Len(b.path) + 1 \in 1 .. Len(c.path)
        BY <2>7, <3>1, <3>4
      <4>4. m.path[Len(b.path) + 1] = c.path[Len(b.path) + 1]
        BY <2>7, <4>3
      <4> QED  BY <4>2, <4>4
    <3> QED  BY <2>7, <3>1, <3>3, <3>4
  <2>9. m \in G
    BY <2>8 DEF GetsTo
  <2>10. Shown(m, limits) \in ToSet(d) /\ Shown(m, limits).path = m.path
    BY <1>1, <1>3, <2>9
  <2> QED  BY <2>2, <2>6, <2>10
<1>8. IsTree(d)
  BY <1>5, <1>6, <1>7 DEF IsTree
<1> QED  BY <1>8 DEF d

\* Nothing was cut, or nothing had to be.
NoCut == data = source /\ omissions = <<>>
SourceTooLong == Length(source) > Target

\* The last pass to compact the source did so with these limits, and its notes
\* follow those of an earlier pass, which has none if it has none.
CutBy(limits) ==
  /\ SourceTooLong
  /\ data = Compact(source, limits)
  /\ \E before \in Seq(Remark) :
       /\ omissions = before \o Notes(source, limits)
       /\ Notes(source, limits) = <<>> => before = <<>>

\* No pass was enough.
Replaced ==
  /\ SourceTooLong
  /\ data = Marker /\ omissions \in Seq(Remark) /\ omissions # <<>>

\* The invariant.  It says nothing of the omissions themselves: that they are
\* true follows from which pass has made them.
ContextInv ==
  /\ source \in Results
  /\ IsTree(data)
  /\ \/ pass = "loose" /\ NoCut
     \/ /\ pass = "tight"
        /\ \/ NoCut /\ ~TooLong
           \/ CutBy(Loose) /\ omissions = Notes(source, Loose)
     \/ /\ pass = "marker"
        /\ (NoCut /\ ~TooLong) \/ CutBy(Loose) \/ CutBy(Tight)
     \/ /\ pass = "list"
        /\ NoCut \/ CutBy(Loose) \/ CutBy(Tight) \/ Replaced
     \/ Done /\ CutsReported /\ NothingSilent

\* CutsReported, of a list that has not been cut.
Told ==
  \A shown \in ToSet(data) : \E whole \in ToSet(source) :
    /\ whole.path = shown.path
    /\ shown # whole =>
         \E k \in 1 .. Len(omissions) :
           /\ ToldLast(k, shown.path)
           /\ shown.kind = whole.kind =>
                /\ omissions[k].of = whole.extent
                /\ omissions[k].retained = shown.extent

\* Of all that was told about a member, the last is what the last pass told.
LEMMA CutTold ==
  ASSUME source \in Seq(Member), IsTree(source),
         NEW limits \in [Bounded -> Nat], CutBy(limits)
  PROVE  Told
<1> DEFINE n == Notes(source, limits)
<1>1. PICK before \in Seq(Remark) : omissions = before \o n
  BY DEF CutBy
<1>2. /\ n \in Seq(Remark)
      /\ \A k \in 1 .. Len(n) :
           \E m \in ToSet(source) :
             IsCut(m, limits) /\ n[k] = Note(m, limits)
      /\ \A m \in ToSet(source) :
           GetsTo(source, limits, m) /\ IsCut(m, limits) =>
           \E k \in 1 .. Len(n) : n[k] = Note(m, limits)
  BY NotesFacts
<1>3. \A m \in ToSet(source) : m \in Member
  BY MemberFacts
<1>4. \A m, k \in ToSet(source) : m.path = k.path => m = k
  BY DEF IsTree
<1> HIDE DEF n
<1> DEFINE b == Len(before)
<1>5. /\ Len(omissions) = b + Len(n) /\ b \in Nat /\ Len(n) \in Nat
      /\ \A i \in 1 .. Len(n) : omissions[b + i] = n[i]
  BY <1>1, <1>2
<1> HIDE DEF b
<1> SUFFICES ASSUME NEW shown \in ToSet(data)
             PROVE  \E whole \in ToSet(source) :
                      /\ whole.path = shown.path
                      /\ shown # whole =>
                           \E k \in 1 .. Len(omissions) :
                             /\ ToldLast(k, shown.path)
                             /\ shown.kind = whole.kind =>
                                  /\ omissions[k].of = whole.extent
                                  /\ omissions[k].retained = shown.extent
  BY DEF Told
<1>6. PICK m \in ToSet(source) :
        GetsTo(source, limits, m) /\ shown = Shown(m, limits)
  <2>1. data = Compact(source, limits)
    BY DEF CutBy
  <2> QED  BY <2>1, CompactFacts
<1>7. m.path = shown.path
  BY <1>3, <1>6, ShownFacts
<1>8. ASSUME shown # m
      PROVE  \E k \in 1 .. Len(omissions) :
               /\ ToldLast(k, shown.path)
               /\ shown.kind = m.kind =>
                    /\ omissions[k].of = m.extent
                    /\ omissions[k].retained = shown.extent
  <2>1. IsCut(m, limits)
    BY <1>3, <1>6, <1>8, ShownFacts
  <2>2. PICK i \in 1 .. Len(n) : n[i] = Note(m, limits)
    BY <1>2, <1>6, <2>1
  <2> DEFINE T == {k \in 1 .. Len(omissions) : omissions[k].path = m.path}
             k == Max(T)
  <2>3. /\ b + i \in 1 .. Len(omissions) /\ omissions[b + i] = n[i]
        /\ Len(omissions) \in Nat
    BY <1>5
  <2>4. b + i \in T
    BY <1>3, <2>2, <2>3, ShownFacts
  <2>5. T \in SUBSET (0 .. Len(omissions)) /\ T # {}
    BY <2>3, <2>4
  <2>6. k \in T /\ \A j \in T : j <= k
    BY <2>3, <2>5, GreatestElement
  <2> HIDE DEF k
  <2>7. k \in 1 .. Len(omissions) /\ omissions[k].path = m.path
    BY <2>6
  <2>8. \A j \in k + 1 .. Len(omissions) : omissions[j].path # m.path
    <3> SUFFICES ASSUME NEW j \in k + 1 .. Len(omissions),
                        omissions[j].path = m.path
                 PROVE  FALSE
      OBVIOUS
    <3>1. j \in 1 .. Len(omissions) /\ ~(j <= k)
      BY <2>3, <2>7
    <3> QED  BY <2>6, <3>1
  <2>9. b + i <= k
    BY <2>4, <2>6
  <2> HIDE DEF T
  <2>10. k - b \in 1 .. Len(n) /\ b + (k - b) = k
    BY <1>5, <2>7, <2>9
  <2>11. omissions[k] = n[k - b]
    BY <1>5, <2>10
  <2>12. PICK w \in ToSet(source) :
           IsCut(w, limits) /\ omissions[k] = Note(w, limits)
    BY <1>2, <2>10, <2>11
  <2>13. w = m
    <3>1. Note(w, limits).path = w.path
      BY <1>3, ShownFacts
    <3> QED  BY <1>4, <2>7, <2>12, <3>1
  <2>14. shown.kind = m.kind =>
           /\ omissions[k].of = m.extent
           /\ omissions[k].retained = shown.extent
    BY <1>3, <1>6, <2>1, <2>12, <2>13, ShownFacts
  <2>15. ToldLast(k, shown.path)
    BY <1>7, <2>7, <2>8 DEF ToldLast
  <2> QED  BY <2>7, <2>14, <2>15
<1> QED  BY <1>7, <1>8

\* Where nothing was cut there is nothing to tell.
LEMMA NoCutTold ==
  ASSUME NoCut
  PROVE  Told
BY DEF NoCut, Told

\* A cut is told, and only a cut.
LEMMA CutTells ==
  ASSUME source \in Seq(Member), IsTree(source),
         NEW limits \in [Bounded -> Nat], CutBy(limits)
  PROVE  omissions \in Seq(Remark) /\ (omissions = <<>>) = (data = source)
<1> DEFINE n == Notes(source, limits)
<1>1. n \in Seq(Remark)
  BY NotesFacts
<1>2. (n = <<>>) = (data = source)
  BY NotesTell DEF CutBy
<1>3. PICK before \in Seq(Remark) :
        omissions = before \o n /\ (n = <<>> => before = <<>>)
  BY DEF CutBy
<1> HIDE DEF n
<1>4. omissions \in Seq(Remark) /\ Len(omissions) = Len(before) + Len(n)
  BY <1>1, <1>3
<1>5. Len(before) \in Nat /\ Len(n) \in Nat /\ (Len(n) = 0) = (n = <<>>)
        /\ (Len(before) = 0) = (before = <<>>)
        /\ (Len(omissions) = 0) = (omissions = <<>>)
  BY <1>1, <1>4
<1>6. (omissions = <<>>) = (n = <<>>)
  BY <1>3, <1>4, <1>5
<1> QED  BY <1>2, <1>4, <1>6

\* What stands for a result that cannot be made to fit is a value, too.
LEMMA MarkerIsTree == IsTree(Marker)
<1> DEFINE m == [path |-> <<>>, kind |-> "truncated", extent |-> 0]
<1>1. m \in Member /\ m.path = <<>> /\ m.kind \notin Containers
  BY DEF Member, MemberKinds, Containers
<1> HIDE DEF m
<1>2. Marker = <<m>>
  BY DEF Marker, m
<1>3. ToSet(Marker) = {m}
  <2>1. Marker \in Seq(Member) /\ Len(Marker) = 1 /\ Marker[1] = m
    BY <1>1, <1>2
  <2>2. ToSet(Marker) = {Marker[i] : i \in 1 .. Len(Marker)}
    BY <2>1, ToSetFacts
  <2> QED  BY <2>1, <2>2
<1>4. 1 .. Len(m.path) = {}
  BY <1>1
<1> QED  BY <1>1, <1>3, <1>4 DEF IsTree

\* A pass that compacts leaves a cut.
LEMMA PassCuts ==
  ASSUME source \in Seq(Member), IsTree(source),
         NEW limits \in [Bounded -> Nat], Compacted(limits),
         source' = source, SourceTooLong, TooLong, omissions \in Seq(Remark),
         Notes(source, limits) = <<>> => omissions = <<>>
  PROVE  CutBy(limits)' /\ IsTree(data)'
<1>1. /\ data' = Compact(source, limits)
      /\ omissions' = omissions \o Notes(source, limits)
  BY DEF Compacted
<1>2. IsTree(data)'
  BY <1>1, CompactIsTree
<1>3. SourceTooLong'
  BY DEF SourceTooLong
<1>4. CutBy(limits)'
  BY <1>1, <1>3 DEF CutBy
<1> QED  BY <1>2, <1>4

\* Until its list is cut, what the model is told is true of what it sees.
LEMMA ToldUncut ==
  ASSUME source \in Seq(Member), IsTree(source),
         (NoCut \/ CutBy(Loose) \/ CutBy(Tight)) \/ Replaced
  PROVE  /\ omissions \in Seq(Remark)
         /\ (omissions = <<>>) = (data = source)
         /\ data # Marker => Told
<1>1. /\ Tight \in [Bounded -> Nat] /\ Loose \in [Bounded -> Nat]
      /\ Target \in Nat /\ Length(Marker) \in 0 .. Target
  BY ContextAssumption
<1>2. CASE NoCut
  BY <1>2, NoCutTold DEF NoCut
<1>3. CASE CutBy(Loose)
  BY <1>1, <1>3, CutTold, CutTells
<1>4. CASE CutBy(Tight)
  BY <1>1, <1>4, CutTold, CutTells
<1>5. CASE Replaced
  <2>1. source # Marker
    BY <1>1, <1>5 DEF Replaced, SourceTooLong
  <2> QED  BY <1>5, <2>1 DEF Replaced
<1> QED  BY <1>2, <1>3, <1>4, <1>5

\* Cutting the list hides no omission: its last entry says how many it stands
\* for.
LEMMA CutListTrue ==
  ASSUME ContextInv, CutList, source \in Seq(Member), IsTree(source)
  PROVE  CutsReported' /\ NothingSilent'
<1>1. pass = "list" /\ Done' /\ source' = source /\ data' = data
  BY DEF CutList, Done
<1>2. NoCut \/ CutBy(Loose) \/ CutBy(Tight) \/ Replaced
  BY <1>1 DEF ContextInv, Done
<1>3. /\ omissions \in Seq(Remark)
      /\ (omissions = <<>>) = (data = source)
      /\ data # Marker => Told
  BY <1>2, ToldUncut
<1>4. counted' = Len(omissions) /\ Len(omissions) \in Nat
  BY <1>3 DEF CutList
<1>5. MaxOmissions \in Nat \ {0}
  BY ContextAssumption
<1>6. CASE Len(omissions) > MaxOmissions
  <2> DEFINE front == SubSeq(omissions, 1, MaxOmissions - 1)
             rest == Omission(<<>>, "metadata_limit", Rest, 0)
  <2>1. omissions' = Append(front, rest)
    BY <1>6 DEF CutList
  <2>2. rest.reason = "metadata_limit" /\ rest.of = Rest
    BY DEF Omission
  <2>3. front \in Seq(Remark) /\ Len(front) = MaxOmissions - 1
    BY <1>3, <1>4, <1>5, <1>6
  <2>4. Rest = Len(omissions) - (MaxOmissions - 1)
    BY DEF Rest
  <2> HIDE DEF front, rest
  <2>5. front \in Seq(Remark \cup {rest})
    BY <2>3
  <2>6. /\ omissions' # <<>> /\ Len(omissions') = MaxOmissions
        /\ omissions'[MaxOmissions] = rest
    BY <1>5, <2>1, <2>3, <2>5
  <2>7. Last(omissions') = rest
    BY <2>6 DEF Last
  <2>8. ListCut'
    BY <2>2, <2>6, <2>7 DEF ListCut
  <2>9. CutsReported'
    BY <2>8 DEF CutsReported
  <2>10. counted' = Len(omissions') - 1 + Last(omissions').of
    BY <1>4, <1>5, <2>2, <2>4, <2>6, <2>7
  <2>11. data' # source'
    <3>1. omissions # <<>>
      BY <1>4, <1>5, <1>6
    <3> QED  BY <1>1, <1>3, <3>1
  <2>12. NothingSilent'
    <3>1. Len(omissions') <= MaxOmissions
      BY <1>5, <2>6
    <3> QED  BY <1>1, <2>6, <2>8, <2>10, <2>11, <3>1 DEF NothingSilent
  <2> QED  BY <2>9, <2>12
<1>7. CASE ~(Len(omissions) > MaxOmissions)
  <2>1. omissions' = omissions
    BY <1>7 DEF CutList
  <2>2. ~ListCut
    <3> SUFFICES ASSUME omissions # <<>>
                 PROVE  Last(omissions).reason # "metadata_limit"
      BY DEF ListCut
    <3>1. Len(omissions) \in 1 .. Len(omissions)
      BY <1>3
    <3>2. Last(omissions) \in Remark
      BY <1>3, <3>1 DEF Last
    <3> QED  BY <3>2 DEF Remark, Reasons
  <2>3. ~ListCut'
    BY <2>1, <2>2 DEF ListCut
  <2>4. data # Marker => Told
    BY <1>3
  <2>5. CutsReported'
    BY <1>1, <2>1, <2>4 DEF CutsReported, Told, ToldLast
  <2>6. Len(omissions) <= MaxOmissions
    BY <1>4, <1>5, <1>7
  <2>7. NothingSilent'
    BY <1>1, <1>3, <1>4, <2>1, <2>3, <2>6 DEF NothingSilent
  <2> QED  BY <2>5, <2>7
<1> QED  BY <1>6, <1>7

\* The invariant holds in every reachable state.
THEOREM ContextInvHolds == ContextSpec => []ContextInv
<1>1. ContextInit => ContextInv
  BY ContextAssumption DEF ContextInit, ContextInv, NoCut
<1>2. ContextInv /\ [ContextNext]_contextVars => ContextInv'
  <2> SUFFICES ASSUME ContextInv, [ContextNext]_contextVars
               PROVE  ContextInv'
    OBVIOUS
  <2>1. /\ source \in Seq(Member) /\ IsTree(source) /\ source \in Results
        /\ Tight \in [Bounded -> Nat] /\ Loose \in [Bounded -> Nat]
    BY ContextAssumption DEF ContextInv
  <2>2. CASE Loosely
    <3>1. /\ pass = "loose" /\ pass' = "tight" /\ source' = source
          /\ Compacted(Loose)
      BY <2>2 DEF Loosely
    <3>2. NoCut /\ IsTree(data)
      BY <3>1 DEF ContextInv, Done
    <3>3. CASE TooLong
      <4>1. SourceTooLong /\ omissions = <<>> /\ omissions \in Seq(Remark)
        BY <3>2, <3>3 DEF NoCut, TooLong, SourceTooLong
      <4>2. CutBy(Loose)' /\ IsTree(data)'
        BY <2>1, <3>1, <3>3, <4>1, PassCuts
      <4>3. omissions' = <<>> \o Notes(source, Loose)
        BY <3>1, <3>3, <4>1 DEF Compacted
      <4>4. Notes(source, Loose) \in Seq(Remark)
        BY <2>1, NotesFacts
      <4> DEFINE n == Notes(source, Loose)
      <4> HIDE DEF n
      <4>5. omissions' = n
        BY <4>3, <4>4 DEF n
      <4>6. omissions' = Notes(source, Loose)'
        BY <3>1, <4>5 DEF n
      <4> QED  BY <2>1, <3>1, <4>2, <4>6 DEF ContextInv
    <3>4. CASE ~TooLong
      <4>1. UNCHANGED <<data, omissions>>
        BY <3>1, <3>4 DEF Compacted
      <4>2. NoCut' /\ ~TooLong' /\ IsTree(data)'
        BY <3>1, <3>2, <3>4, <4>1 DEF NoCut, TooLong
      <4> QED  BY <2>1, <3>1, <4>2 DEF ContextInv
    <3> QED  BY <3>3, <3>4
  <2>3. CASE Tightly
    <3>1. /\ pass = "tight" /\ pass' = "marker" /\ source' = source
          /\ Compacted(Tight)
      BY <2>3 DEF Tightly
    <3>2. /\ IsTree(data)
          /\ \/ NoCut /\ ~TooLong
             \/ CutBy(Loose) /\ omissions = Notes(source, Loose)
      BY <3>1 DEF ContextInv, Done
    <3>3. CASE TooLong
      <4>1. CutBy(Loose) /\ omissions = Notes(source, Loose)
        BY <3>2, <3>3
      <4>2. SourceTooLong /\ omissions \in Seq(Remark)
        BY <2>1, <4>1, NotesFacts DEF CutBy
      <4>3. Notes(source, Tight) = <<>> => omissions = <<>>
        BY <2>1, <4>1, TighterTells
      <4>4. CutBy(Tight)' /\ IsTree(data)'
        BY <2>1, <3>1, <3>3, <4>2, <4>3, PassCuts
      <4> QED  BY <2>1, <3>1, <4>4 DEF ContextInv
    <3>4. CASE ~TooLong
      <4>1. UNCHANGED <<data, omissions>>
        BY <3>1, <3>4 DEF Compacted
      <4>2. IsTree(data)' /\ ((NoCut' /\ ~TooLong') \/ CutBy(Loose)')
        BY <3>1, <3>2, <3>4, <4>1 DEF NoCut, TooLong, CutBy, SourceTooLong
      <4> QED  BY <2>1, <3>1, <4>2 DEF ContextInv
    <3> QED  BY <3>3, <3>4
  <2>4. CASE Replace
    <3>1. pass = "marker" /\ pass' = "list" /\ source' = source
      BY <2>4 DEF Replace
    <3>2. /\ IsTree(data)
          /\ (NoCut /\ ~TooLong) \/ CutBy(Loose) \/ CutBy(Tight)
      BY <3>1 DEF ContextInv, Done
    <3>3. CASE TooLong
      <4>1. CutBy(Loose) \/ CutBy(Tight)
        BY <3>2, <3>3
      <4>2. SourceTooLong /\ omissions \in Seq(Remark)
        BY <2>1, <4>1, CutTells DEF CutBy
      <4> DEFINE o == Omission(<<>>, "model_context_byte_limit", 0, 0)
      <4>3. data' = Marker /\ omissions' = Append(omissions, o)
        BY <2>4, <3>3 DEF Replace
      <4>4. o \in Remark
        BY DEF Omission, Remark, Reasons
      <4> HIDE DEF o
      <4>5. omissions' \in Seq(Remark) /\ omissions' # <<>>
        BY <4>2, <4>3, <4>4
      <4>6. Replaced'
        BY <3>1, <4>2, <4>3, <4>5 DEF Replaced, SourceTooLong
      <4>7. IsTree(data)'
        BY <4>3, MarkerIsTree
      <4> QED  BY <2>1, <3>1, <4>6, <4>7 DEF ContextInv
    <3>4. CASE ~TooLong
      <4>1. UNCHANGED <<data, omissions>>
        BY <2>4, <3>4 DEF Replace
      <4>2. IsTree(data)' /\ (NoCut' \/ CutBy(Loose)' \/ CutBy(Tight)')
        BY <3>1, <3>2, <4>1 DEF NoCut, CutBy, SourceTooLong
      <4> QED  BY <2>1, <3>1, <4>2 DEF ContextInv
    <3> QED  BY <3>3, <3>4
  <2>5. CASE CutList
    <3>1. CutsReported' /\ NothingSilent'
      BY <2>1, <2>5, CutListTrue
    <3>2. pass' = "done" /\ source' = source /\ data' = data
      BY <2>5 DEF CutList
    <3>3. IsTree(data)'
      BY <3>2 DEF ContextInv
    <3> QED  BY <2>1, <3>1, <3>2, <3>3 DEF ContextInv, Done
  <2>6. CASE UNCHANGED contextVars
    <3>1. UNCHANGED <<source, data, omissions, counted, pass>>
      BY <2>6 DEF contextVars
    <3>2. (NoCut' = NoCut) /\ (TooLong' = TooLong) /\ (Done' = Done)
      BY <3>1 DEF NoCut, TooLong, Done
    <3>3. /\ CutBy(Loose) => CutBy(Loose)'
          /\ CutBy(Tight) => CutBy(Tight)'
          /\ Replaced => Replaced'
      BY <3>1 DEF CutBy, Replaced, SourceTooLong
    <3>4. (CutsReported => CutsReported') /\ (NothingSilent => NothingSilent')
      BY <3>1, <3>2 DEF CutsReported, NothingSilent, ListCut, ToldLast
    <3> QED  BY <3>1, <3>2, <3>3, <3>4 DEF ContextInv
  <2> QED  BY <2>2, <2>3, <2>4, <2>5, <2>6 DEF ContextNext
<1> QED  BY <1>1, <1>2, PTL DEF ContextSpec

\* What the model is told of a result is true of what it sees, whichever passes
\* it took (model-context.ts:56-100).
THEOREM ContextIsTrue == ContextSpec => []ContextTrue
<1>1. ContextInv => ContextTrue
  BY DEF ContextInv, ContextTrue, CutsReported, ShownWhole, NothingSilent, Done
<1> QED  BY <1>1, ContextInvHolds, PTL
=============================================================================
