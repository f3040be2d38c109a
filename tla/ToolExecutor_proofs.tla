------------------------- MODULE ToolExecutor_proofs -------------------------
(***************************************************************************)
(* The executor's slots, queues and budget, and what it says of a write,   *)
(* for any number of calls, slots, queue places and generations, and any   *)
(* results of the tools' handlers.                                         *)
(***************************************************************************)
EXTENDS ToolExecutor, FiniteSetTheorems, SequenceTheorems, TLAPS

CallRecord ==
  [phase : Phases, kind : Kinds, gen : {0} \cup Generations, aborted : BOOLEAN,
   started : BOOLEAN, said : Reply, answer : Reply]

\* What is true of one call while generation g is active, whatever the others
\* do: a call that waits for its slot has not started and waits for g; a handler
\* that runs for another generation has been aborted; what a write says it says
\* honestly.
CallOK(x, g) ==
  /\ x.phase \in {"queued", "granted"} => ~x.started /\ x.gen # 0
  /\ x.phase = "queued" => x.gen = g
  /\ x.phase \in {"running", "settled"} =>
       x.started /\ x.gen # 0 /\ (x.gen = g \/ x.aborted)
  /\ x.phase = "draining" => x.answer.code = "TOOL_TIMEOUT" /\ x.gen = 0
  /\ x.phase \in {"draining", "answered"} /\ x.kind = "write" /\ x.started =>
       \/ x.answer.outcome = "unknown"
       \/ /\ x.answer = x.said
          /\ x.said.code = "OK" \/ x.said.outcome \in {"failed", "not_started"}

\* A queue has no call twice.
Distinct(s) == \A i, j \in 1 .. Len(s) : s[i] = s[j] => i = j

\* A gate counts its holders and queues its waiting calls.
GateOK(k) ==
  /\ Distinct(queue[k]) /\ ToSet(queue[k]) = Waiting(k)
  /\ slots[k] = Cardinality(Holders(k)) /\ slots[k] <= Concurrency[k]
  /\ queue[k] # <<>> => slots[k] = Concurrency[k]

BudgetOK ==
  queued = Len(queue["read"]) + Len(queue["write"]) /\ queued <= QueueLimit

ExecutorInv ==
  /\ TypeOK /\ BudgetOK
  /\ \A k \in Kinds : GateOK(k)
  /\ \A c \in Calls : CallOK(call[c], active)
-----------------------------------------------------------------------------
(* Sequences without repetition. *)

\* Whoever is in a sequence has a place in it.
LEMMA PlaceInSeq ==
  ASSUME NEW s \in Seq(Calls)
  PROVE  /\ Len(s) \in Nat /\ DOMAIN s = 1 .. Len(s)
         /\ \A c : c \in ToSet(s) <=> \E i \in 1 .. Len(s) : s[i] = c
         /\ \A i \in 1 .. Len(s) : s[i] \in Calls
  BY DEF ToSet

\* A call that joins a queue stands in it once.
LEMMA AppendFacts ==
  ASSUME NEW s \in Seq(Calls), NEW c \in Calls, Distinct(s), c \notin ToSet(s)
  PROVE  /\ Append(s, c) \in Seq(Calls) /\ Distinct(Append(s, c))
         /\ Len(Append(s, c)) = Len(s) + 1
         /\ ToSet(Append(s, c)) = ToSet(s) \cup {c}
<1>1. /\ Append(s, c) \in Seq(Calls) /\ Len(Append(s, c)) = Len(s) + 1
      /\ \A i \in 1 .. Len(s) + 1 :
           Append(s, c)[i] = IF i = Len(s) + 1 THEN c ELSE s[i]
      /\ Len(s) \in Nat
  OBVIOUS
<1>2. \A i \in 1 .. Len(s) : s[i] # c
  BY DEF ToSet
<1>3. Distinct(Append(s, c))
  BY <1>1, <1>2 DEF Distinct
<1>4. ToSet(Append(s, c)) = ToSet(s) \cup {c}
  BY <1>1 DEF ToSet
<1>5. QED  BY <1>1, <1>3, <1>4

\* The head of a queue leaves it, and nobody else.
LEMMA TailFacts ==
  ASSUME NEW s \in Seq(Calls), Distinct(s), s # <<>>
  PROVE  /\ Tail(s) \in Seq(Calls) /\ Distinct(Tail(s))
         /\ Len(Tail(s)) = Len(s) - 1 /\ Len(s) >= 1
         /\ Head(s) \in ToSet(s) /\ ToSet(Tail(s)) = ToSet(s) \ {Head(s)}
<1>1. /\ Tail(s) \in Seq(Calls) /\ Len(Tail(s)) = Len(s) - 1
      /\ Len(s) \in Nat /\ Len(s) >= 1 /\ Head(s) = s[1]
      /\ \A i \in 1 .. Len(s) - 1 : Tail(s)[i] = s[i + 1]
  OBVIOUS
<1>2. Distinct(Tail(s))
  BY <1>1 DEF Distinct
<1>3. Head(s) \in ToSet(s)
  BY <1>1 DEF ToSet
<1>4. ToSet(Tail(s)) \subseteq ToSet(s) \ {Head(s)}
  BY <1>1 DEF ToSet, Distinct
<1>5. ASSUME NEW c \in ToSet(s), c # Head(s) PROVE c \in ToSet(Tail(s))
  <2>1. PICK i \in 1 .. Len(s) : c = s[i]
    BY PlaceInSeq
  <2>2. i \in Int /\ i # 1
    BY <1>1, <1>5, <2>1
  <2>3. i - 1 \in 1 .. Len(s) - 1 /\ (i - 1) + 1 = i
    BY <1>1, <2>1, <2>2
  <2>4. Tail(s)[i - 1] = c
    BY <1>1, <2>1, <2>3
  <2>5. QED  BY <1>1, <2>3, <2>4, PlaceInSeq
<1>6. QED  BY <1>1, <1>2, <1>3, <1>4, <1>5

\* A call whose timer has fired leaves its queue, and nobody else.
LEMMA SplicedFacts ==
  ASSUME NEW s \in Seq(Calls), NEW c, Distinct(s), c \in ToSet(s)
  PROVE  /\ Spliced(s, c) \in Seq(Calls) /\ Distinct(Spliced(s, c))
         /\ Len(Spliced(s, c)) = Len(s) - 1 /\ Len(s) >= 1
         /\ ToSet(Spliced(s, c)) = ToSet(s) \ {c}
<1> DEFINE n == CHOOSE i \in DOMAIN s : s[i] = c
           t == Spliced(s, c)
<1>1. Len(s) \in Nat /\ DOMAIN s = 1 .. Len(s) /\ \E i \in DOMAIN s : s[i] = c
  BY DEF ToSet
<1>2. n \in 1 .. Len(s) /\ s[n] = c
  BY <1>1
<1>3. t = RemoveAt(s, n)
  BY <1>1 DEF Spliced
<1> HIDE DEF n, t
<1>4. /\ t \in Seq(Calls) /\ Len(t) = Len(s) - 1
      /\ \A i \in 1 .. Len(s) - 1 : t[i] = IF i < n THEN s[i] ELSE s[i + 1]
  <2> DEFINE a == SubSeq(s, 1, n - 1)
             b == SubSeq(s, n + 1, Len(s))
  <2>1. /\ a \in Seq(Calls) /\ Len(a) = n - 1
        /\ \A i \in 1 .. n - 1 : a[i] = s[i]
    BY <1>1, <1>2
  <2>2. /\ b \in Seq(Calls) /\ Len(b) = Len(s) - n
        /\ \A i \in 1 .. Len(s) - n : b[i] = s[n + i]
    <3>1. n + 1 \in Int /\ Len(s) \in Int /\ \A i \in n + 1 .. Len(s) : s[i] \in Calls
      BY <1>1, <1>2
    <3>2. /\ b \in Seq(Calls)
          /\ Len(b) = IF n + 1 <= Len(s) THEN Len(s) - (n + 1) + 1 ELSE 0
          /\ \A i \in 1 .. Len(s) - (n + 1) + 1 : b[i] = s[(n + 1) + i - 1]
      BY <3>1, SubSeqProperties, Z3
    <3> HIDE DEF b
    <3>3. \A i \in 1 .. Len(s) - n :
            i \in 1 .. Len(s) - (n + 1) + 1 /\ (n + 1) + i - 1 = n + i
      BY <1>1, <1>2
    <3>4. Len(b) = Len(s) - n
      <4> DEFINE l == Len(s)
      <4>1. l \in Nat /\ n \in Nat /\ n <= l
        BY <1>1, <1>2
      <4>2. Len(b) = IF n + 1 <= l THEN l - (n + 1) + 1 ELSE 0
        BY <3>2
      <4> HIDE DEF l
      <4>3. CASE n + 1 <= l
        <5>1. Len(b) = l - (n + 1) + 1
          BY <4>2, <4>3
        <5>2. l - (n + 1) + 1 = l - n
          BY <4>1
        <5>3. QED  BY <5>1, <5>2 DEF l
      <4>4. CASE ~(n + 1 <= l)
        <5>1. Len(b) = 0
          BY <4>2, <4>4
        <5>2. l - n = 0
          BY <4>1, <4>4
        <5>3. QED  BY <5>1, <5>2 DEF l
      <4>5. QED  BY <4>3, <4>4
    <3>5. ASSUME NEW i \in 1 .. Len(s) - n PROVE b[i] = s[n + i]
      <4>1. i \in 1 .. Len(s) - (n + 1) + 1 /\ (n + 1) + i - 1 = n + i
        BY <3>3
      <4>2. b[i] = s[(n + 1) + i - 1]
        BY <3>2, <4>1
      <4>3. QED  BY <4>1, <4>2
    <3>6. QED  BY <3>2, <3>4, <3>5
  <2>3. t = a \o b
    BY <1>3 DEF RemoveAt
  <2> HIDE DEF a, b
  <2>4. /\ t \in Seq(Calls) /\ Len(t) = Len(a) + Len(b)
        /\ \A i \in 1 .. Len(a) + Len(b) :
             t[i] = IF i <= Len(a) THEN a[i] ELSE b[i - Len(a)]
    <3>1. a \in Seq(Calls) /\ b \in Seq(Calls)
      BY <2>1, <2>2
    <3>2. QED  BY <2>3, <3>1, ConcatProperties, Zenon
  <2>5. Len(t) = Len(s) - 1
    BY <1>1, <1>2, <2>1, <2>2, <2>4
  <2>6. ASSUME NEW i \in 1 .. Len(s) - 1
        PROVE  t[i] = IF i < n THEN s[i] ELSE s[i + 1]
    <3>1. CASE i < n
      <4>1. i \in 1 .. n - 1 /\ i <= Len(a) /\ i \in 1 .. Len(a) + Len(b)
        BY <1>1, <1>2, <2>1, <2>2, <3>1
      <4>2. t[i] = a[i]
        BY <2>4, <4>1
      <4>3. QED  BY <2>1, <3>1, <4>1, <4>2
    <3>2. CASE ~(i < n)
      <4>1. /\ i - (n - 1) \in 1 .. Len(s) - n /\ ~(i <= Len(a))
            /\ n + (i - (n - 1)) = i + 1 /\ i \in 1 .. Len(a) + Len(b)
        BY <1>1, <1>2, <2>1, <2>2, <3>2
      <4>2. t[i] = b[i - (n - 1)]
        BY <2>1, <2>4, <4>1
      <4>3. QED  BY <2>2, <3>2, <4>1, <4>2
    <3>3. QED  BY <3>1, <3>2
  <2>7. QED  BY <2>4, <2>5, <2>6
<1>5. Distinct(t)
  BY <1>1, <1>2, <1>4 DEF Distinct
<1>6. ASSUME NEW d \in ToSet(t) PROVE d \in ToSet(s) /\ d # c
  <2>1. PICK i \in 1 .. Len(s) - 1 : t[i] = d
    BY <1>4, PlaceInSeq
  <2>2. PICK j \in 1 .. Len(s) : j # n /\ s[j] = d
    <3>1. CASE i < n
      <4>1. i \in 1 .. Len(s) /\ i # n  BY <1>1, <1>2, <2>1, <3>1
      <4>2. QED  BY <1>4, <2>1, <3>1, <4>1
    <3>2. CASE ~(i < n)
      <4>1. i + 1 \in 1 .. Len(s) /\ i + 1 # n  BY <1>1, <1>2, <2>1, <3>2
      <4>2. QED  BY <1>4, <2>1, <3>2, <4>1
    <3>3. QED  BY <3>1, <3>2
  <2>3. QED  BY <1>2, <2>2, PlaceInSeq DEF Distinct
<1>7. ASSUME NEW d \in ToSet(s), d # c PROVE d \in ToSet(t)
  <2>1. PICK i \in 1 .. Len(s) : d = s[i]
    BY PlaceInSeq
  <2>2. PICK j \in 1 .. Len(s) - 1 : t[j] = d
    <3>1. CASE i < n
      <4>1. i \in 1 .. Len(s) - 1  BY <1>1, <1>2, <2>1, <3>1
      <4>2. QED  BY <1>4, <2>1, <3>1, <4>1
    <3>2. CASE i > n
      <4>1. i - 1 \in 1 .. Len(s) - 1 /\ ~(i - 1 < n) /\ (i - 1) + 1 = i
        BY <1>1, <1>2, <2>1, <3>2
      <4>2. t[i - 1] = d
        BY <1>4, <2>1, <4>1
      <4>3. QED  BY <4>1, <4>2
    <3>3. i # n  BY <1>2, <1>7, <2>1
    <3>4. QED  BY <1>2, <2>1, <3>1, <3>2, <3>3
  <2>3. QED  BY <1>4, <2>2, PlaceInSeq
<1>8. QED  BY <1>1, <1>2, <1>4, <1>5, <1>6, <1>7 DEF t

\* A queue is as long as there are calls in it.
LEMMA DistinctCounts ==
  ASSUME NEW s \in Seq(Calls), Distinct(s)
  PROVE  Cardinality(ToSet(s)) = Len(s)
<1>1. Len(s) \in Nat /\ DOMAIN s = 1 .. Len(s)
  OBVIOUS
<1>2. s \in Bijection(1 .. Len(s), ToSet(s))
  BY <1>1 DEF Bijection, Injection, Surjection, ToSet, Distinct, IsInjective
<1>3. ExistsBijection(1 .. Len(s), ToSet(s))
  BY <1>2 DEF ExistsBijection
<1>4. IsFiniteSet(1 .. Len(s)) /\ Cardinality(1 .. Len(s)) = Len(s)
  BY <1>1, FS_Interval
<1>5. QED  BY <1>3, <1>4, FS_Bijection
-----------------------------------------------------------------------------
(* One call. *)

\* The fields of a call, one by one.
LEMMA CallFields ==
  ASSUME TypeOK, NEW c \in Calls
  PROVE  /\ call[c] \in CallRecord /\ Kind(c) \in Kinds
         /\ call[c].phase \in Phases /\ call[c].gen \in {0} \cup Generations
         /\ call[c].aborted \in BOOLEAN /\ call[c].started \in BOOLEAN
         /\ call[c].said \in Reply /\ call[c].answer \in Reply
  BY DEF TypeOK, CallRecord, Kind

\* What is reported of a write is never left open.
LEMMA AmbiguousFacts ==
  ASSUME TypeOK, NEW c \in Calls, NEW a \in Reply
  PROVE  /\ Ambiguous(c, a) \in Reply /\ Ambiguous(c, a).code = a.code
         /\ a.outcome # "none" => Ambiguous(c, a) = a
         /\ Kind(c) = "write" /\ a.outcome = "none" =>
              Ambiguous(c, a).outcome = "unknown"
  BY DEF Ambiguous, Reply, Outcomes

\* An answer changes nothing of what the call was and what its handler said.
LEMMA AnsweredFacts ==
  ASSUME TypeOK, NEW c \in Calls, NEW a \in Reply
  PROVE  /\ Answered(c, a) \in CallRecord
         /\ Answered(c, a).phase = "answered" /\ Answered(c, a).answer = a
         /\ Answered(c, a).kind = call[c].kind /\ Answered(c, a).gen = 0
         /\ Answered(c, a).started = call[c].started
         /\ Answered(c, a).said = call[c].said
<1> DEFINE x == call[c]
<1>1. x \in CallRecord
  BY CallFields
<1>2. Answered(c, a) = [x EXCEPT !.phase = "answered", !.gen = 0,
                                 !.aborted = FALSE, !.answer = a]
  BY DEF Answered
<1> HIDE DEF x
<1>3. QED  BY <1>1, <1>2 DEF CallRecord, Phases, x

\* A reply the executor makes up itself.
LEMMA ResponseFacts ==
  ASSUME NEW code \in Codes, NEW outcome \in Outcomes
  PROVE  /\ Response(code, outcome) \in Reply
         /\ Response(code, outcome).code = code
         /\ Response(code, outcome).outcome = outcome
  BY DEF Response, Reply

\* A call that has just been answered and was never started is in order.
LEMMA NeverStarted ==
  ASSUME NEW x \in CallRecord, NEW g, x.phase = "answered", ~x.started
  PROVE  CallOK(x, g)
  BY DEF CallOK

\* When one call changes, the others stay in order.
LEMMA OneCallOK ==
  ASSUME ExecutorInv, NEW c \in Calls, NEW new \in CallRecord,
         call' = [call EXCEPT ![c] = new], UNCHANGED session,
         CallOK(new, active)
  PROVE  /\ call' \in [Calls -> CallRecord]
         /\ \A e \in Calls : CallOK(call[e], active)'
<1>1. call \in [Calls -> CallRecord]
  BY DEF ExecutorInv, TypeOK, CallRecord
<1>2. active' = active
  BY DEF session, active
<1>3. \A e \in Calls : call'[e] = IF e = c THEN new ELSE call[e]
  BY <1>1
<1>4. \A e \in Calls : CallOK(call[e], active)
  BY DEF ExecutorInv
<1>5. \A e \in Calls : CallOK(call'[e], active')
  BY <1>2, <1>3, <1>4
<1>6. QED  BY <1>1, <1>5

\* When one call changes, only its own place among the holders and the waiting
\* calls does.
LEMMA OneCallSets ==
  ASSUME TypeOK, NEW c \in Calls, NEW new \in CallRecord, NEW k \in Kinds,
         call' = [call EXCEPT ![c] = new]
  PROVE  /\ Waiting(k)' = IF new.phase = "queued" /\ new.kind = k
                          THEN Waiting(k) \cup {c} ELSE Waiting(k) \ {c}
         /\ Holders(k)' = IF new.phase \in Holding /\ new.kind = k
                          THEN Holders(k) \cup {c} ELSE Holders(k) \ {c}
<1>1. \A e \in Calls : call'[e] = IF e = c THEN new ELSE call[e]
  BY DEF TypeOK
<1>2. QED  BY <1>1 DEF Waiting, Holders, At, Kind

\* The holders are finitely many, and counting them is elementary.
LEMMA HoldersCount ==
  ASSUME NEW k, NEW c
  PROVE  /\ Cardinality(Holders(k)) \in Nat
         /\ c \in Holders(k) => /\ Cardinality(Holders(k)) >= 1
                                /\ Cardinality(Holders(k) \ {c}) =
                                     Cardinality(Holders(k)) - 1
         /\ c \notin Holders(k) => Cardinality(Holders(k) \cup {c}) =
                                     Cardinality(Holders(k)) + 1
<1>1. IsFiniteSet(Holders(k)) /\ IsFiniteSet(Holders(k) \ {c})
  <2>1. Holders(k) \subseteq Calls /\ Holders(k) \ {c} \subseteq Calls
    BY DEF Holders
  <2>2. QED  BY <2>1, ExecutorAssumption, FS_Subset DEF ExecutorAssumption
<1>2. Cardinality(Holders(k)) \in Nat /\ Cardinality(Holders(k) \ {c}) \in Nat
  BY <1>1, FS_CardinalityType
<1>3. CASE c \in Holders(k)
  <2>1. Cardinality(Holders(k) \ {c}) = Cardinality(Holders(k)) - 1
    BY <1>1, <1>3, FS_RemoveElement
  <2>2. QED  BY <1>2, <1>3, <2>1
<1>4. CASE c \notin Holders(k)
  <2>1. Cardinality(Holders(k) \cup {c}) = Cardinality(Holders(k)) + 1
    BY <1>1, <1>4, FS_AddElement
  <2>2. QED  BY <1>2, <1>4, <2>1
<1>5. QED  BY <1>3, <1>4

\* A gate nobody joins, leaves or waits at stays in order.
LEMMA SameGate ==
  ASSUME NEW k \in Kinds, GateOK(k), queue'[k] = queue[k],
         slots'[k] = slots[k], Waiting(k)' = Waiting(k),
         Holders(k)' = Holders(k)
  PROVE  GateOK(k)'
  BY DEF GateOK

\* The parts of the type invariant, while the session stays.
LEMMA TypeKept ==
  ASSUME TypeOK, UNCHANGED session, call' \in [Calls -> CallRecord],
         slots' \in [Kinds -> Nat], queue' \in [Kinds -> Seq(Calls)],
         queued' \in Nat
  PROVE  TypeOK'
  BY DEF TypeOK, CallRecord, session

\* The counters of a gate.
LEMMA GateFields ==
  ASSUME TypeOK, NEW k \in Kinds
  PROVE  /\ slots \in [Kinds -> Nat] /\ slots[k] \in Nat
         /\ Concurrency[k] \in Nat /\ Concurrency[k] >= 1
         /\ queue \in [Kinds -> Seq(Calls)] /\ queue[k] \in Seq(Calls)
         /\ Len(queue[k]) \in Nat /\ queued \in Nat
<1>1. Concurrency[k] \in Nat \ {0}
  BY ExecutorAssumption DEF ExecutorAssumption
<1>2. queue[k] \in Seq(Calls) /\ slots[k] \in Nat
  BY DEF TypeOK
<1>3. QED  BY <1>1, <1>2 DEF TypeOK

\* A step of one call that neither takes nor leaves a slot or a queue place.
LEMMA QuietStep ==
  ASSUME ExecutorInv, NEW c \in Calls, NEW new \in CallRecord,
         call' = [call EXCEPT ![c] = new], UNCHANGED session, UNCHANGED gates,
         CallOK(new, active), At(c, "queued") <=> new.phase = "queued",
         call[c].phase \in Holding <=> new.phase \in Holding,
         new.phase \in Holding \cup {"queued"} => new.kind = Kind(c)
  PROVE  ExecutorInv'
<1>1. /\ TypeOK /\ BudgetOK /\ \A k \in Kinds : GateOK(k)
      /\ slots' = slots /\ queue' = queue /\ queued' = queued
  BY DEF ExecutorInv, gates
<1>2. /\ call' \in [Calls -> CallRecord]
      /\ \A e \in Calls : CallOK(call[e], active)'
  BY OneCallOK
<1>3. TypeOK'
  <2>1. slots' \in [Kinds -> Nat] /\ queue' \in [Kinds -> Seq(Calls)]
        /\ queued' \in Nat
    BY <1>1 DEF TypeOK
  <2>2. QED  BY <1>1, <1>2, <2>1, TypeKept
<1>4. BudgetOK'
  BY <1>1 DEF BudgetOK
<1>5. ASSUME NEW k \in Kinds PROVE GateOK(k)'
  <2>1. Waiting(k)' = Waiting(k) /\ Holders(k)' = Holders(k)
    <3>1. /\ c \in Waiting(k) <=> new.phase = "queued" /\ new.kind = k
          /\ c \in Holders(k) <=> new.phase \in Holding /\ new.kind = k
      BY DEF Waiting, Holders, At, Kind
    <3>2. /\ Waiting(k)' = IF new.phase = "queued" /\ new.kind = k
                           THEN Waiting(k) \cup {c} ELSE Waiting(k) \ {c}
          /\ Holders(k)' = IF new.phase \in Holding /\ new.kind = k
                           THEN Holders(k) \cup {c} ELSE Holders(k) \ {c}
      BY <1>1, OneCallSets
    <3>3. QED  BY <3>1, <3>2
  <2>2. QED  BY <1>1, <2>1, SameGate
<1>6. QED  BY <1>2, <1>3, <1>4, <1>5 DEF ExecutorInv

\* A call that takes a free slot.
LEMMA AcquireStep ==
  ASSUME ExecutorInv, NEW c \in Calls, NEW k \in Kinds, Acquire(c, k)
  PROVE  ExecutorInv'
<1> DEFINE new == Accepted(k, "granted")
<1>1. /\ TypeOK /\ BudgetOK /\ (\A i \in Kinds : GateOK(i))
      /\ Permitted(c, k) /\ slots[k] < Concurrency[k]
      /\ slots' = [slots EXCEPT ![k] = @ + 1]
      /\ call' = [call EXCEPT ![c] = new]
      /\ UNCHANGED session /\ queue' = queue /\ queued' = queued
  BY DEF ExecutorInv, Acquire
<1>2. /\ new \in CallRecord /\ new.phase = "granted" /\ new.kind = k
      /\ ~new.started /\ new.gen # 0
  <2>1. active \in {0} \cup Generations /\ active # 0
    BY <1>1 DEF TypeOK, active, Permitted
  <2>2. Silent \in Reply
    BY DEF Silent, Reply, Codes, Outcomes
  <2>3. QED  BY <2>1, <2>2 DEF Accepted, Idle, CallRecord, Phases, Kinds
<1>3. c \notin Waiting(k) /\ c \notin Holders(k)
      /\ \A i \in Kinds : c \notin Waiting(i) /\ c \notin Holders(i)
  BY <1>1 DEF Permitted, Free, Waiting, Holders, Holding, At
<1> HIDE DEF new
<1>4. CallOK(new, active)
  BY <1>2 DEF CallOK
<1>5. /\ call' \in [Calls -> CallRecord]
      /\ \A e \in Calls : CallOK(call[e], active)'
  BY <1>1, <1>2, <1>4, OneCallOK
<1>6. /\ slots' \in [Kinds -> Nat] /\ slots'[k] = slots[k] + 1
      /\ slots[k] \in Nat /\ Concurrency[k] \in Nat
      /\ \A i \in Kinds : i # k => slots'[i] = slots[i]
  <2>1. slots \in [Kinds -> Nat] /\ slots[k] \in Nat /\ Concurrency[k] \in Nat
    BY <1>1, GateFields
  <2>2. slots[k] + 1 \in Nat
    BY <2>1
  <2>3. QED  BY <1>1, <2>1, <2>2
<1>7. TypeOK'
  <2>1. queue' \in [Kinds -> Seq(Calls)] /\ queued' \in Nat
    BY <1>1 DEF TypeOK
  <2>2. QED  BY <1>1, <1>5, <1>6, <2>1, TypeKept
<1>8. BudgetOK'
  BY <1>1 DEF BudgetOK
<1>9. ASSUME NEW i \in Kinds PROVE GateOK(i)'
  <2>1. /\ Waiting(i)' = Waiting(i) \ {c}
        /\ Holders(i)' = IF i = k THEN Holders(i) \cup {c}
                         ELSE Holders(i) \ {c}
    <3>1. /\ Waiting(i)' = IF new.phase = "queued" /\ new.kind = i
                           THEN Waiting(i) \cup {c} ELSE Waiting(i) \ {c}
          /\ Holders(i)' = IF new.phase \in Holding /\ new.kind = i
                           THEN Holders(i) \cup {c} ELSE Holders(i) \ {c}
      BY <1>1, <1>2, OneCallSets
    <3>2. QED  BY <1>2, <3>1 DEF Holding
  <2>2. Waiting(i)' = Waiting(i)
    BY <1>3, <2>1
  <2>3. CASE i # k
    <3>1. Holders(i)' = Holders(i)
      BY <1>3, <2>1, <2>3
    <3>2. QED  BY <1>1, <1>6, <2>2, <2>3, <3>1, SameGate
  <2>4. CASE i = k
    <3>1. /\ Distinct(queue[k]) /\ ToSet(queue[k]) = Waiting(k)
          /\ slots[k] = Cardinality(Holders(k)) /\ slots[k] <= Concurrency[k]
          /\ queue[k] # <<>> => slots[k] = Concurrency[k]
      BY <1>1 DEF GateOK
    <3>2. Cardinality(Holders(k)') = slots'[k]
      <4>1. Holders(k)' = Holders(k) \cup {c}
        BY <2>1, <2>4
      <4>2. QED  BY <1>3, <1>6, <3>1, <4>1, HoldersCount
    <3>3. slots'[k] <= Concurrency'[k] /\ queue'[k] = <<>>
      BY <1>1, <1>6, <3>1
    <3>4. ToSet(queue[k])' = Waiting(k)' /\ Distinct(queue[k])'
      BY <1>1, <2>2, <2>4, <3>1
    <3>5. QED  BY <2>4, <3>2, <3>3, <3>4 DEF GateOK
  <2>5. QED  BY <2>3, <2>4
<1>10. QED  BY <1>5, <1>7, <1>8, <1>9 DEF ExecutorInv

\* One queue grows or shrinks, and the budget with it.
LEMMA BudgetMoves ==
  ASSUME TypeOK, BudgetOK, NEW k \in Kinds, NEW q \in Seq(Calls),
         NEW n \in Int, Len(q) = Len(queue[k]) + n,
         queue' = [queue EXCEPT ![k] = q]
  PROVE  /\ queue' \in [Kinds -> Seq(Calls)] /\ queue'[k] = q
         /\ \A i \in Kinds : i # k => queue'[i] = queue[i]
         /\ Len(queue'["read"]) + Len(queue'["write"]) = queued + n
<1>1. /\ queue' \in [Kinds -> Seq(Calls)] /\ queue'[k] = q
      /\ \A i \in Kinds : i # k => queue'[i] = queue[i]
  BY GateFields
<1> DEFINE r == Len(queue["read"])
           w == Len(queue["write"])
           r2 == Len(queue'["read"])
           w2 == Len(queue'["write"])
<1>2. "read" \in Kinds /\ "write" \in Kinds /\ "read" # "write"
  BY DEF Kinds
<1>3. r \in Nat /\ w \in Nat /\ queued \in Nat /\ queued = r + w
  BY <1>2, GateFields DEF BudgetOK
<1>4. k = "read" => r2 = r + n /\ w2 = w
  BY <1>1, <1>2
<1>5. k = "write" => w2 = w + n /\ r2 = r
  BY <1>1, <1>2
<1>6. k = "read" \/ k = "write"
  BY DEF Kinds
<1> HIDE DEF r, w, r2, w2
<1>7. r2 + w2 = queued + n
  BY <1>3, <1>4, <1>5, <1>6
<1>8. QED  BY <1>1, <1>7 DEF r2, w2

\* The budget covers each queue.
LEMMA BudgetCovers ==
  ASSUME TypeOK, BudgetOK, NEW k \in Kinds
  PROVE  queued \in Nat /\ queued >= Len(queue[k])
<1> DEFINE r == Len(queue["read"])
           w == Len(queue["write"])
           l == Len(queue[k])
<1>1. "read" \in Kinds /\ "write" \in Kinds
  BY DEF Kinds
<1>2. r \in Nat /\ w \in Nat /\ queued \in Nat /\ queued = r + w
  BY <1>1, GateFields DEF BudgetOK
<1>3. l = r \/ l = w
  BY DEF Kinds
<1> HIDE DEF r, w, l
<1>4. queued >= l
  BY <1>2, <1>3
<1>5. QED  BY <1>2, <1>4 DEF l

\* A call that waits for a slot.
LEMMA EnqueueStep ==
  ASSUME ExecutorInv, NEW c \in Calls, NEW k \in Kinds, Enqueue(c, k)
  PROVE  ExecutorInv'
<1> DEFINE new == Accepted(k, "queued")
           q == Append(queue[k], c)
<1>1. /\ TypeOK /\ BudgetOK /\ (\A i \in Kinds : GateOK(i))
      /\ Permitted(c, k) /\ slots[k] >= Concurrency[k]
      /\ queued < QueueLimit /\ queued' = queued + 1
      /\ queue' = [queue EXCEPT ![k] = q]
      /\ call' = [call EXCEPT ![c] = new]
      /\ UNCHANGED session /\ slots' = slots
  BY DEF ExecutorInv, Enqueue
<1>2. /\ new \in CallRecord /\ new.phase = "queued" /\ new.kind = k
      /\ ~new.started /\ new.gen = active /\ new.gen # 0
  <2>1. active \in {0} \cup Generations /\ active # 0
    BY <1>1 DEF TypeOK, active, Permitted
  <2>2. Silent \in Reply
    BY DEF Silent, Reply, Codes, Outcomes
  <2>3. QED  BY <2>1, <2>2 DEF Accepted, Idle, CallRecord, Phases, Kinds
<1>3. \A i \in Kinds : c \notin Waiting(i) /\ c \notin Holders(i)
  BY <1>1 DEF Permitted, Free, Waiting, Holders, Holding, At
<1> HIDE DEF new
<1>4. CallOK(new, active)
  BY <1>2 DEF CallOK
<1>5. /\ call' \in [Calls -> CallRecord]
      /\ \A e \in Calls : CallOK(call[e], active)'
  BY <1>1, <1>2, <1>4, OneCallOK
<1>6. /\ Distinct(queue[k]) /\ ToSet(queue[k]) = Waiting(k)
      /\ slots[k] = Cardinality(Holders(k)) /\ slots[k] <= Concurrency[k]
  BY <1>1 DEF GateOK
<1>7. /\ q \in Seq(Calls) /\ Distinct(q) /\ Len(q) = Len(queue[k]) + 1
      /\ ToSet(q) = Waiting(k) \cup {c}
  BY <1>1, <1>3, <1>6, AppendFacts, GateFields
<1> HIDE DEF q
<1>8. /\ queue' \in [Kinds -> Seq(Calls)] /\ queue'[k] = q
      /\ \A i \in Kinds : i # k => queue'[i] = queue[i]
      /\ Len(queue'["read"]) + Len(queue'["write"]) = queued + 1
  <2>1. 1 \in Int
    OBVIOUS
  <2>2. QED  BY <1>1, <1>7, <2>1, BudgetMoves
<1>9. queued \in Nat /\ QueueLimit \in Nat /\ slots \in [Kinds -> Nat]
  BY <1>1, GateFields, ExecutorAssumption DEF ExecutorAssumption
<1>10. TypeOK'
  BY <1>1, <1>5, <1>8, <1>9, TypeKept
<1>11. BudgetOK'
  <2>1. queued' = Len(queue'["read"]) + Len(queue'["write"])
    BY <1>1, <1>8
  <2>2. queued' <= QueueLimit
    BY <1>1, <1>9
  <2>3. QED  BY <2>1, <2>2 DEF BudgetOK
<1>12. ASSUME NEW i \in Kinds PROVE GateOK(i)'
  <2>1. /\ Waiting(i)' = IF i = k THEN Waiting(i) \cup {c}
                         ELSE Waiting(i) \ {c}
        /\ Holders(i)' = Holders(i) \ {c}
    <3>1. /\ Waiting(i)' = IF new.phase = "queued" /\ new.kind = i
                           THEN Waiting(i) \cup {c} ELSE Waiting(i) \ {c}
          /\ Holders(i)' = IF new.phase \in Holding /\ new.kind = i
                           THEN Holders(i) \cup {c} ELSE Holders(i) \ {c}
      BY <1>1, <1>2, OneCallSets
    <3>2. QED  BY <1>2, <3>1 DEF Holding
  <2>2. Holders(i)' = Holders(i)
    BY <1>3, <2>1
  <2>3. CASE i # k
    <3>1. Waiting(i)' = Waiting(i)
      BY <1>3, <2>1, <2>3
    <3>2. QED  BY <1>1, <1>8, <2>2, <2>3, <3>1, SameGate
  <2>4. CASE i = k
    <3>1. Waiting(k)' = Waiting(k) \cup {c}
      BY <2>1, <2>4
    <3>2. slots[k] = Concurrency[k]
      BY <1>1, <1>6, GateFields
    <3>3. QED  BY <1>1, <1>6, <1>7, <1>8, <2>2, <2>4, <3>1, <3>2 DEF GateOK
  <2>5. QED  BY <2>3, <2>4
<1>13. QED  BY <1>5, <1>10, <1>11, <1>12 DEF ExecutorInv

\* A call whose queue timer fires.
LEMMA QueueTimeoutStep ==
  ASSUME ExecutorInv, NEW c \in Calls, QueueTimeout(c)
  PROVE  ExecutorInv'
<1> PICK k \in Kinds : k = Kind(c)
  BY CallFields DEF ExecutorInv
<1> DEFINE a == Response("TOOL_TIMEOUT", "not_started")
           new == Answered(c, a)
           q == Spliced(queue[k], c)
<1>1. /\ TypeOK /\ BudgetOK /\ (\A i \in Kinds : GateOK(i))
      /\ At(c, "queued") /\ queue' = [queue EXCEPT ![k] = q]
      /\ queued' = queued - 1 /\ call' = [call EXCEPT ![c] = new]
      /\ UNCHANGED session /\ slots' = slots /\ CallOK(call[c], active)
  BY DEF ExecutorInv, QueueTimeout
<1>2. a \in Reply
  BY ResponseFacts DEF Codes, Outcomes
<1>3. /\ new \in CallRecord /\ new.phase = "answered" /\ ~new.started
  BY <1>1, <1>2, AnsweredFacts, CallFields DEF CallOK, At
<1>4. /\ c \in Waiting(k) /\ (\A i \in Kinds : c \notin Holders(i))
      /\ \A i \in Kinds : i # k => c \notin Waiting(i)
  BY <1>1 DEF Waiting, Holders, Holding, At
<1> HIDE DEF new, a
<1>5. /\ call' \in [Calls -> CallRecord]
      /\ \A e \in Calls : CallOK(call[e], active)'
  BY <1>1, <1>3, NeverStarted, OneCallOK
<1>6. /\ Distinct(queue[k]) /\ ToSet(queue[k]) = Waiting(k)
      /\ slots[k] = Cardinality(Holders(k)) /\ slots[k] <= Concurrency[k]
      /\ queue[k] # <<>> => slots[k] = Concurrency[k]
  BY <1>1, <1>3 DEF GateOK
<1>7. /\ q \in Seq(Calls) /\ Distinct(q) /\ Len(q) = Len(queue[k]) - 1
      /\ ToSet(q) = Waiting(k) \ {c} /\ Len(queue[k]) >= 1
  BY <1>1, <1>3, <1>4, <1>6, SplicedFacts, GateFields
<1> HIDE DEF q
<1>8. /\ queue' \in [Kinds -> Seq(Calls)] /\ queue'[k] = q
      /\ \A i \in Kinds : i # k => queue'[i] = queue[i]
      /\ Len(queue'["read"]) + Len(queue'["write"]) = queued - 1
  <2>1. Len(q) = Len(queue[k]) + (-1) /\ -1 \in Int
    BY <1>1, <1>3, <1>7, GateFields
  <2>2. Len(queue'["read"]) + Len(queue'["write"]) = queued + (-1)
    BY <1>1, <1>3, <1>7, <2>1, BudgetMoves
  <2>3. queued \in Nat
    BY <1>1 DEF TypeOK
  <2>4. QED  BY <1>1, <1>3, <1>7, <2>1, <2>2, <2>3, BudgetMoves
<1>9. /\ queued \in Nat /\ QueueLimit \in Nat /\ slots \in [Kinds -> Nat]
      /\ queued' \in Nat
  <2>1. queued \in Nat /\ QueueLimit \in Nat /\ slots \in [Kinds -> Nat]
    BY <1>1, GateFields, ExecutorAssumption DEF ExecutorAssumption, TypeOK
  <2>2. queued >= Len(queue[k]) /\ Len(queue[k]) \in Nat
    BY <1>1, BudgetCovers, GateFields
  <2>3. queued >= 1
    BY <1>7, <2>1, <2>2
  <2>4. QED  BY <1>1, <2>1, <2>3
<1>10. TypeOK'
  BY <1>1, <1>5, <1>8, <1>9, TypeKept
<1>11. BudgetOK'
  <2>1. queued' = Len(queue'["read"]) + Len(queue'["write"])
    BY <1>1, <1>8
  <2>2. queued <= QueueLimit
    BY <1>1 DEF BudgetOK
  <2>3. queued' <= QueueLimit
    BY <1>1, <1>9, <2>2
  <2>4. QED  BY <2>1, <2>3 DEF BudgetOK
<1>12. ASSUME NEW i \in Kinds PROVE GateOK(i)'
  <2>1. Waiting(i)' = Waiting(i) \ {c} /\ Holders(i)' = Holders(i) \ {c}
    <3>1. /\ Waiting(i)' = IF new.phase = "queued" /\ new.kind = i
                           THEN Waiting(i) \cup {c} ELSE Waiting(i) \ {c}
          /\ Holders(i)' = IF new.phase \in Holding /\ new.kind = i
                           THEN Holders(i) \cup {c} ELSE Holders(i) \ {c}
      BY <1>1, <1>3, OneCallSets
    <3>2. QED  BY <1>3, <3>1 DEF Holding
  <2>2. Holders(i)' = Holders(i)
    BY <1>4, <2>1
  <2>3. CASE i # k
    <3>1. Waiting(i)' = Waiting(i)
      BY <1>4, <2>1, <2>3
    <3>2. QED  BY <1>1, <1>8, <2>2, <2>3, <3>1, SameGate
  <2>4. CASE i = k
    <3>1. Waiting(k)' = Waiting(k) \ {c} /\ Holders(k)' = Holders(k)
      BY <2>1, <2>2, <2>4
    <3>2. slots[k] = Concurrency[k]
      <4>1. queue[k] # <<>>
        BY <1>7
      <4>2. QED  BY <1>6, <4>1
    <3>3. QED  BY <1>1, <1>6, <1>7, <1>8, <2>4, <3>1, <3>2 DEF GateOK
  <2>5. QED  BY <2>3, <2>4
<1>13. QED  BY <1>5, <1>10, <1>11, <1>12 DEF ExecutorInv

\* A call that leaves its slot to nobody.
LEMMA FreeSlotStep ==
  ASSUME ExecutorInv, NEW c \in Calls, call[c].phase \in Holding,
         NEW after \in CallRecord, after.phase = "answered",
         after.kind = Kind(c), CallOK(after, active), FreeSlot(c, after),
         UNCHANGED session
  PROVE  ExecutorInv'
<1> PICK k \in Kinds : k = Kind(c)
  BY CallFields DEF ExecutorInv
<1>1. /\ TypeOK /\ BudgetOK /\ (\A i \in Kinds : GateOK(i))
      /\ queue[k] = <<>> /\ slots' = [slots EXCEPT ![k] = @ - 1]
      /\ call' = [call EXCEPT ![c] = after]
      /\ queue' = queue /\ queued' = queued
  BY DEF ExecutorInv, FreeSlot
<1>2. /\ call' \in [Calls -> CallRecord]
      /\ \A e \in Calls : CallOK(call[e], active)'
  BY <1>1, OneCallOK
<1>3. /\ c \in Holders(k) /\ (\A i \in Kinds : c \notin Waiting(i))
      /\ \A i \in Kinds : i # k => c \notin Holders(i)
  BY DEF Waiting, Holders, Holding, At
<1>4. /\ Distinct(queue[k]) /\ ToSet(queue[k]) = Waiting(k)
      /\ slots[k] = Cardinality(Holders(k)) /\ slots[k] <= Concurrency[k]
  BY <1>1 DEF GateOK
<1>5. /\ slots[k] >= 1 /\ Cardinality(Holders(k) \ {c}) = slots[k] - 1
      /\ slots[k] \in Nat /\ Concurrency[k] \in Nat
      /\ slots \in [Kinds -> Nat]
  BY <1>1, <1>3, <1>4, HoldersCount, GateFields
<1>6. /\ slots' \in [Kinds -> Nat] /\ slots'[k] = slots[k] - 1
      /\ \A i \in Kinds : i # k => slots'[i] = slots[i]
  <2>1. slots[k] - 1 \in Nat
    BY <1>5
  <2>2. QED  BY <1>1, <1>5, <2>1
<1>7. TypeOK'
  <2>1. queue' \in [Kinds -> Seq(Calls)] /\ queued' \in Nat
    BY <1>1 DEF TypeOK
  <2>2. QED  BY <1>1, <1>2, <1>6, <2>1, TypeKept
<1>8. BudgetOK'
  BY <1>1 DEF BudgetOK
<1>9. ASSUME NEW i \in Kinds PROVE GateOK(i)'
  <2>1. Waiting(i)' = Waiting(i) \ {c} /\ Holders(i)' = Holders(i) \ {c}
    <3>1. /\ Waiting(i)' = IF after.phase = "queued" /\ after.kind = i
                           THEN Waiting(i) \cup {c} ELSE Waiting(i) \ {c}
          /\ Holders(i)' = IF after.phase \in Holding /\ after.kind = i
                           THEN Holders(i) \cup {c} ELSE Holders(i) \ {c}
      BY <1>1, OneCallSets
    <3>2. QED  BY <3>1 DEF Holding
  <2>2. Waiting(i)' = Waiting(i)
    BY <1>3, <2>1
  <2>3. CASE i # k
    <3>1. Holders(i)' = Holders(i)
      BY <1>3, <2>1, <2>3
    <3>2. QED  BY <1>1, <1>6, <2>2, <2>3, <3>1, SameGate
  <2>4. CASE i = k
    <3>1. Holders(k)' = Holders(k) \ {c} /\ Waiting(k)' = Waiting(k)
      BY <2>1, <2>2, <2>4
    <3>2. slots'[k] = Cardinality(Holders(k)')
      BY <1>5, <1>6, <3>1
    <3>3. slots'[k] <= Concurrency[k]
      BY <1>4, <1>5, <1>6
    <3>4. QED  BY <1>1, <1>4, <2>4, <3>1, <3>2, <3>3 DEF GateOK
  <2>5. QED  BY <2>3, <2>4
<1>10. QED  BY <1>2, <1>7, <1>8, <1>9 DEF ExecutorInv

\* A call that leaves its slot to the head of the queue.
PassOn(c, after) ==
  /\ queue[Kind(c)] # <<>>
  /\ queue' = [queue EXCEPT ![Kind(c)] = Tail(@)]
  /\ queued' = queued - 1
  /\ call' = HandOver(c, after, Head(queue[Kind(c)]))
  /\ UNCHANGED slots

LEMMA HandOverStep ==
  ASSUME ExecutorInv, NEW c \in Calls, call[c].phase \in Holding,
         NEW after \in CallRecord, after.phase = "answered",
         after.kind = Kind(c), CallOK(after, active), PassOn(c, after),
         UNCHANGED session
  PROVE  ExecutorInv'
<1> PICK k \in Kinds : k = Kind(c)
  BY CallFields DEF ExecutorInv
<1> DEFINE d == Head(queue[k])
           q == Tail(queue[k])
           granted == [call[d] EXCEPT !.phase = "granted"]
<1>1. /\ TypeOK /\ BudgetOK /\ (\A i \in Kinds : GateOK(i))
      /\ (\A e \in Calls : CallOK(call[e], active))
      /\ queue' = [queue EXCEPT ![k] = q] /\ call' = HandOver(c, after, d)
      /\ queue[k] # <<>> /\ queued' = queued - 1 /\ slots' = slots
  BY DEF ExecutorInv, PassOn
<1>2. /\ Distinct(queue[k]) /\ ToSet(queue[k]) = Waiting(k)
      /\ slots[k] = Cardinality(Holders(k)) /\ slots[k] <= Concurrency[k]
      /\ slots[k] = Concurrency[k]
  BY <1>1 DEF GateOK
<1>3. /\ q \in Seq(Calls) /\ Distinct(q) /\ Len(q) = Len(queue[k]) - 1
      /\ ToSet(q) = Waiting(k) \ {d} /\ Len(queue[k]) >= 1
      /\ d \in Waiting(k)
  BY <1>1, <1>2, TailFacts, GateFields
<1>4. /\ d \in Calls /\ At(d, "queued") /\ Kind(d) = k /\ d # c
      /\ CallOK(call[d], active)
  BY <1>1, <1>3 DEF Waiting, At, Holding
<1>5. /\ granted \in CallRecord /\ granted.phase = "granted"
      /\ granted.kind = k /\ CallOK(granted, active)
  <2>1. call[d] \in CallRecord
    BY <1>1, <1>4, CallFields
  <2>2. /\ granted \in CallRecord /\ granted.phase = "granted"
        /\ granted.kind = k /\ granted.started = call[d].started
        /\ granted.gen = call[d].gen
    BY <1>4, <2>1 DEF CallRecord, Phases, Kind
  <2>3. ~call[d].started /\ call[d].gen # 0
    BY <1>4 DEF CallOK, At
  <2>4. QED  BY <2>2, <2>3 DEF CallOK
<1> HIDE DEF granted, q, d
<1>6. \A e \in Calls : call'[e] = IF e = c THEN after
                                  ELSE IF e = d THEN granted ELSE call[e]
  BY <1>1, <1>4 DEF HandOver, granted
<1>7. /\ call' \in [Calls -> CallRecord]
      /\ \A e \in Calls : CallOK(call[e], active)'
  <2>1. active' = active
    BY DEF session, active
  <2>2. \A e \in Calls : call[e] \in CallRecord
    BY <1>1, CallFields
  <2>3. \A e \in Calls : call'[e] \in CallRecord /\ CallOK(call'[e], active)
    BY <1>1, <1>5, <1>6, <2>2
  <2>4. call' \in [Calls -> CallRecord]
    BY <1>1, <2>3 DEF HandOver
  <2>5. QED  BY <2>1, <2>3, <2>4
<1>8. /\ queue' \in [Kinds -> Seq(Calls)] /\ queue'[k] = q
      /\ \A i \in Kinds : i # k => queue'[i] = queue[i]
      /\ Len(queue'["read"]) + Len(queue'["write"]) = queued - 1
  <2> PICK n \in Int : n = -1
    OBVIOUS
  <2>1. Len(q) = Len(queue[k]) + n
    BY <1>1, <1>3, GateFields
  <2>2. TypeOK /\ BudgetOK /\ q \in Seq(Calls) /\ queue' = [queue EXCEPT ![k] = q]
    BY <1>1, <1>3
  <2>3. /\ queue' \in [Kinds -> Seq(Calls)] /\ queue'[k] = q
        /\ (\A i \in Kinds : i # k => queue'[i] = queue[i])
        /\ Len(queue'["read"]) + Len(queue'["write"]) = queued + n
    BY <2>1, <2>2, BudgetMoves
  <2>4. queued + n = queued - 1
    BY <1>1, GateFields
  <2>5. QED  BY <2>3, <2>4
<1>9. /\ queued \in Nat /\ QueueLimit \in Nat /\ slots \in [Kinds -> Nat]
      /\ queued' \in Nat
  <2>1. queued \in Nat /\ QueueLimit \in Nat /\ slots \in [Kinds -> Nat]
    BY <1>1, GateFields, ExecutorAssumption DEF ExecutorAssumption, TypeOK
  <2>2. queued >= Len(queue[k]) /\ Len(queue[k]) \in Nat
    BY <1>1, BudgetCovers, GateFields
  <2>3. queued >= 1
    BY <1>3, <2>1, <2>2
  <2>4. QED  BY <1>1, <2>1, <2>3
<1>10. TypeOK'
  BY <1>1, <1>7, <1>8, <1>9, TypeKept
<1>11. BudgetOK'
  <2>1. queued' = Len(queue'["read"]) + Len(queue'["write"])
    BY <1>1, <1>8
  <2>2. queued <= QueueLimit
    BY <1>1 DEF BudgetOK
  <2>3. queued' <= QueueLimit
    BY <1>1, <1>9, <2>2
  <2>4. QED  BY <2>1, <2>3 DEF BudgetOK
<1>12. ASSUME NEW i \in Kinds PROVE GateOK(i)'
  <2>1. /\ Waiting(i)' = Waiting(i) \ {d}
        /\ Holders(i)' = IF i = k THEN (Holders(i) \ {c}) \cup {d}
                         ELSE Holders(i)
    BY <1>4, <1>5, <1>6 DEF Waiting, Holders, Holding, At, Kind
  <2>2. CASE i # k
    <3>1. Waiting(i)' = Waiting(i)
      BY <1>4, <2>1, <2>2 DEF Waiting
    <3>2. QED  BY <1>1, <1>8, <2>1, <2>2, <3>1, SameGate
  <2>3. CASE i = k
    <3>1. /\ Waiting(k)' = Waiting(k) \ {d}
          /\ Holders(k)' = (Holders(k) \ {c}) \cup {d}
      BY <2>1, <2>3
    <3>2. Cardinality(Holders(k)') = Cardinality(Holders(k))
      <4>1. c \in Holders(k) /\ d \notin Holders(k)
        BY <1>4 DEF Holders, Holding, At
      <4>2. IsFiniteSet(Holders(k) \ {c})
        <5>1. Holders(k) \ {c} \subseteq Calls
          BY DEF Holders
        <5>2. QED  BY <5>1, ExecutorAssumption, FS_Subset DEF ExecutorAssumption
      <4>3. /\ Cardinality(Holders(k)) \in Nat
            /\ Cardinality(Holders(k) \ {c}) = Cardinality(Holders(k)) - 1
        BY <4>1, HoldersCount
      <4>4. Cardinality((Holders(k) \ {c}) \cup {d}) =
              Cardinality(Holders(k) \ {c}) + 1
        BY <4>1, <4>2, FS_AddElement
      <4>5. QED  BY <3>1, <4>3, <4>4
    <3>3. QED  BY <1>1, <1>2, <1>3, <1>8, <2>3, <3>1, <3>2 DEF GateOK
  <2>4. QED  BY <2>2, <2>3
<1>13. QED  BY <1>7, <1>10, <1>11, <1>12 DEF ExecutorInv

\* Whichever way a call leaves its slot.
LEMMA LeaveStep ==
  ASSUME ExecutorInv, NEW c \in Calls, call[c].phase \in Holding,
         NEW after \in CallRecord, after.phase = "answered",
         after.kind = Kind(c), CallOK(after, active), Leave(c, after),
         UNCHANGED session
  PROVE  ExecutorInv'
  BY FreeSlotStep, HandOverStep DEF Leave, PassOn
-----------------------------------------------------------------------------
(* The other steps. *)

\* A request that is turned down, at once or for want of a place to wait.
LEMMA RefusedStep ==
  ASSUME ExecutorInv, NEW c \in Calls, NEW k \in Kinds, NEW a \in Reply,
         Free(c), call' = [call EXCEPT ![c] = Refused(k, a)],
         UNCHANGED <<session, gates>>
  PROVE  ExecutorInv'
<1> DEFINE new == Refused(k, a)
<1>1. new \in CallRecord /\ new.phase = "answered" /\ ~new.started
  <2>1. Silent \in Reply
    BY DEF Silent, Reply, Codes, Outcomes
  <2>2. QED  BY <2>1 DEF Refused, Idle, CallRecord, Phases, Kinds
<1>2. call' = [call EXCEPT ![c] = new]
  OBVIOUS
<1> HIDE DEF new
<1>3. /\ ~At(c, "queued") /\ call[c].phase \notin Holding
      /\ new.phase # "queued" /\ new.phase \notin Holding
  BY <1>1 DEF Free, At, Holding
<1>4. CallOK(new, active)
  BY <1>1, NeverStarted
<1>5. UNCHANGED session /\ UNCHANGED gates
  OBVIOUS
<1>6. QED  BY <1>1, <1>2, <1>3, <1>4, <1>5, QuietStep

LEMMA RefuseStep ==
  ASSUME ExecutorInv, NEW c \in Calls, NEW k \in Kinds, Refuse(c, k)
  PROVE  ExecutorInv'
<1>1. PICK code \in Codes :
        call' = [call EXCEPT ![c] = Refused(k, Response(code, "none"))]
  BY DEF Refuse, Codes
<1>2. Response(code, "none") \in Reply
  BY ResponseFacts DEF Outcomes
<1>3. Free(c) /\ UNCHANGED <<session, gates>>
  BY DEF Refuse
<1>4. QED  BY <1>1, <1>2, <1>3, RefusedStep

LEMMA SaturatedStep ==
  ASSUME ExecutorInv, NEW c \in Calls, NEW k \in Kinds, Saturated(c, k)
  PROVE  ExecutorInv'
<1>1. Response("TOOL_BUSY", "none") \in Reply
  BY ResponseFacts DEF Codes, Outcomes
<1>2. QED  BY <1>1, RefusedStep DEF Saturated, Permitted

\* The handler starts.
LEMMA BeginStep ==
  ASSUME ExecutorInv, NEW c \in Calls, Begin(c)
  PROVE  ExecutorInv'
<1> DEFINE new == [call[c] EXCEPT !.phase = "running", !.started = TRUE]
<1>1. /\ At(c, "granted") /\ call[c].gen = active
      /\ call' = [call EXCEPT ![c] = new]
      /\ UNCHANGED session /\ UNCHANGED gates
  BY DEF Begin, Started
<1>2. call[c] \in CallRecord /\ CallOK(call[c], active)
  BY CallFields DEF ExecutorInv
<1>3. /\ new \in CallRecord /\ new.phase = "running" /\ new.started
      /\ new.kind = call[c].kind /\ new.gen = call[c].gen
  BY <1>2 DEF CallRecord, Phases
<1> HIDE DEF new
<1>4. CallOK(new, active)
  BY <1>1, <1>2, <1>3 DEF CallOK, At
<1>5. /\ ~At(c, "queued") /\ call[c].phase \in Holding
      /\ new.phase # "queued" /\ new.phase \in Holding /\ new.kind = Kind(c)
  BY <1>1, <1>3 DEF At, Holding, Kind
<1>6. QED  BY <1>1, <1>3, <1>4, <1>5, QuietStep

\* The handler settles.
LEMMA HandlerSettlesStep ==
  ASSUME ExecutorInv, NEW c \in Calls, HandlerSettles(c)
  PROVE  ExecutorInv'
<1>1. PICK r \in Results[Kind(c)] :
        call' = [call EXCEPT ![c] =
                   [call[c] EXCEPT !.phase = "settled", !.said = r]]
  BY DEF HandlerSettles
<1> DEFINE new == [call[c] EXCEPT !.phase = "settled", !.said = r]
<1>2. /\ At(c, "running") /\ call' = [call EXCEPT ![c] = new]
      /\ UNCHANGED session /\ UNCHANGED gates
  BY <1>1 DEF HandlerSettles
<1>3. /\ call[c] \in CallRecord /\ CallOK(call[c], active) /\ r \in Reply
  <2>1. Kind(c) \in Kinds
    BY CallFields DEF ExecutorInv
  <2>2. QED  BY <2>1, CallFields, ExecutorAssumption
             DEF ExecutorInv, ExecutorAssumption
<1>4. /\ new \in CallRecord /\ new.phase = "settled"
      /\ new.started = call[c].started /\ new.kind = call[c].kind
      /\ new.gen = call[c].gen /\ new.aborted = call[c].aborted
  BY <1>3 DEF CallRecord, Phases
<1> HIDE DEF new
<1>5. CallOK(new, active)
  BY <1>2, <1>3, <1>4 DEF CallOK, At
<1>6. /\ ~At(c, "queued") /\ call[c].phase \in Holding
      /\ new.phase # "queued" /\ new.phase \in Holding /\ new.kind = Kind(c)
  BY <1>2, <1>4 DEF At, Holding, Kind
<1>7. QED  BY <1>2, <1>4, <1>5, <1>6, QuietStep

\* The execution timer fires.
LEMMA ExecutionTimeoutStep ==
  ASSUME ExecutorInv, NEW c \in Calls, ExecutionTimeout(c)
  PROVE  ExecutorInv'
<1> DEFINE a == Ambiguous(c, Response("TOOL_TIMEOUT", "none"))
           new == Expired(c)
<1>1. /\ At(c, "running") /\ call' = [call EXCEPT ![c] = new]
      /\ UNCHANGED session /\ UNCHANGED gates
  BY DEF ExecutionTimeout
<1>2. /\ a \in Reply /\ a.code = "TOOL_TIMEOUT"
      /\ Kind(c) = "write" => a.outcome = "unknown"
  <2>1. LET r == Response("TOOL_TIMEOUT", "none")
        IN  r \in Reply /\ r.code = "TOOL_TIMEOUT" /\ r.outcome = "none"
    BY ResponseFacts DEF Codes, Outcomes
  <2>2. QED  BY <2>1, AmbiguousFacts DEF ExecutorInv
<1>3. /\ new \in CallRecord /\ new.phase = "draining" /\ new.answer = a
      /\ new.kind = call[c].kind /\ new.gen = 0
  <2>1. /\ Answered(c, a) \in CallRecord /\ Answered(c, a).answer = a
        /\ Answered(c, a).kind = call[c].kind /\ Answered(c, a).gen = 0
    BY <1>2, AnsweredFacts DEF ExecutorInv
  <2>2. new = [Answered(c, a) EXCEPT !.phase = "draining"]
    BY DEF Expired
  <2>3. QED  BY <2>1, <2>2 DEF CallRecord, Phases
<1> HIDE DEF new, a
<1>4. CallOK(new, active)
  BY <1>2, <1>3 DEF CallOK, Kind
<1>5. /\ ~At(c, "queued") /\ call[c].phase \in Holding
      /\ new.phase # "queued" /\ new.phase \in Holding /\ new.kind = Kind(c)
  BY <1>1, <1>3 DEF At, Holding, Kind
<1>6. QED  BY <1>1, <1>3, <1>4, <1>5, QuietStep

\* A call whose session ended before it could start.
LEMMA TurnBackStep ==
  ASSUME ExecutorInv, NEW c \in Calls, TurnBack(c)
  PROVE  ExecutorInv'
<1>1. At(c, "granted") /\ Leave(c, Answered(c, Revoked(c))) /\ UNCHANGED session
  BY DEF TurnBack
<1>2. Revoked(c) \in Reply
  <2>1. Response("TOOL_NOT_ALLOWED", "none") \in Reply
    BY ResponseFacts DEF Codes, Outcomes
  <2>2. QED  BY <2>1, AmbiguousFacts DEF Revoked, ExecutorInv
<1> DEFINE after == Answered(c, Revoked(c))
<1>3. /\ after \in CallRecord /\ after.phase = "answered"
      /\ after.kind = Kind(c) /\ ~after.started
  BY <1>1, <1>2, AnsweredFacts DEF ExecutorInv, CallOK, At, Kind
<1>4. Leave(c, after)
  BY <1>1
<1> HIDE DEF after
<1>5. call[c].phase \in Holding
  BY <1>1 DEF At, Holding
<1>6. QED  BY <1>1, <1>3, <1>4, <1>5, NeverStarted, LeaveStep

\* A call whose handler has settled: what it said is returned, or an error that
\* leaves the outcome of a write open.
LEMMA FinishStep ==
  ASSUME ExecutorInv, NEW c \in Calls, Finish(c)
  PROVE  ExecutorInv'
<1>1. PICK r \in Verdicts(c) :
        Leave(c, Answered(c, IF r.code = "OK" THEN r ELSE Ambiguous(c, r)))
  BY DEF Finish
<1> DEFINE a == IF r.code = "OK" THEN r ELSE Ambiguous(c, r)
           after == Answered(c, a)
<1>2. At(c, "settled") /\ Leave(c, after) /\ UNCHANGED session
  BY <1>1 DEF Finish
<1>3. call[c].said \in Reply /\ TypeOK
  BY CallFields DEF ExecutorInv
<1>4. /\ r \in Reply
      /\ r = call[c].said \/ (r.code # "OK" /\ r.outcome = "none")
  <2>1. /\ Response("TOOL_NOT_ALLOWED", "none") \in Reply
        /\ Response("INTERNAL_ERROR", "none") \in Reply
        /\ Response("OUTPUT_TOO_LARGE", "none") \in Reply
    BY ResponseFacts DEF Codes, Outcomes
  <2>2. /\ Response("TOOL_NOT_ALLOWED", "none").code # "OK"
        /\ Response("TOOL_NOT_ALLOWED", "none").outcome = "none"
        /\ Response("INTERNAL_ERROR", "none").code # "OK"
        /\ Response("INTERNAL_ERROR", "none").outcome = "none"
        /\ Response("OUTPUT_TOO_LARGE", "none").code # "OK"
        /\ Response("OUTPUT_TOO_LARGE", "none").outcome = "none"
    BY DEF Response
  <2>3. QED  BY <1>3, <2>1, <2>2 DEF Verdicts
<1>5. /\ a \in Reply
      /\ Kind(c) = "write" =>
           \/ a.outcome = "unknown"
           \/ /\ a = call[c].said
              /\ \/ call[c].said.code = "OK"
                 \/ call[c].said.outcome \in {"failed", "not_started"}
  <2>1. CASE r.code = "OK"
    BY <1>4, <2>1
  <2>2. CASE r.code # "OK" /\ r.outcome = "none"
    BY <1>3, <1>4, <2>2, AmbiguousFacts
  <2>3. CASE r.code # "OK" /\ r.outcome # "none"
    <3>1. a = r /\ r = call[c].said
      BY <1>3, <1>4, <2>3, AmbiguousFacts
    <3>2. r.outcome \in {"failed", "not_started", "unknown"}
      BY <1>4, <2>3 DEF Reply, Outcomes
    <3>3. QED  BY <1>4, <3>1, <3>2
  <2>4. QED  BY <2>1, <2>2, <2>3
<1> HIDE DEF a
<1>6. /\ after \in CallRecord /\ after.phase = "answered"
      /\ after.kind = Kind(c) /\ after.answer = a
      /\ after.said = call[c].said
  BY <1>3, <1>5, AnsweredFacts DEF Kind
<1> HIDE DEF after
<1>7. CallOK(after, active)
  BY <1>5, <1>6 DEF CallOK
<1>8. call[c].phase \in Holding
  BY <1>2 DEF At, Holding
<1>9. QED  BY <1>2, <1>6, <1>7, <1>8, LeaveStep

\* An abandoned handler settles.
LEMMA DrainedStep ==
  ASSUME ExecutorInv, NEW c \in Calls, Drained(c)
  PROVE  ExecutorInv'
<1> DEFINE after == [call[c] EXCEPT !.phase = "answered"]
<1>1. At(c, "draining") /\ Leave(c, after) /\ UNCHANGED session
  BY DEF Drained
<1>2. call[c] \in CallRecord /\ CallOK(call[c], active)
  BY CallFields DEF ExecutorInv
<1>3. /\ after \in CallRecord /\ after.phase = "answered"
      /\ after.kind = call[c].kind /\ after.started = call[c].started
      /\ after.said = call[c].said /\ after.answer = call[c].answer
  BY <1>2 DEF CallRecord, Phases
<1> HIDE DEF after
<1>4. CallOK(after, active)
  BY <1>1, <1>2, <1>3 DEF CallOK, At
<1>5. call[c].phase \in Holding /\ after.kind = Kind(c)
  BY <1>1, <1>3 DEF At, Holding, Kind
<1>6. QED  BY <1>1, <1>3, <1>4, <1>5, LeaveStep
-----------------------------------------------------------------------------
(* The session. *)

SessionOK ==
  /\ policy \in [generation : {0} \cup Generations, write : BOOLEAN]
  /\ latest \in {0} \cup Generations

\* What cancelling does to one call.
LEMMA CancelledFacts ==
  ASSUME TypeOK, NEW e \in Calls, CallOK(call[e], active), NEW g
  PROVE  LET x == Cancelled(TRUE)[e]
         IN  /\ x \in CallRecord /\ CallOK(x, g) /\ x.phase # "queued"
             /\ x.kind = call[e].kind
             /\ x.phase \in Holding <=> call[e].phase \in Holding
<1> DEFINE x == Cancelled(TRUE)[e]
           a == Response("TOOL_NOT_ALLOWED", "none")
<1>1. call[e] \in CallRecord /\ call[e].phase \in Phases
  BY CallFields
<1>2. CASE At(e, "queued")
  <2>1. a \in Reply
    BY ResponseFacts DEF Codes, Outcomes
  <2>2. x = Answered(e, a)
    BY <1>2 DEF Cancelled
  <2>3. /\ x \in CallRecord /\ x.phase = "answered" /\ x.kind = call[e].kind
        /\ ~x.started
    BY <1>2, <2>1, <2>2, AnsweredFacts, ZenonT(30) DEF CallOK, At
  <2> HIDE DEF x
  <2>4. CallOK(x, g)
    BY <2>3, NeverStarted
  <2>5. x.phase \notin Holding /\ call[e].phase \notin Holding
    BY <1>2, <2>3 DEF At, Holding
  <2>6. QED  BY <2>3, <2>4, <2>5 DEF x
<1>3. CASE call[e].phase \in {"running", "settled"}
  <2>1. x = [call[e] EXCEPT !.aborted = TRUE]
    BY <1>3 DEF Cancelled, At
  <2>2. /\ x \in CallRecord /\ x.phase = call[e].phase
        /\ x.kind = call[e].kind /\ x.aborted
        /\ x.started = call[e].started /\ x.gen = call[e].gen
    BY <1>1, <2>1 DEF CallRecord
  <2> HIDE DEF x
  <2>3. CallOK(x, g)
    BY <1>3, <2>2 DEF CallOK
  <2>4. x.phase # "queued" /\ (x.phase \in Holding <=> call[e].phase \in Holding)
    BY <1>3, <2>2
  <2>5. QED  BY <2>2, <2>3, <2>4 DEF x
<1>4. CASE ~At(e, "queued") /\ call[e].phase \notin {"running", "settled"}
  <2>1. x = call[e]
    BY <1>4 DEF Cancelled
  <2> HIDE DEF x
  <2>2. CallOK(x, g)
    BY <1>4, <2>1 DEF CallOK, At
  <2>3. x.phase # "queued"
    BY <1>4, <2>1 DEF At
  <2>4. QED  BY <1>1, <2>1, <2>2, <2>3 DEF x
<1>5. QED  BY <1>2, <1>3, <1>4

\* Everything that waits is turned away, and the budget is empty.
LEMMA CancelStep ==
  ASSUME ExecutorInv, CancelQueued, SessionOK'
  PROVE  ExecutorInv'
<1>1. /\ TypeOK /\ BudgetOK /\ (\A k \in Kinds : GateOK(k))
      /\ (\A e \in Calls : CallOK(call[e], active))
      /\ queue' = NoWaiters /\ queued' = queued - Waiters
      /\ call' = Cancelled(TRUE) /\ slots' = slots
  BY DEF ExecutorInv, CancelQueued
<1>2. \A e \in Calls : /\ call'[e] \in CallRecord /\ CallOK(call'[e], active')
                       /\ call'[e].phase # "queued"
                       /\ call'[e].kind = call[e].kind
                       /\ call'[e].phase \in Holding <=> call[e].phase \in Holding
  BY <1>1, CancelledFacts
<1>3. call' \in [Calls -> CallRecord]
  BY <1>1, <1>2 DEF Cancelled
<1>4. queued' = 0
  <2>1. queued = Waiters /\ queued \in Nat
    BY <1>1 DEF BudgetOK, Waiters, TypeOK
  <2>2. QED  BY <1>1, <2>1
<1>5. /\ queue' \in [Kinds -> Seq(Calls)]
      /\ \A k \in Kinds : queue'[k] = <<>>
  BY <1>1 DEF NoWaiters
<1>6. TypeOK'
  <2>1. slots' \in [Kinds -> Nat] /\ queued' \in Nat
    BY <1>1, <1>4 DEF TypeOK
  <2>2. QED  BY <1>3, <1>5, <2>1 DEF TypeOK, SessionOK, CallRecord
<1>7. BudgetOK'
  <2>1. Len(queue'["read"]) = 0 /\ Len(queue'["write"]) = 0
    BY <1>5 DEF Kinds
  <2>2. QED  BY <1>4, <2>1, ExecutorAssumption DEF BudgetOK, ExecutorAssumption
<1>8. ASSUME NEW k \in Kinds PROVE GateOK(k)'
  <2>1. Waiting(k)' = {} /\ Holders(k)' = Holders(k)
    BY <1>2 DEF Waiting, Holders, At, Kind
  <2>2. queue'[k] = <<>> /\ Distinct(<<>>) /\ ToSet(<<>>) = {}
    BY <1>5 DEF Distinct, ToSet
  <2>3. QED  BY <1>1, <2>1, <2>2 DEF GateOK
<1>9. QED  BY <1>2, <1>6, <1>7, <1>8 DEF ExecutorInv

LEMMA SetSessionPolicyStep ==
  ASSUME ExecutorInv, NEW g \in Generations, NEW w \in BOOLEAN,
         SetSessionPolicy(g, w)
  PROVE  ExecutorInv'
<1>1. SessionOK'
  BY DEF SetSessionPolicy, SessionOK
<1>2. CASE active # 0
  BY <1>1, <1>2, CancelStep DEF SetSessionPolicy
<1>3. CASE active = 0
  <2>1. UNCHANGED <<gates, call>>
    BY <1>3 DEF SetSessionPolicy
  <2>2. slots' = slots /\ queue' = queue /\ queued' = queued /\ call' = call
    BY <2>1 DEF gates
  <2>3. \A e \in Calls : CallOK(call[e], active')
    BY <1>3 DEF ExecutorInv, CallOK
  <2>4. TypeOK' /\ BudgetOK' /\ \A k \in Kinds : GateOK(k)'
    BY <1>1, <2>2 DEF ExecutorInv, TypeOK, SessionOK, BudgetOK, GateOK,
                      Waiting, Holders, At, Kind
  <2>5. QED  BY <2>2, <2>3, <2>4 DEF ExecutorInv
<1>4. QED  BY <1>2, <1>3

LEMMA ClearSessionPolicyStep ==
  ASSUME ExecutorInv, ClearSessionPolicy
  PROVE  ExecutorInv'
<1>1. SessionOK'
  BY DEF ClearSessionPolicy, SessionOK, NoPolicy, ExecutorInv, TypeOK
<1>2. QED  BY <1>1, CancelStep DEF ClearSessionPolicy
-----------------------------------------------------------------------------
(* The invariant and what follows from it. *)

LEMMA InvInit == Init => ExecutorInv
<1> SUFFICES ASSUME Init PROVE ExecutorInv
  OBVIOUS
<1>1. /\ policy = NoPolicy /\ latest = 0 /\ queued = 0
      /\ slots = [k \in Kinds |-> 0] /\ queue = [k \in Kinds |-> <<>>]
      /\ call = [c \in Calls |-> Idle]
  BY DEF Init
<1>2. Idle \in CallRecord /\ Idle.phase = "idle" /\ \A g : CallOK(Idle, g)
  <2>1. Silent \in Reply
    BY DEF Silent, Reply, Codes, Outcomes
  <2>2. QED  BY <2>1 DEF Idle, CallRecord, Phases, Kinds, CallOK
<1>3. TypeOK
  BY <1>1, <1>2 DEF TypeOK, NoPolicy, CallRecord
<1>4. BudgetOK
  <2>1. Len(queue["read"]) = 0 /\ Len(queue["write"]) = 0
    BY <1>1 DEF Kinds
  <2>2. 0 + 0 = 0 /\ 0 <= QueueLimit
    BY ExecutorAssumption DEF ExecutorAssumption
  <2>3. QED  BY <1>1, <2>1, <2>2 DEF BudgetOK
<1>5. ASSUME NEW k \in Kinds PROVE GateOK(k)
  <2>1. queue[k] = <<>> /\ slots[k] = 0 /\ slots[k] <= Concurrency[k]
    BY <1>1, <1>3, GateFields
  <2>2. Waiting(k) = {} /\ Holders(k) = {}
    BY <1>1, <1>2 DEF Waiting, Holders, Holding, At
  <2>3. Cardinality(Holders(k)) = 0
    BY <2>2, FS_EmptySet
  <2>4. Distinct(<<>>) /\ ToSet(<<>>) = {}
    BY DEF Distinct, ToSet
  <2>5. QED  BY <2>1, <2>2, <2>3, <2>4 DEF GateOK
<1>6. QED  BY <1>1, <1>2, <1>3, <1>4, <1>5 DEF ExecutorInv

LEMMA InvStep == ExecutorInv /\ [Next]_vars => ExecutorInv'
<1> SUFFICES ASSUME ExecutorInv, [Next]_vars PROVE ExecutorInv'
  OBVIOUS
<1>1. CASE ClearSessionPolicy
  BY <1>1, ClearSessionPolicyStep
<1>2. ASSUME NEW g \in Generations, NEW w \in BOOLEAN, SetSessionPolicy(g, w)
      PROVE  ExecutorInv'
  BY <1>2, SetSessionPolicyStep
<1>3. ASSUME NEW c \in Calls, NEW k \in Kinds,
             Refuse(c, k) \/ Acquire(c, k) \/ Enqueue(c, k) \/ Saturated(c, k)
      PROVE  ExecutorInv'
  BY <1>3, RefuseStep, AcquireStep, EnqueueStep, SaturatedStep
<1>4. ASSUME NEW c \in Calls,
             QueueTimeout(c) \/ HandlerSettles(c) \/ ExecutionTimeout(c)
      PROVE  ExecutorInv'
  BY <1>4, QueueTimeoutStep, HandlerSettlesStep, ExecutionTimeoutStep
<1>5. ASSUME NEW c \in Calls, Proceed(c) \/ Drained(c)
      PROVE  ExecutorInv'
  BY <1>5, BeginStep, TurnBackStep, FinishStep, DrainedStep DEF Proceed
<1>6. CASE UNCHANGED vars
  BY <1>6 DEF vars, ExecutorInv, TypeOK, BudgetOK, GateOK, Waiting, Holders,
              At, Kind, active
<1>7. QED  BY <1>1, <1>2, <1>3, <1>4, <1>5, <1>6 DEF Next

LEMMA InvAlways == Spec => []ExecutorInv
<1>1. QED  BY InvInit, InvStep, PTL DEF Spec

\* The executor's variables keep their types, for any number of calls.
THEOREM TypeCorrect == Spec => []TypeOK
<1>1. ExecutorInv => TypeOK
  BY DEF ExecutorInv
<1>2. QED  BY <1>1, InvAlways, PTL

\* A gate's counter is the number of the calls that hold its slots, through
\* every hand-off, deadline and revocation, whatever the concurrency
\* (executor.ts:47-80, 182).
THEOREM SlotsAreAccounted == Spec => []SlotsAccounted
<1>1. ExecutorInv => SlotsAccounted
  BY DEF ExecutorInv, GateOK, SlotsAccounted
<1>2. QED  BY <1>1, InvAlways, PTL

\* The shared queue budget neither leaks nor overdraws, whatever the limit, and
\* each queue holds its waiting calls exactly once (executor.ts:35-40, 49-71).
THEOREM BudgetIsAccounted == Spec => []BudgetAccounted
<1>1. ExecutorInv => BudgetAccounted
  <2> SUFFICES ASSUME ExecutorInv PROVE BudgetAccounted
    OBVIOUS
  <2>1. \A k \in Kinds : /\ ToSet(queue[k]) = Waiting(k)
                         /\ Len(queue[k]) = Cardinality(Waiting(k))
    BY DistinctCounts, GateFields DEF ExecutorInv, GateOK
  <2>2. QED  BY <2>1 DEF ExecutorInv, BudgetOK, BudgetAccounted
<1>2. QED  BY <1>1, InvAlways, PTL

\* However many sessions come and go, no call waits for one that is over, and no
\* handler of one runs with its signal unaborted (executor.ts:100-105, 185-188).
THEOREM RevokedWorkIsStopped == Spec => []RevokedWorkStopped
<1>1. ExecutorInv => RevokedWorkStopped
  BY DEF ExecutorInv, CallOK, RevokedWorkStopped, At
<1>2. QED  BY <1>1, InvAlways, PTL

\* Whatever the handlers settle with, a write that was started is reported with
\* what its handler definitely said or as unknown, and is offered for retrying
\* only if nothing was started (executor.ts:152-180, router.ts:44-52).
THEOREM WritesAreReported == Spec => []WritesReported
<1>1. ExecutorInv => HonestWrite
  BY DEF ExecutorInv, CallOK, HonestWrite, Kind
<1>2. HonestWrite => RetrySafe
  BY DEF HonestWrite, RetrySafe, Retryable, At, Kind
<1>3. QED  BY <1>1, <1>2, InvAlways, PTL DEF WritesReported
-----------------------------------------------------------------------------
(* The executor keeps the promise of SessionWork. *)

\* What SessionWork sees of a call, and of all of them.
View(x) ==
  [state |-> IF x.phase = "answered"
             THEN IF x.answer.code = "OK" THEN "succeeded" ELSE "failed"
             ELSE Stage(x.phase),
   kind |-> x.kind, gen |-> x.gen]
jobs == [c \in Calls |-> JobOf(c)]

LEMMA JobIsView == \A c \in Calls : jobs[c] = View(call[c])
  BY DEF jobs, JobOf, View, At, Kind

\* The fields of a job, one by one.
LEMMA JobFields ==
  ASSUME NEW c \in Calls
  PROVE  /\ jobs[c].kind = Kind(c) /\ jobs[c].gen = call[c].gen
         /\ call[c].phase \in {"queued", "granted"} => jobs[c].state = "waiting"
         /\ call[c].phase \in {"running", "settled"} => jobs[c].state = "working"
         /\ call[c].phase = "draining" => jobs[c].state = "overdue"
         /\ Free(c) => jobs[c].state \in Promise!Ended
         /\ jobs[c].state \in {"working", "overdue"} =>
              call[c].phase \in {"running", "settled", "draining"}
<1> DEFINE x == call[c]
<1>1. jobs[c] = View(x)
  BY JobIsView
<1>2. /\ View(x).kind = x.kind /\ View(x).gen = x.gen
      /\ View(x).state = IF x.phase = "answered"
                         THEN IF x.answer.code = "OK" THEN "succeeded" ELSE "failed"
                         ELSE Stage(x.phase)
  BY DEF View
<1> HIDE DEF x
<1>3. QED  BY <1>1, <1>2 DEF x, Stage, Kind, Free, Promise!Ended

\* When one call changes, so does one job.
LEMMA OneJob ==
  ASSUME TypeOK, NEW c \in Calls, NEW new,
         call' = [call EXCEPT ![c] = new]
  PROVE  jobs' = [jobs EXCEPT ![c] = View(new)]
<1>1. \A e \in Calls : call'[e] = IF e = c THEN new ELSE call[e]
  BY DEF TypeOK
<1>2. jobs' = [e \in Calls |-> View(call'[e])]
  BY DEF jobs, JobOf, View, At, Kind
<1>3. jobs = [e \in Calls |-> View(call[e])]
  BY DEF jobs, JobOf, View, At, Kind
<1>4. QED  BY <1>1, <1>2, <1>3

\* A slot that is handed over changes nothing for the one who gets it: a call
\* that holds a slot and has not begun still waits.
LEMMA LeaveJobs ==
  ASSUME ExecutorInv, NEW c \in Calls, NEW after, Leave(c, after),
         call[c].phase \in Holding
  PROVE  jobs' = [jobs EXCEPT ![c] = View(after)]
<1>1. CASE FreeSlot(c, after)
  BY <1>1, OneJob DEF FreeSlot, ExecutorInv
<1>2. CASE PassOn(c, after)
  <2> PICK k \in Kinds : k = Kind(c)
    BY CallFields DEF ExecutorInv
  <2> PICK d : d = Head(queue[k])
    OBVIOUS
  <2>1. call' = HandOver(c, after, d)
    BY <1>2 DEF PassOn
  <2>2. d \in Waiting(k)
    <3>1. queue[k] # <<>> /\ queue[k] \in Seq(Calls)
      BY <1>2, GateFields DEF PassOn, ExecutorInv
    <3>2. Distinct(queue[k]) /\ ToSet(queue[k]) = Waiting(k)
      BY DEF ExecutorInv, GateOK
    <3>3. QED  BY <3>1, <3>2, TailFacts
  <2>3. d \in Calls /\ call[d].phase = "queued" /\ call[d] \in CallRecord
    BY <2>2, CallFields DEF Waiting, At, ExecutorInv
  <2>4. View([call[d] EXCEPT !.phase = "granted"]) = View(call[d])
    <3> PICK x \in CallRecord : x = call[d]
      BY <2>3
    <3>1. x.phase = "queued"
      BY <2>3
    <3>2. LET y == [x EXCEPT !.phase = "granted"]
          IN  y.phase = "granted" /\ y.kind = x.kind /\ y.gen = x.gen
      BY DEF CallRecord
    <3>3. QED  BY <3>1, <3>2 DEF View, Stage
  <2>5. \A e \in Calls :
          View(call'[e]) = IF e = c THEN View(after) ELSE View(call[e])
    BY <2>1, <2>3, <2>4 DEF HandOver
  <2>6. jobs' = [e \in Calls |-> View(call'[e])]
    BY DEF jobs, JobOf, View, At, Kind
  <2>7. jobs = [e \in Calls |-> View(call[e])]
    BY DEF jobs, JobOf, View, At, Kind
  <2>8. QED  BY <2>5, <2>6, <2>7
<1>3. QED  BY <1>1, <1>2 DEF Leave, PassOn

\* An answer to a call under way, with an error, is a failure of its job.
LEMMA FailedJob ==
  ASSUME TypeOK, NEW c \in Calls, NEW after \in CallRecord,
         call[c].phase \in {"queued", "granted", "running", "settled",
                            "draining"},
         after.phase = "answered", after.answer.code # "OK",
         after.kind = Kind(c), after.gen = 0,
         jobs' = [jobs EXCEPT ![c] = View(after)], UNCHANGED session
  PROVE  Promise!Fail(c)
<1>1. View(after) = Promise!Job("failed", Kind(c), 0)
  BY DEF View, Promise!Job
<1>2. /\ jobs[c].state \in {"waiting", "working", "overdue"}
      /\ jobs[c].kind = Kind(c)
  BY JobFields
<1>3. active' = active /\ latest' = latest
  BY DEF session, active
<1>4. QED  BY <1>1, <1>2, <1>3 DEF Promise!Fail, jobs

\* SessionWork counts as this module does.
LEMMA SameCount == \A S : Promise!Cardinality(S) = Cardinality(S)
  BY DEF Promise!Cardinality, Cardinality

\* Each step of the executor is a step of SessionWork, or nothing it would see.
LEMMA RefusalIsPromised ==
  ASSUME ExecutorInv, NEW c \in Calls, NEW k \in Kinds,
         Refuse(c, k) \/ Saturated(c, k)
  PROVE  Promise!Refuse(c, k)
<1>1. PICK code \in Codes :
        /\ code # "OK" /\ Free(c)
        /\ call' = [call EXCEPT ![c] = Refused(k, Response(code, "none"))]
        /\ UNCHANGED session
  BY DEF Refuse, Saturated, Permitted, Codes
<1> DEFINE new == Refused(k, Response(code, "none"))
<1>2. View(new) = Promise!Job("failed", k, 0)
  <2>1. /\ new.phase = "answered" /\ new.kind = k /\ new.gen = 0
        /\ new.answer.code = code
    BY DEF Refused, Idle, Response
  <2> HIDE DEF new
  <2>2. QED  BY <1>1, <2>1 DEF View, Promise!Job
<1>3. jobs' = [jobs EXCEPT ![c] = View(new)]
  BY <1>1, OneJob DEF ExecutorInv
<1>4. jobs[c].state \in Promise!Ended
  BY <1>1, JobFields
<1> HIDE DEF new
<1>5. active' = active /\ latest' = latest
  BY <1>1 DEF session, active
<1>6. QED  BY <1>2, <1>3, <1>4, <1>5 DEF Promise!Refuse, jobs

LEMMA AdmissionIsPromised ==
  ASSUME ExecutorInv, NEW c \in Calls, NEW k \in Kinds,
         Acquire(c, k) \/ Enqueue(c, k)
  PROVE  Promise!Admit(c, k)
<1>1. PICK phase \in {"granted", "queued"} :
        /\ Free(c) /\ active # 0 /\ UNCHANGED session
        /\ call' = [call EXCEPT ![c] = Accepted(k, phase)]
  BY DEF Acquire, Enqueue, Permitted
<1> DEFINE new == Accepted(k, phase)
<1>2. View(new) = Promise!Job("waiting", k, active)
  <2>1. new.phase = phase /\ new.kind = k /\ new.gen = active
    BY DEF Accepted, Idle
  <2> HIDE DEF new
  <2>2. QED  BY <1>1, <2>1 DEF View, Stage, Promise!Job
<1>3. jobs' = [jobs EXCEPT ![c] = View(new)]
  BY <1>1, OneJob DEF ExecutorInv
<1>4. jobs[c].state \in Promise!Ended
  BY <1>1, JobFields
<1> HIDE DEF new
<1>5. active' = active /\ latest' = latest
  BY <1>1 DEF session, active
<1>6. QED  BY <1>1, <1>2, <1>3, <1>4, <1>5 DEF Promise!Admit, jobs

\* A call that begins was counted when it was granted its slot, so one less than
\* the concurrency can be at work.
LEMMA BeginIsPromised ==
  ASSUME ExecutorInv, NEW c \in Calls, Begin(c)
  PROVE  Promise!Begin(c)
<1> DEFINE new == [call[c] EXCEPT !.phase = "running", !.started = TRUE]
<1> PICK k \in Kinds : k = Kind(c)
  BY CallFields DEF ExecutorInv
<1>1. /\ At(c, "granted") /\ call[c].gen = active /\ UNCHANGED session
      /\ call' = [call EXCEPT ![c] = new] /\ TypeOK
  BY DEF Begin, Started, ExecutorInv
<1>2. View(new) = Promise!Job("working", k, active)
  <2>1. new.phase = "running" /\ new.kind = k /\ new.gen = active
    BY <1>1, CallFields DEF CallRecord, Kind
  <2> HIDE DEF new
  <2>2. QED  BY <2>1 DEF View, Stage, Promise!Job
<1>3. jobs' = [jobs EXCEPT ![c] = View(new)]
  BY <1>1, OneJob
<1>4. jobs[c].state = "waiting" /\ jobs[c].kind = k /\ jobs[c].gen = active
  BY <1>1, JobFields DEF At
<1> HIDE DEF new
<1>5. Cardinality(Promise!Working(k)) < Concurrency[k]
  <2> DEFINE W == Promise!Working(k)
  <2>1. W \subseteq Holders(k) \ {c}
    BY <1>1, JobFields DEF Promise!Working, Holders, Holding, At, jobs
  <2>2. /\ Cardinality(Holders(k)) \in Nat /\ Concurrency[k] \in Nat
        /\ Cardinality(Holders(k)) <= Concurrency[k]
    BY <1>1, HoldersCount, GateFields DEF ExecutorInv, GateOK
  <2>3. c \in Holders(k)
    BY <1>1 DEF Holders, Holding, At
  <2>4. Cardinality(Holders(k) \ {c}) = Cardinality(Holders(k)) - 1
    BY <2>3, HoldersCount
  <2>5. IsFiniteSet(Holders(k) \ {c})
    <3>1. Holders(k) \ {c} \subseteq Calls
      BY DEF Holders
    <3>2. QED  BY <3>1, ExecutorAssumption, FS_Subset DEF ExecutorAssumption
  <2> HIDE DEF W
  <2>6. /\ Cardinality(W) <= Cardinality(Holders(k) \ {c})
        /\ Cardinality(W) \in Nat
    BY <2>1, <2>5, FS_Subset, FS_CardinalityType
  <2>7. QED  BY <2>2, <2>4, <2>6 DEF W
<1>6. active' = active /\ latest' = latest
  BY <1>1 DEF session, active
<1>7. Promise!Cardinality(Promise!Working(k)) < Concurrency[k]
  BY <1>5, SameCount
<1>8. QED  BY <1>2, <1>3, <1>4, <1>6, <1>7 DEF Promise!Begin, jobs

LEMMA ExpiryIsPromised ==
  ASSUME ExecutorInv, NEW c \in Calls, ExecutionTimeout(c)
  PROVE  Promise!Expire(c)
<1>1. /\ At(c, "running") /\ UNCHANGED session /\ TypeOK
      /\ call' = [call EXCEPT ![c] = Expired(c)]
  BY DEF ExecutionTimeout, ExecutorInv
<1>2. View(Expired(c)) = Promise!Job("overdue", Kind(c), 0)
  <2> DEFINE a == Ambiguous(c, Response("TOOL_TIMEOUT", "none"))
             x == Answered(c, a)
  <2>1. x \in CallRecord /\ x.kind = Kind(c) /\ x.gen = 0
    <3>1. Response("TOOL_TIMEOUT", "none") \in Reply
      BY ResponseFacts DEF Codes, Outcomes
    <3>2. a \in Reply
      BY <1>1, <3>1, AmbiguousFacts
    <3>3. QED  BY <1>1, <3>2, AnsweredFacts DEF Kind
  <2>2. Expired(c) = [x EXCEPT !.phase = "draining"]
    BY DEF Expired
  <2> HIDE DEF x
  <2>3. /\ Expired(c).phase = "draining" /\ Expired(c).kind = Kind(c)
        /\ Expired(c).gen = 0
    BY <2>1, <2>2 DEF CallRecord
  <2>4. QED  BY <2>3 DEF View, Stage, Promise!Job
<1>3. jobs' = [jobs EXCEPT ![c] = View(Expired(c))]
  BY <1>1, OneJob
<1>4. jobs[c].state = "working" /\ jobs[c].kind = Kind(c)
  BY <1>1, JobFields DEF At
<1>5. active' = active /\ latest' = latest
  BY <1>1 DEF session, active
<1>6. QED  BY <1>2, <1>3, <1>4, <1>5 DEF Promise!Expire, jobs

LEMMA QueueTimeoutIsPromised ==
  ASSUME ExecutorInv, NEW c \in Calls, QueueTimeout(c)
  PROVE  Promise!Fail(c)
<1> DEFINE a == Response("TOOL_TIMEOUT", "not_started")
           after == Answered(c, a)
<1>1. /\ TypeOK /\ At(c, "queued") /\ UNCHANGED session
      /\ call' = [call EXCEPT ![c] = after]
  BY DEF QueueTimeout, ExecutorInv
<1>2. a \in Reply /\ a.code # "OK"
  BY ResponseFacts DEF Codes, Outcomes
<1>3. /\ after \in CallRecord /\ after.phase = "answered"
      /\ after.answer.code # "OK" /\ after.kind = Kind(c) /\ after.gen = 0
  BY <1>1, <1>2, AnsweredFacts DEF Kind
<1> HIDE DEF after
<1>4. jobs' = [jobs EXCEPT ![c] = View(after)]
  BY <1>1, OneJob
<1>5. call[c].phase \in {"queued", "granted", "running", "settled", "draining"}
  BY <1>1 DEF At
<1>6. QED  BY <1>1, <1>3, <1>4, <1>5, FailedJob

LEMMA TurnBackIsPromised ==
  ASSUME ExecutorInv, NEW c \in Calls, TurnBack(c)
  PROVE  Promise!Fail(c)
<1> DEFINE after == Answered(c, Revoked(c))
<1>1. /\ TypeOK /\ At(c, "granted") /\ UNCHANGED session /\ Leave(c, after)
  BY DEF TurnBack, ExecutorInv
<1>2. Revoked(c) \in Reply /\ Revoked(c).code # "OK"
  <2> DEFINE r == Response("TOOL_NOT_ALLOWED", "none")
  <2>1. r \in Reply /\ r.code = "TOOL_NOT_ALLOWED"
    BY ResponseFacts DEF Codes, Outcomes
  <2>2. Revoked(c) = Ambiguous(c, r)
    BY DEF Revoked
  <2> HIDE DEF r
  <2>3. QED  BY <1>1, <2>1, <2>2, AmbiguousFacts
<1>3. /\ after \in CallRecord /\ after.phase = "answered"
      /\ after.answer.code # "OK" /\ after.kind = Kind(c) /\ after.gen = 0
  BY <1>1, <1>2, AnsweredFacts DEF Kind
<1> HIDE DEF after
<1>4. jobs' = [jobs EXCEPT ![c] = View(after)]
  BY <1>1, LeaveJobs DEF At, Holding
<1>5. call[c].phase \in {"queued", "granted", "running", "settled", "draining"}
  BY <1>1 DEF At
<1>6. QED  BY <1>1, <1>3, <1>4, <1>5, FailedJob

LEMMA DrainIsPromised ==
  ASSUME ExecutorInv, NEW c \in Calls, Drained(c)
  PROVE  Promise!Fail(c)
<1> DEFINE after == [call[c] EXCEPT !.phase = "answered"]
<1>1. /\ TypeOK /\ At(c, "draining") /\ UNCHANGED session /\ Leave(c, after)
      /\ CallOK(call[c], active)
  BY DEF Drained, ExecutorInv
<1>2. /\ after \in CallRecord /\ after.phase = "answered"
      /\ after.answer = call[c].answer /\ after.kind = Kind(c)
      /\ after.gen = call[c].gen
  BY <1>1, CallFields DEF CallRecord, Phases, Kind
<1>3. after.answer.code # "OK" /\ after.gen = 0
  BY <1>1, <1>2 DEF CallOK, At
<1> HIDE DEF after
<1>4. jobs' = [jobs EXCEPT ![c] = View(after)]
  BY <1>1, LeaveJobs DEF At, Holding
<1>5. call[c].phase \in {"queued", "granted", "running", "settled", "draining"}
  BY <1>1 DEF At
<1>6. QED  BY <1>1, <1>2, <1>3, <1>4, <1>5, FailedJob

\* A success reaches only the session that asked; anything else is a failure.
LEMMA FinishIsPromised ==
  ASSUME ExecutorInv, NEW c \in Calls, Finish(c)
  PROVE  Promise!Succeed(c) \/ Promise!Fail(c)
<1>1. PICK r \in Verdicts(c) :
        Leave(c, Answered(c, IF r.code = "OK" THEN r ELSE Ambiguous(c, r)))
  BY DEF Finish
<1> DEFINE a == IF r.code = "OK" THEN r ELSE Ambiguous(c, r)
           after == Answered(c, a)
<1>2. /\ TypeOK /\ At(c, "settled") /\ Leave(c, after) /\ UNCHANGED session
      /\ call[c].said \in Reply
  BY <1>1, CallFields DEF Finish, ExecutorInv
<1>3. r \in Reply /\ (r.code = "OK" => call[c].gen = active)
  <2>1. /\ Response("TOOL_NOT_ALLOWED", "none") \in Reply
        /\ Response("INTERNAL_ERROR", "none") \in Reply
        /\ Response("OUTPUT_TOO_LARGE", "none") \in Reply
    BY ResponseFacts DEF Codes, Outcomes
  <2>2. /\ Response("TOOL_NOT_ALLOWED", "none").code # "OK"
        /\ Response("INTERNAL_ERROR", "none").code # "OK"
        /\ Response("OUTPUT_TOO_LARGE", "none").code # "OK"
    BY DEF Response
  <2>3. QED  BY <1>2, <2>1, <2>2 DEF Verdicts
<1>4. a \in Reply /\ (a.code = "OK" <=> r.code = "OK")
  BY <1>2, <1>3, AmbiguousFacts
<1> HIDE DEF a
<1>5. /\ after \in CallRecord /\ after.phase = "answered"
      /\ after.answer = a /\ after.kind = Kind(c) /\ after.gen = 0
  BY <1>2, <1>4, AnsweredFacts DEF Kind
<1> HIDE DEF after
<1>6. jobs' = [jobs EXCEPT ![c] = View(after)]
  BY <1>2, LeaveJobs DEF At, Holding
<1>7. CASE r.code = "OK"
  <2>1. View(after) = Promise!Job("succeeded", Kind(c), 0)
    BY <1>4, <1>5, <1>7 DEF View, Promise!Job
  <2>2. /\ jobs[c].state = "working" /\ jobs[c].kind = Kind(c)
        /\ jobs[c].gen = active
    BY <1>2, <1>3, <1>7, JobFields DEF At
  <2>3. active' = active /\ latest' = latest
    BY <1>2 DEF session, active
  <2>4. Promise!Succeed(c)
    BY <1>6, <2>1, <2>2, <2>3 DEF Promise!Succeed, jobs
  <2>5. QED  BY <2>4
<1>8. CASE r.code # "OK"
  <2>1. after.answer.code # "OK"
    BY <1>4, <1>5, <1>8
  <2>2. call[c].phase \in {"queued", "granted", "running", "settled", "draining"}
    BY <1>2 DEF At
  <2>3. QED  BY <1>2, <1>5, <1>6, <2>1, <2>2, FailedJob
<1>9. QED  BY <1>7, <1>8

\* What a handler settles with is not seen until it is returned.
LEMMA SettlingIsHidden ==
  ASSUME ExecutorInv, NEW c \in Calls, HandlerSettles(c)
  PROVE  UNCHANGED Promise!vars
<1>1. PICK r \in Results[Kind(c)] :
        call' = [call EXCEPT ![c] =
                   [call[c] EXCEPT !.phase = "settled", !.said = r]]
  BY DEF HandlerSettles
<1> DEFINE new == [call[c] EXCEPT !.phase = "settled", !.said = r]
<1>2. /\ TypeOK /\ At(c, "running") /\ UNCHANGED session
      /\ call' = [call EXCEPT ![c] = new]
  BY <1>1 DEF HandlerSettles, ExecutorInv
<1>3. View(new) = View(call[c])
  <2>1. call[c] \in CallRecord
    BY <1>2, CallFields
  <2>2. new.phase = "settled" /\ new.kind = call[c].kind /\ new.gen = call[c].gen
    BY <2>1 DEF CallRecord
  <2> HIDE DEF new
  <2>3. QED  BY <1>2, <2>2 DEF View, Stage, At
<1> HIDE DEF new
<1>4. jobs' = [jobs EXCEPT ![c] = View(call[c])]
  BY <1>2, <1>3, OneJob
<1>5. jobs' = jobs
  BY <1>4, JobIsView DEF jobs
<1>6. QED  BY <1>2, <1>5 DEF Promise!vars, session, active, jobs

\* Cancelling turns away jobs that wait, and no others.
LEMMA CancelIsPromised ==
  ASSUME ExecutorInv, call' = Cancelled(TRUE)
  PROVE  \E out \in SUBSET {c \in Calls : jobs[c].state = "waiting"} :
           jobs' = [c \in Calls |-> IF c \in out
                                    THEN Promise!Job("failed", jobs[c].kind, 0)
                                    ELSE jobs[c]]
<1> DEFINE out == {c \in Calls : At(c, "queued")}
<1>1. out \in SUBSET {c \in Calls : jobs[c].state = "waiting"}
  BY JobFields DEF At
<1>2. ASSUME NEW c \in Calls
      PROVE  View(call'[c]) = IF c \in out
                              THEN Promise!Job("failed", jobs[c].kind, 0)
                              ELSE jobs[c]
  <2>1. call[c] \in CallRecord /\ TypeOK
    BY CallFields DEF ExecutorInv
  <2>2. CASE At(c, "queued")
    <3> DEFINE a == Response("TOOL_NOT_ALLOWED", "none")
               x == Answered(c, a)
    <3>1. a \in Reply /\ a.code # "OK"
      BY ResponseFacts DEF Codes, Outcomes
    <3>2. call'[c] = x
      BY <2>2 DEF Cancelled
    <3>3. /\ x.phase = "answered" /\ x.answer = a /\ x.kind = Kind(c)
          /\ x.gen = 0
      BY <2>1, <3>1, AnsweredFacts DEF Kind
    <3> HIDE DEF x
    <3>4. View(x) = Promise!Job("failed", Kind(c), 0)
      BY <3>1, <3>3 DEF View, Promise!Job
    <3>5. QED  BY <2>2, <3>2, <3>4, JobFields
  <2>3. CASE call[c].phase \in {"running", "settled"}
    <3>1. call'[c] = [call[c] EXCEPT !.aborted = TRUE]
      BY <2>3 DEF Cancelled, At
    <3>2. /\ call'[c].phase = call[c].phase /\ call'[c].kind = call[c].kind
          /\ call'[c].gen = call[c].gen
      BY <2>1, <3>1 DEF CallRecord
    <3>3. View(call'[c]) = View(call[c])
      BY <2>3, <3>2 DEF View
    <3>4. QED  BY <2>3, <3>3, JobIsView DEF At
  <2>4. CASE ~At(c, "queued") /\ call[c].phase \notin {"running", "settled"}
    <3>1. call'[c] = call[c]
      BY <2>4 DEF Cancelled
    <3>2. QED  BY <2>4, <3>1, JobIsView
  <2>5. QED  BY <2>2, <2>3, <2>4
<1> HIDE DEF out
<1>3. jobs' = [c \in Calls |-> View(call'[c])]
  BY DEF jobs, JobOf, View, At, Kind
<1>4. QED  BY <1>1, <1>2, <1>3

LEMMA SwitchIsPromised ==
  ASSUME ExecutorInv,
         ClearSessionPolicy \/ \E g \in Generations, w \in BOOLEAN :
                                 SetSessionPolicy(g, w)
  PROVE  \E g \in {0} \cup Generations : Promise!Switch(g)
<1>1. \E out \in SUBSET {c \in Calls : jobs[c].state = "waiting"} :
        jobs' = [c \in Calls |-> IF c \in out
                                 THEN Promise!Job("failed", jobs[c].kind, 0)
                                 ELSE jobs[c]]
  <2>1. CASE call' = Cancelled(TRUE)
    BY <2>1, CancelIsPromised
  <2>2. CASE call' = call
    <3>1. jobs' = jobs
      BY <2>2 DEF jobs, JobOf, At, Kind
    <3>2. jobs = [c \in Calls |-> IF c \in {}
                                  THEN Promise!Job("failed", jobs[c].kind, 0)
                                  ELSE jobs[c]]
      BY DEF jobs
    <3>3. jobs' = [c \in Calls |-> IF c \in {}
                                   THEN Promise!Job("failed", jobs[c].kind, 0)
                                   ELSE jobs[c]]
      BY <3>1, <3>2, Zenon
    <3>4. {} \in SUBSET {c \in Calls : jobs[c].state = "waiting"}
      OBVIOUS
    <3>5. WITNESS {} \in SUBSET {c \in Calls : jobs[c].state = "waiting"}
    <3>6. QED  BY <3>3
  <2>3. QED  BY <2>1, <2>2 DEF ClearSessionPolicy, SetSessionPolicy, CancelQueued
<1>2. PICK g \in {0} \cup Generations :
        /\ g = 0 \/ (g \in Generations /\ g > latest)
        /\ active' = g /\ latest' = IF g = 0 THEN latest ELSE g
  <2>1. CASE ClearSessionPolicy
    BY <2>1 DEF ClearSessionPolicy, NoPolicy, active
  <2>2. CASE \E g \in Generations, w \in BOOLEAN : SetSessionPolicy(g, w)
    <3>1. PICK g \in Generations, w \in BOOLEAN : SetSessionPolicy(g, w)
      BY <2>2
    <3>2. g # 0
      BY ExecutorAssumption DEF ExecutorAssumption
    <3>3. QED  BY <3>1, <3>2 DEF SetSessionPolicy, active
  <2>3. QED  BY <2>1, <2>2
<1>3. QED  BY <1>1, <1>2 DEF Promise!Switch, jobs

\* Whatever the queues, timers and counters do, work is admitted, started and
\* reported only as SessionWork allows, for any number of calls and slots.
THEOREM PromiseIsKept == Spec => KeepsSessionPromise
<1>1. Init => Promise!Init
  <2> SUFFICES ASSUME Init PROVE Promise!Init
    OBVIOUS
  <2>1. \A c \in Calls : JobOf(c) = Promise!Idle
    BY DEF Init, Idle, JobOf, Stage, At, Kind, Promise!Idle, Promise!Job
  <2>2. active = 0 /\ latest = 0
    BY DEF Init, NoPolicy, active
  <2>3. QED  BY <2>1, <2>2 DEF Promise!Init
<1>2. ExecutorInv /\ [Next]_vars => [Promise!Next]_Promise!vars
  <2> SUFFICES ASSUME ExecutorInv, [Next]_vars PROVE [Promise!Next]_Promise!vars
    OBVIOUS
  <2>1. CASE ClearSessionPolicy \/ \E g \in Generations, w \in BOOLEAN :
               SetSessionPolicy(g, w)
    BY <2>1, SwitchIsPromised DEF Promise!Next
  <2>2. ASSUME NEW c \in Calls, NEW k \in Kinds,
               Refuse(c, k) \/ Acquire(c, k) \/ Enqueue(c, k) \/ Saturated(c, k)
        PROVE  Promise!Next
    <3>1. Promise!Refuse(c, k) \/ Promise!Admit(c, k)
      BY <2>2, RefusalIsPromised, AdmissionIsPromised
    <3>2. QED  BY <3>1 DEF Promise!Next
  <2>3. ASSUME NEW c \in Calls,
               QueueTimeout(c) \/ ExecutionTimeout(c) \/ Proceed(c) \/ Drained(c)
        PROVE  Promise!Next
    <3>1. \/ Promise!Begin(c) \/ Promise!Succeed(c) \/ Promise!Fail(c)
          \/ Promise!Expire(c)
      BY <2>3, QueueTimeoutIsPromised, ExpiryIsPromised, BeginIsPromised,
         TurnBackIsPromised, FinishIsPromised, DrainIsPromised DEF Proceed
    <3>2. QED  BY <3>1 DEF Promise!Next
  <2>4. ASSUME NEW c \in Calls, HandlerSettles(c)
        PROVE  UNCHANGED Promise!vars
    BY <2>4, SettlingIsHidden
  <2>5. CASE UNCHANGED vars
    BY <2>5 DEF vars, Promise!vars, active, JobOf, At, Kind
  <2>6. QED  BY <2>1, <2>2, <2>3, <2>4, <2>5 DEF Next
<1>3. QED  BY <1>1, <1>2, InvAlways, PTL DEF Spec, Promise!Spec, KeepsSessionPromise
=============================================================================
