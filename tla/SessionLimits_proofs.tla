------------------------- MODULE SessionLimits_proofs -------------------------
(***************************************************************************)
(* The limits and tools of a session, for every choice of the bounds, of   *)
(* the environments and of the control plane's answers.                    *)
(***************************************************************************)
EXTENDS SessionLimits, TLAPS

\* A range that loadConfig let pass consists of integers.
Integral(r) == r.min \in Int /\ r.max \in Int /\ r.value \in Int

Configured ==
  config.loaded =>
    \A l \in Limits :
      Integral(config.ranges[l]) /\ RangeAllowed(config.ranges[l], l)

\* An offer, an answer and a session are of this process and connection.
Ordered ==
  /\ ~config.loaded => offered = NoOffer
  /\ session.on => offered # NoOffer
  /\ answer.given => offered # NoOffer
  /\ offered # NoOffer => offered = Compiled \cup (IF helper THEN {RestartTool} ELSE {})

\* Besides the three properties: what they need of the configuration and of
\* the order of the steps.
LimitsInv ==
  Configured /\ Ordered /\ LimitsHold /\ SilenceAccepted /\ OnlyWhatWasOffered

\* What the bounds, the environments and the answers are taken from.
LEMMA BoundFacts ==
  ASSUME NEW l \in Limits
  PROVE  /\ Bounds[l].floor \in Int /\ Bounds[l].highest \in Int
         /\ Bounds[l].ceiling \in Int /\ Bounds[l].min \in Int
         /\ Bounds[l].max \in Int /\ Bounds[l].value \in Int
         /\ Unit[l] \in Int
  BY LimitsAssumption DEF BoundsOf

\* intEnv() returns an integer: the one that is set or the default.
LEMMA IntEnvInt ==
  ASSUME NEW s \in Settings, NEW d \in Int
  PROVE  IntEnv(s, d) \in Int
  BY DEF IntEnv, Settings, Unset

\* The range of an environment consists of integers.
LEMMA RangeIntegral ==
  ASSUME NEW env \in Environments, NEW l \in Limits
  PROVE  Integral(RangeOf(env, l))
<1>1. {env[l].min, env[l].max, env[l].value} \subseteq Settings
  BY LimitsAssumption
<1>2. env[l].min \in Settings /\ env[l].max \in Settings /\ env[l].value \in Settings
  BY <1>1
<1>3. QED  BY <1>2, IntEnvInt, BoundFacts DEF Integral, RangeOf

\* What acceptHandshake() takes is an integer, and the local value where the
\* control plane says nothing.
LEMMA TakenFacts ==
  ASSUME NEW l \in Limits, NEW a \in Answers, Integral(config.ranges[l])
  PROVE  /\ Taken(a, l) \in Int
         /\ ~a.remote[l].set => Taken(a, l) = config.ranges[l].value
<1>1. a.remote[l] \in Settings
  BY LimitsAssumption DEF Answers
<1>2. a.remote[l].to \in Int
  BY <1>1 DEF Settings, Unset
<1>3. a.remote[l].to * Unit[l] \in Int
  BY <1>2, BoundFacts
<1>4. QED  BY <1>3 DEF Taken, Integral

\* No process, connection or session: everything holds.
LEMMA LimitsStart == LimitsInit => LimitsInv
  BY DEF LimitsInit, LimitsInv, Configured, Ordered, LimitsHold,
         SilenceAccepted, OnlyWhatWasOffered, NoConfig, NoSession, NoAnswer

\* A process that starts has a configuration in order and nothing else yet.
LEMMA LoadKeeps ==
  ASSUME LimitsInv, Load
  PROVE  LimitsInv'
<1>1. PICK env \in Environments, write \in BOOLEAN, logs \in BOOLEAN :
        /\ \A l \in Limits : RangeAllowed(RangeOf(env, l), l)
        /\ config' = [loaded |-> TRUE, ranges |-> [l \in Limits |-> RangeOf(env, l)],
                      write |-> write, logs |-> logs]
  BY DEF Load
<1>2. Configured'
  <2>1. \A l \in Limits : config.ranges'[l] = RangeOf(env, l)
    BY <1>1
  <2>2. QED  BY <1>1, <2>1, RangeIntegral DEF Configured, RangeAllowed, Between, Integral
<1>3. ~session'.on /\ ~answer'.given /\ offered' = NoOffer
  BY DEF Load, LimitsInv, Ordered
<1>4. QED
  BY <1>2, <1>3 DEF LimitsInv, Ordered, LimitsHold, SilenceAccepted, OnlyWhatWasOffered

\* A new connection offers what its helper allows and has no session.
LEMMA OpenKeeps ==
  ASSUME LimitsInv, Open
  PROVE  LimitsInv'
<1>1. ~session'.on /\ ~answer'.given /\ config' = config /\ config.loaded
  BY DEF Open, NoSession, NoAnswer
<1>2. Configured'
  BY <1>1 DEF LimitsInv, Configured, RangeAllowed, Between, Integral
<1>3. QED
  BY <1>1, <1>2 DEF Open, LimitsInv, Ordered, LimitsHold, SilenceAccepted, OnlyWhatWasOffered

\* An answer is accepted within the local range only, which lies within the
\* absolute one; and it is accepted if it says nothing of the limits.
LEMMA AcceptKeeps ==
  ASSUME LimitsInv, Accept
  PROVE  LimitsInv'
<1> DEFINE Granted(a) ==
      [on |-> TRUE, limits |-> [l \in Limits |-> Taken(a, l)],
       tools |-> Allowed(a), write |-> a.write /\ helper /\ config.write]
<1>1. PICK a \in Answers :
        /\ answer' = a
        /\ session' = IF WithinRange(a) THEN Granted(a) ELSE NoSession
  BY DEF Accept
<1>2. /\ config' = config /\ offered' = offered /\ helper' = helper
      /\ config.loaded /\ offered # NoOffer
  BY DEF Accept, LimitsInv, Ordered
<1>3. \A l \in Limits : /\ Integral(config.ranges[l])
                        /\ RangeAllowed(config.ranges[l], l)
  BY <1>2 DEF LimitsInv, Configured
<1>4. Configured' /\ Ordered'
  BY <1>2, <1>3 DEF LimitsInv, Configured, Ordered, RangeAllowed, Between, Integral
<1>5. LimitsHold'
  <2>1. SUFFICES ASSUME session'.on, NEW l \in Limits
                 PROVE  /\ Between(session'.limits[l], config.ranges[l].min, config.ranges[l].max)
                        /\ Between(session'.limits[l], Bounds[l].floor, Bounds[l].ceiling)
    BY <1>2 DEF LimitsHold, Between
  <2>2. WithinRange(a) /\ session' = Granted(a)
    BY <1>1, <2>1 DEF NoSession
  <2>3. session'.limits[l] = Taken(a, l)
    BY <2>2
  <2>4. Between(Taken(a, l), config.ranges[l].min, config.ranges[l].max)
    BY <2>2 DEF WithinRange
  <2>5. Taken(a, l) \in Int
    BY <1>3, TakenFacts
  <2>6. QED  BY <1>3, <2>3, <2>4, <2>5, BoundFacts DEF Between, RangeAllowed, Integral
<1>6. SilenceAccepted'
  <2>1. SUFFICES ASSUME \A l \in Limits : ~a.remote[l].set
                 PROVE  session'.on
    BY <1>1 DEF SilenceAccepted
  <2>2. \A l \in Limits : Taken(a, l) = config.ranges[l].value
    BY <1>3, <2>1, TakenFacts
  <2>3. WithinRange(a)
    BY <1>3, <2>2 DEF WithinRange, RangeAllowed, Between
  <2>4. QED  BY <1>1, <2>3
<1>7. OnlyWhatWasOffered'
  <2>1. SUFFICES ASSUME session'.on
                 PROVE  /\ session'.tools \subseteq offered \cap a.tools
                        /\ RestartTool \in session'.tools => session'.write
    BY <1>1, <1>2 DEF OnlyWhatWasOffered
  <2>2. session'.tools = Allowed(a) /\ session'.write = (a.write /\ helper /\ config.write)
    BY <1>1, <2>1 DEF NoSession
  <2>3. offered = Compiled \cup (IF helper THEN {RestartTool} ELSE {})
    BY <1>2 DEF LimitsInv, Ordered
  <2>4. QED  BY <2>2, <2>3 DEF Allowed
<1>8. QED  BY <1>4, <1>5, <1>6, <1>7 DEF LimitsInv

\* Every step keeps the invariant.
LEMMA LimitsSteps == LimitsInv /\ [LimitsNext]_limitsVars => LimitsInv'
<1> SUFFICES ASSUME LimitsInv, [LimitsNext]_limitsVars PROVE LimitsInv'
  OBVIOUS
<1>1. CASE Load  BY <1>1, LoadKeeps
<1>2. CASE Open  BY <1>2, OpenKeeps
<1>3. CASE Accept  BY <1>3, AcceptKeeps
<1>4. CASE Exit
  BY <1>4 DEF Exit, LimitsInv, Configured, Ordered, LimitsHold, SilenceAccepted,
              OnlyWhatWasOffered, NoConfig, NoSession, NoAnswer
<1>5. CASE UNCHANGED limitsVars
  BY <1>5 DEF limitsVars, LimitsInv, Configured, Ordered, LimitsHold, SilenceAccepted,
              OnlyWhatWasOffered, Integral, RangeAllowed, Between
<1>6. QED  BY <1>1, <1>2, <1>3, <1>4, <1>5 DEF LimitsNext

\* So it holds in every reachable state.
LEMMA LimitsInvariant == LimitsSpec => []LimitsInv
  BY LimitsStart, LimitsSteps, PTL DEF LimitsSpec

\* A session never runs outside the local range nor outside the absolute one,
\* whatever the control plane answers (config.ts:84-102, lifecycle.ts:110-114).
THEOREM LimitsAreLocal == LimitsSpec => []LimitsHold
  BY LimitsInvariant, PTL DEF LimitsInv

\* An answer that leaves the limits to the agent is never refused for them.
THEOREM SilenceIsAccepted == LimitsSpec => []SilenceAccepted
  BY LimitsInvariant, PTL DEF LimitsInv

\* A session's tools are among those its own handshake advertised, and the
\* restart comes with the right to write (lifecycle.ts:125-129).
THEOREM ToolsWereOffered == LimitsSpec => []OnlyWhatWasOffered
  BY LimitsInvariant, PTL DEF LimitsInv

\* The three together: what the run of the small instance checks.
THEOREM CeilingIsKept == LimitsSpec => []CeilingHolds
  BY LimitsInvariant, PTL DEF LimitsInv, CeilingHolds
=============================================================================
