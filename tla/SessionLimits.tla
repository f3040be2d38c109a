---------------------------- MODULE SessionLimits ----------------------------
(***************************************************************************)
(* Whose word counts for a session: the local configuration, which         *)
(* config.ts checks when the agent starts, and the control plane's answer  *)
(* to the handshake, which core/lifecycle.ts checks against it.            *)
(*                                                                         *)
(* Two quantities are limited, the interval of the snapshots and their     *)
(* size.  Each has a least and a greatest value that the administrator may *)
(* set within absolute bounds, and a value to use when the control plane   *)
(* says nothing.  Which tools a session may call is the control plane's    *)
(* list, as far as the local configuration and the helper allow it.        *)
(***************************************************************************)
EXTENDS Integers

CONSTANTS
  Limits,      \* what is limited: the interval and the size of a snapshot
  Bounds,      \* of each: the absolute bounds and the defaults of loadConfig
  Unit,        \* of each: what the control plane's 1 is here (1000 ms, 1 byte)
  Compiled,    \* the tools of the registry that only read
  Environments, \* bound: the limits an administrator may have set
  Remotes       \* bound: the limits the control plane may answer with

QueryLogs == "query_logs"
RestartTool == "restart_service"
Unset == [set |-> FALSE, to |-> 0]
Settings == [set : BOOLEAN, to : Int]

BoundsOf ==
  [floor : Int, highest : Int, ceiling : Int, min : Int, max : Int, value : Int]

ASSUME LimitsAssumption ==
  /\ Bounds \in [Limits -> BoundsOf]
  /\ Unit \in [Limits -> Nat \ {0}]
  /\ \A env \in Environments, l \in Limits :
       {env[l].min, env[l].max, env[l].value} \subseteq Settings
  /\ \A remote \in Remotes, l \in Limits : remote[l] \in Settings

VARIABLES
  config,     \* what loadConfig returned
  offered,    \* the tools advertised in the handshake that awaits its answer
  helper,     \* helperReady of this connection
  session,    \* what the session runs with
  answer      \* history: the last answer of the control plane

limitsVars == <<config, offered, helper, session, answer>>

NoConfig == [loaded |-> FALSE]
NoSession == [on |-> FALSE]
NoOffer == {}
NoAnswer == [given |-> FALSE]

Answers ==
  [given : {TRUE}, remote : Remotes, write : BOOLEAN,
   tools : SUBSET (Compiled \cup {RestartTool, "unheard_of"})]
-----------------------------------------------------------------------------
(* config.ts *)

\* intEnv(): the setting or else the default, refused outside its range.
IntEnv(setting, default) == IF setting.set THEN setting.to ELSE default
Between(n, least, most) == least <= n /\ n <= most

RangeOf(env, l) ==
  [min |-> IntEnv(env[l].min, Bounds[l].min),
   max |-> IntEnv(env[l].max, Bounds[l].max),
   value |-> IntEnv(env[l].value, Bounds[l].value)]

\* Variant the checks must reject: the greatest value is not held against the
\* least one, nor the value against the greatest.
RangeAbsolute(r, l) ==
  /\ Between(r.min, Bounds[l].floor, Bounds[l].highest)
  /\ Between(r.max, Bounds[l].floor, Bounds[l].ceiling)
  /\ Between(r.value, r.min, Bounds[l].ceiling)

RangeAllowed(r, l) ==
  /\ Between(r.min, Bounds[l].floor, Bounds[l].highest)
  /\ Between(r.max, r.min, Bounds[l].ceiling)
  /\ Between(r.value, r.min, r.max)

\* loadConfig() in a process that starts.  A setting that is refused, of
\* whatever kind, ends the process: this step is not taken.
Load ==
  /\ ~config.loaded
  /\ \E env \in Environments, write, logs \in BOOLEAN :
       /\ \A l \in Limits : RangeAllowed(RangeOf(env, l), l)
       /\ config' = [loaded |-> TRUE, ranges |-> [l \in Limits |-> RangeOf(env, l)],
                     write |-> write, logs |-> logs]
  /\ UNCHANGED <<offered, helper, session, answer>>
-----------------------------------------------------------------------------
(* core/lifecycle.ts *)

\* open(): the handshake offers what reads, and the restart if the helper can.
Open ==
  /\ config.loaded
  /\ helper' \in {FALSE, config.write}
  /\ offered' = Compiled \cup (IF helper' THEN {RestartTool} ELSE {})
  /\ session' = NoSession /\ answer' = NoAnswer
  /\ UNCHANGED config

\* The limit a session would have: the answer's, or else the local one.
Taken(a, l) ==
  IF a.remote[l].set THEN a.remote[l].to * Unit[l] ELSE config.ranges[l].value

\* Variant the checks must reject: the answer is checked in its own unit.
WithinRaw(a) ==
  \A l \in Limits :
    Between(IntEnv(a.remote[l], config.ranges[l].value),
            config.ranges[l].min, config.ranges[l].max)

WithinRange(a) ==
  \A l \in Limits :
    Between(Taken(a, l), config.ranges[l].min, config.ranges[l].max)

\* Variant the checks must reject: the helper's absence is overlooked.
AllowedUnhelped(a) ==
  {t \in a.tools \cap (Compiled \cup {RestartTool}) :
     /\ t = QueryLogs => config.logs
     /\ t = RestartTool => config.write /\ a.write}

Allowed(a) ==
  {t \in a.tools \cap (Compiled \cup {RestartTool}) :
     /\ t = QueryLogs => config.logs
     /\ t = RestartTool => config.write /\ helper /\ a.write}

\* acceptHandshake(), of an answer that is otherwise well formed.
Accept ==
  /\ offered # NoOffer /\ ~session.on /\ ~answer.given
  /\ \E a \in Answers :
       /\ answer' = a
       /\ session' = IF WithinRange(a)
                     THEN [on |-> TRUE, limits |-> [l \in Limits |-> Taken(a, l)],
                           tools |-> Allowed(a),
                           write |-> a.write /\ helper /\ config.write]
                     ELSE NoSession
  /\ UNCHANGED <<config, offered, helper>>

\* The process ends; the next one may find another environment.
Exit ==
  /\ config' = NoConfig /\ offered' = NoOffer /\ helper' = FALSE
  /\ session' = NoSession /\ answer' = NoAnswer

LimitsInit ==
  /\ config = NoConfig /\ offered = NoOffer /\ helper = FALSE
  /\ session = NoSession /\ answer = NoAnswer

LimitsNext == Load \/ Open \/ Accept \/ Exit

LimitsSpec == LimitsInit /\ [][LimitsNext]_limitsVars
-----------------------------------------------------------------------------
(* Properties. *)

\* No answer of the control plane makes the agent collect more often, or send
\* more, than its administrator allows, nor either of them than the program
\* does: the chain of checks in loadConfig and acceptHandshake leaves no gap.
LimitsHold ==
  session.on =>
    \A l \in Limits :
      /\ Between(session.limits[l], config.ranges[l].min, config.ranges[l].max)
      /\ Between(session.limits[l], Bounds[l].floor, Bounds[l].ceiling)

\* A control plane that leaves the limits to the agent is never refused for
\* them: whatever loadConfig let pass, the handshake lets pass too.
SilenceAccepted ==
  answer.given /\ (\A l \in Limits : ~answer.remote[l].set) => session.on

\* A session's tools are among those its own handshake advertised, and each
\* was asked for; the restart is among them only where it can be carried out.
OnlyWhatWasOffered ==
  session.on =>
    /\ session.tools \subseteq offered \cap answer.tools
    /\ RestartTool \in session.tools => session.write

\* Together: the local configuration is a ceiling for the control plane and no
\* obstacle to it (config.ts:84-102, lifecycle.ts:110-127).
CeilingHolds == LimitsHold /\ SilenceAccepted /\ OnlyWhatWasOffered
=============================================================================
