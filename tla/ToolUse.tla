-------------------------------- MODULE ToolUse --------------------------------
(***************************************************************************)
(* What a chat may use: ToolRegistry, the execution policy composed from   *)
(* the request, its allow-list and the selected skills, the selection of   *)
(* skills, and the checks ToolManager.execute makes before it runs a call. *)
(*                                                                         *)
(* A list that is not given allows every name: it is the set of all names, *)
(* and so intersecting the given lists is intersecting all of them.        *)
(***************************************************************************)
EXTENDS Integers, FiniteSets

CONSTANTS
  Tool,              \* names of tools, also of ones that are not registered
  Builtin,           \* the sets of tools a runtime may start with
  Permission,
  Profile,           \* Profile[t]: the safety profile in the definition of t
  Skill,             \* the registered skills, numbered in the order of their names
  SkillOf,           \* SkillOf[s]: the definition of s
  HasSkills,         \* the runtime has a skill manager
  SandboxAvailable   \* the runtime has a sandbox runner

\* From TRUSTED to PROCESS.
Risk == 0 .. 4

ASSUME ToolAssumption ==
  /\ Builtin \subseteq SUBSET Tool
  /\ Profile \in [Tool -> [risk : Risk, sandbox : BOOLEAN, permissions : SUBSET Permission]]
  /\ Skill \subseteq Nat /\ IsFiniteSet(Skill)
  /\ SkillOf \in [Skill -> [enabled : BOOLEAN, priority : Nat, tools : SUBSET Tool]]
  /\ HasSkills \in BOOLEAN /\ SandboxAvailable \in BOOLEAN

VARIABLES
  registered,  \* _definitions and _executors
  disabled     \* _disabled_names

toolVars == <<registered, disabled>>

ToolTypeOK == registered \subseteq Tool /\ disabled \subseteq Tool

ToolInit == registered \in Builtin /\ disabled = {}

-----------------------------------------------------------------------------
(* The registry, as plugins and the HTTP interface change it. *)

Register(t) ==
  /\ t \notin registered
  /\ registered' = registered \cup {t}
  /\ UNCHANGED disabled

Unregister(t) ==
  /\ t \in registered
  /\ registered' = registered \ {t}
  /\ disabled' = disabled \ {t}

SetEnabled(t, enabled) ==
  /\ t \in registered
  /\ disabled' = IF enabled THEN disabled \ {t} ELSE disabled \cup {t}
  /\ UNCHANGED registered

ChangeTools == \E t \in Tool :
  \/ Register(t)
  \/ Unregister(t)
  \/ \E enabled \in BOOLEAN : SetEnabled(t, enabled)

-----------------------------------------------------------------------------
(* Skills.  A request names required skills and says how many triggers of  *)
(* each skill its text holds.                                              *)

Candidates(request) ==
  {s \in Skill : SkillOf[s].enabled /\ (s \in request.required \/ request.triggers[s] > 0)}

Score(request, s) ==
  SkillOf[s].priority + IF s \in request.required THEN 1000 ELSE request.triggers[s]

Before(request, s, t) ==
  \/ Score(request, s) > Score(request, t)
  \/ /\ Score(request, s) = Score(request, t)
     /\ \/ SkillOf[s].priority > SkillOf[t].priority
        \/ SkillOf[s].priority = SkillOf[t].priority /\ s > t

Selected(request) ==
  {t \in Candidates(request) :
     Cardinality({s \in Candidates(request) : Before(request, s, t)}) < request.maxSkills}

SkillTools(request) ==
  IF HasSkills THEN UNION {SkillOf[s].tools : s \in Selected(request)} ELSE Tool

-----------------------------------------------------------------------------
(* The policy. *)

\* Faulty: the names in the request replace those of its policy.
EffectiveReplacing(request) ==
  [request.policy EXCEPT !.allowed = request.names \cap SkillTools(request)]

\* build_effective_tool_execution_policy
Effective(request) ==
  [request.policy EXCEPT !.allowed = @ \cap request.names \cap SkillTools(request)]

\* enforce_tool_execution_policy raises nothing
Permits(policy, t) ==
  /\ t \in policy.allowed
  /\ t \notin policy.denied
  /\ Profile[t].sandbox => SandboxAvailable \/ policy.bypass
  /\ Profile[t].permissions \subseteq policy.permissions
  /\ Profile[t].risk <= policy.maxRisk

\* list_enabled_definitions and filter_tool_definitions_for_policy
Usable(policy) == {t \in registered \ disabled : Permits(policy, t)}

\* What execute does with a call before it runs it: "missing" and "invalid" raise an
\* error that ends the chat, "refused" one that is told to the model.
Verdict(policy, call) ==
  CASE call.tool \notin registered -> "missing"
    [] call.tool \in registered /\ (call.tool \in disabled \/ ~ Permits(policy, call.tool)) -> "refused"
    [] call.tool \in Usable(policy) /\ ~ call.valid -> "invalid"
    [] OTHER -> "runs"

Sandboxed(policy, t) == Profile[t].sandbox /\ SandboxAvailable /\ ~ policy.bypass

=============================================================================
