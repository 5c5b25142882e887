------------------------------ MODULE MCAgentRun ------------------------------
(* AgentRun on small instances. *)
EXTENDS AgentRun

MCTool == {"search_memory", "act"}
MCProfile == [t \in MCTool |-> [risk |-> IF t = "act" THEN 1 ELSE 0, sandbox |-> FALSE, permissions |-> {}]]
MCSkillOf == [s \in {1} |-> [enabled |-> TRUE, priority |-> 0, tools |-> MCTool]]

Anything == [allowed |-> MCTool, denied |-> {}, permissions |-> {}, maxRisk |-> 4, bypass |-> FALSE]
Plain == [goal |-> {}, memory |-> "lenient", mode |-> "rules", budget |-> Unlimited, chars |-> 2,
          names |-> MCTool, selected |-> MCTool, excluded |-> {}, policy |-> Anything,
          required |-> {1}, triggers |-> [s \in {1} |-> 0], maxSkills |-> 1]

\* Rules and a model as the planner; a run that may not act, one whose window is cut, and one
\* for which no skill is selected, so that no tool is allowed.
MCAsked ==
  {[Plain EXCEPT !.goal = {"tool"}],
   [Plain EXCEPT !.goal = {"memory"}, !.memory = "strict"],
   [Plain EXCEPT !.mode = "llm", !.excluded = {"act"}, !.budget = 3, !.chars = 1],
   [Plain EXCEPT !.required = {}]}

\* Scarce and ample limits, with and without plans.
MCLimits ==
  [max_steps : {2}, per_step : {1, 2}, total : {1, 3}, max_replans : {1},
   planning : {TRUE}, replanning : {TRUE}]
  \cup [max_steps : {1, 3}, per_step : {2}, total : {4}, max_replans : {0},
        planning : BOOLEAN, replanning : {FALSE}]

=============================================================================
