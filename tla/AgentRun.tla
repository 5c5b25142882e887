-------------------------------- MODULE AgentRun --------------------------------
(***************************************************************************)
(* AgentLoop with what it leaves out: the tools an agent is offered        *)
(* (ToolUse, which plugins change while it runs), the plans of             *)
(* application/agent/planner.py and the deviations that replace them, the  *)
(* context a run starts from, and the snapshot it leaves to the next one.  *)
(*                                                                         *)
(* An objective is the set of those words in it that the planner looks     *)
(* for; of a plan only the tools that its steps expect are kept.  What     *)
(* models reply is external: any calls, any plan, or none that can be      *)
(* read.  The tools of one step are called in one step of the model.       *)
(***************************************************************************)
EXTENDS AgentLoop, ToolUse, SequencesExt

CONSTANTS
  Asked,          \* bound: the rest of the requests, beside their limits
  Limits,         \* bound: the limits of the requests
  SearchMemory,   \* the tool that memory is retrieved with
  MaxOutput,      \* max_output_chars of that tool
  MaxObjectives,  \* max_objectives of a request
  MaxChanges,     \* bound: changes of the registered tools
  Obedient        \* models that are offered no tools call none

Words == {"memory", "tool"}
NoGoal == {"none"}
Unlimited == -1
Junk == {"junk"}

ASSUME AgentRunAssumption ==
  /\ Asked \subseteq
       [goal : SUBSET Words \cup {NoGoal}, memory : {"off", "lenient", "strict"},
        mode : {"rules", "llm"}, budget : Nat \cup {Unlimited}, chars : Nat,
        names : SUBSET Tool, selected : SUBSET Tool, excluded : SUBSET Tool,
        policy : [allowed : SUBSET Tool, denied : SUBSET Tool, permissions : SUBSET Permission,
                  maxRisk : Risk, bypass : BOOLEAN],
        required : SUBSET Skill, triggers : [Skill -> Nat], maxSkills : Nat]
  /\ SearchMemory \in Tool /\ MaxOutput \in Nat
  /\ MaxObjectives \in 1 .. MaxPlan
  /\ MaxChanges \in Nat /\ Obedient \in BOOLEAN

VARIABLES
  asked,     \* the rest of the request
  history,   \* the messages of the session's latest snapshot
  policy,    \* tool_execution_policy
  offered,   \* the names of tools
  agenda,    \* plan.steps: the tools each step expects
  window,    \* context_window
  opening,   \* the messages of the first request
  steps,     \* the AgentSteps
  saved,     \* the messages in the snapshot the run saved, <<>> while there is none
  metadata,  \* of that snapshot
  changes

runVars == <<asked, history, policy, offered, agenda, window, opening, steps, saved, metadata, changes>>

Said(role, n) == [role |-> role, n |-> n]

\* What runs leave behind: nothing yet, a plain turn, a turn with a tool call.
Histories ==
  {<<>>, <<Said("user", 0), Said("assistant", 0)>>,
   <<Said("user", 0), Said("assistant", 1), Said("tool", 1), Said("assistant", 0)>>}

-----------------------------------------------------------------------------
(* What precedes the loop. *)

\* build_effective_tool_execution_policy over the names a run constrains it by
AgentPolicy(request_) ==
  [Effective(request_) EXCEPT !.allowed = @ \cap request_.selected,
                              !.denied = @ \cup request_.excluded]

\* _memory_query of the planner
HasQuery == asked.memory # "off" /\ asked.goal # NoGoal

\* _step_tool_names
StepTools(objective, tools) ==
  IF HasQuery /\ "memory" \in objective /\ SearchMemory \in tools THEN {SearchMemory}
  ELSE IF "tool" \in objective THEN tools ELSE {}

\* _build_plan_steps
StepsFor(objectives, tools) == [i \in DOMAIN objectives |-> StepTools(objectives[i], tools)]

UpTo(s, n) == SubSeq(s, 1, Smaller(Len(s), n))

\* _build_plan_objectives
Objectives ==
  UpTo((IF asked.goal = NoGoal THEN <<>> ELSE <<asked.goal>>) \o <<{}, {"tool"}, {"memory"}, {}>>,
       MaxObjectives)

\* _payload_plan_steps: cut first, then what is not a step is skipped
StepsRead(raw, tools) ==
  LET read == SelectSeq(UpTo(raw, MaxPlan), LAMBDA s : s # Junk)
  IN  [i \in DOMAIN read |-> read[i] \cap tools]

\* The objectives and steps a planner's reply may hold; a reply that cannot be read has
\* neither.
Payloads ==
  [objectives : BoundedSeq({{}, {"tool"}}, 1),
   steps : BoundedSeq({Junk} \cup SUBSET Tool, MaxPlan)]

\* _llm_response_to_plan, with build_plan as its fallback
PlanRead(payload, tools) ==
  LET read == StepsRead(payload.steps, tools)
      objectives == UpTo(payload.objectives, MaxObjectives)
  IN  IF read # <<>> THEN read
      ELSE IF objectives # <<>> THEN UpTo(StepsFor(objectives, tools), MaxPlan)
      ELSE StepsFor(Objectives, tools)

\* build_plan and build_plan_with_model
Plans(tools) ==
  IF asked.mode = "rules" THEN {StepsFor(Objectives, tools)}
  ELSE {PlanRead(payload, tools) : payload \in Payloads}

\* select_context_items_within_budget: a message that does not fit is skipped, and a
\* shorter one behind it is kept.  A message with calls is as long as two others.
Tokens(m) == IF m.role = "assistant" /\ m.n > 0 THEN 2 ELSE 1

Within(messages_, budget) ==
  LET kept[i \in 0 .. Len(messages_)] ==
        IF i = 0 THEN [list |-> <<>>, used |-> 0]
        ELSE LET before == kept[i - 1]
                 used == before.used + Tokens(messages_[i])
             IN  IF used > budget THEN before
                 ELSE [list |-> Append(before.list, messages_[i]), used |-> used]
  IN  IF budget = Unlimited THEN messages_ ELSE kept[Len(messages_)].list

\* _tool_result_max_chars: results are cut to the smaller of the limits of the request and
\* of the tool.
MaxChars(limit) == Smaller(limit, MaxOutput)

\* _truncate_tool_result, of what is that long
Cut(size) == Smaller(size, MaxChars(asked.chars))

\* _truncate_result_size: the tool's own limit, as the manager applies it before
Reported(size) == Smaller(size, MaxOutput)

\* _memory_result_to_context_segment: a result that was cut cannot be read.  One that holds
\* memories is of two characters, one without is of one.
CanRead(size) == Cut(Reported(size)) = size

\* _retrieve_memory_context, when it does not raise
Memories(policy_) ==
  IF /\ HasQuery /\ SearchMemory \in registered
     /\ Verdict(policy_, [tool |-> SearchMemory, valid |-> TRUE]) = "runs" /\ CanRead(2)
  THEN {<<>>, <<Said("system", 0)>>} ELSE {<<>>}

MemoryIsRequired(policy_) ==
  /\ asked.memory = "strict"
  /\ \/ SearchMemory \notin registered
     \/ HasQuery /\ Verdict(policy_, [tool |-> SearchMemory, valid |-> TRUE]) # "runs"
     \/ HasQuery /\ ~ CanRead(1)

\* _build_initial_messages: the goal, or the messages of the request
InitialMessages == <<Said("user", 0)>>

\* _list_tool_definitions and _build_provider_request
Offer(policy_) == Usable(policy_)

\* _build_skill_bundle
SkillBundle == IF HasSkills THEN Selected(asked) ELSE {}

SkillMessage == IF SkillBundle # {} THEN <<Said("system", 0)>> ELSE <<>>

PlanMessage == IF request.planning THEN <<Said("system", 0)>> ELSE <<>>

ProviderMessages(window_) == SkillMessage \o PlanMessage \o window_

\* _build_context
BuiltContext == Within(history \o InitialMessages, asked.budget)

\* _append_context_segments: what was retrieved stands outside the budget
WithSegments(segments) == BuiltContext \o segments

Prepare ==
  /\ MakePlan
  /\ policy' = AgentPolicy(asked)
  /\ ~ MemoryIsRequired(policy')
  /\ offered' = Offer(policy')
  /\ agenda' \in IF request.planning THEN Plans(offered') ELSE {<<>>}
  /\ plan'.steps = Len(agenda')
  /\ \E memory \in Memories(policy') : window' = WithSegments(memory)
  /\ opening' = ProviderMessages(window')
  /\ UNCHANGED <<toolVars, asked, history, steps, saved, metadata, changes>>

-----------------------------------------------------------------------------
(* A round. *)

Outcomes == {"ok", "failed", "changed"}

Runs(name) == Verdict(policy, [tool |-> name, valid |-> TRUE]) = "runs"

\* _tool_limit_result
LimitResult == "failed"

\* _execute_tool_calls: a call that is refused, or raises, has failed, like one beyond the
\* limits.
Results(calls) ==
  {o \in [DOMAIN calls -> Outcomes] :
     \A i \in DOMAIN o :
       IF i > Executable(Len(calls)) THEN o[i] = LimitResult
       ELSE Runs(calls[i]) \/ o[i] = "failed"}

\* _plan_execution_deviation_reason beyond the plan's end and the limit
Deviates(expected, calls, results) ==
  \/ \E i \in DOMAIN results : results[i] = "failed"
  \/ \E i \in DOMAIN calls : calls[i] \notin expected
  \/ expected # {} /\ calls = <<>>

\* _tool_results_changed_assumptions
Changed(results) == \E i \in DOMAIN results : results[i] = "changed"

Expected ==
  IF PlanIsFollowed /\ ~ PlanIsExhausted THEN agenda[index - plan.start + 1] ELSE {}

\* _plan_execution_status
Status(calls, results) ==
  IF ~ PlanIsFollowed THEN "untracked"
  ELSE IF PlanIsExhausted THEN "unplanned"
  ELSE IF Executable(Len(calls)) < Len(calls) \/ Deviates(Expected, calls, results) THEN "deviated"
  ELSE IF calls # <<>> THEN "in_progress" ELSE "completed"

\* The message of a step holds said calls; calls of them count, and each has a result.
AgentStep(said, calls, good, status) ==
  [said |-> said, calls |-> calls, good |-> good, status |-> status, again |-> FALSE]

Respond ==
  \E calls \in BoundedSeq(Tool, MaxCalls) : \E results \in Results(calls) :
    /\ Round(Len(calls), Deviates(Expected, calls, results) \/ Changed(results))
    /\ steps' = Append(steps,
                      AgentStep(Len(calls), Len(calls),
                                Cardinality({i \in DOMAIN results : results[i] # "failed"}),
                                Status(calls, results)))
    /\ UNCHANGED <<toolVars, asked, history, policy, offered, agenda, window, opening, saved,
                   metadata, changes>>

\* Faulty: a step's message is kept, its results are not.
TraceOfReplies == [i \in DOMAIN steps |-> Said("assistant", steps[i].said)]

\* _append_agent_trace_segment
Trace ==
  FlattenSeq([i \in DOMAIN steps |->
    <<Said("assistant", steps[i].said)>> \o [j \in 1 .. steps[i].calls |-> Said("tool", j)]])

\* _build_context_snapshot
Snapshot == window \o Trace

\* The sum of numbers of calls, which MaxCalls bounds, as a count of pairs.
Total(numbers) ==
  Cardinality({x \in (DOMAIN numbers) \X (1 .. MaxCalls) : x[2] <= numbers[x[1]]})

\* The steps that a new plan was made for.
Replans == Cardinality({i \in DOMAIN steps : steps[i].again})

\* Faulty: of the calls that were skipped, none counts.
RunMetadataOfExecuted(completed, stop_reason) ==
  [completed |-> completed, stop_reason |-> stop_reason,
   step_count |-> Len(steps),
   tool_call_count |-> executed,
   tool_error_count |-> executed - Total([i \in DOMAIN steps |-> steps[i].good]),
   replan_count |-> Replans]

\* _build_run_metadata
RunMetadata(completed, stop_reason) ==
  [completed |-> completed, stop_reason |-> stop_reason,
   step_count |-> Len(steps),
   tool_call_count |-> Total([i \in DOMAIN steps |-> steps[i].calls]),
   tool_error_count |-> Total([i \in DOMAIN steps |-> steps[i].calls - steps[i].good]),
   replan_count |-> Replans]

Break ==
  /\ RoundFails
  /\ IF snapshots' > snapshots THEN saved' = Snapshot /\ metadata' = <<>>
                               ELSE UNCHANGED <<saved, metadata>>
  /\ UNCHANGED <<toolVars, asked, history, policy, offered, agenda, window, opening, steps, changes>>

ReplanFor ==
  /\ Replan
  /\ agenda' \in Plans(offered)
  /\ plan'.steps = Len(agenda')
  /\ steps' = [steps EXCEPT ![Len(steps)].again = TRUE]
  /\ UNCHANGED <<toolVars, asked, history, policy, offered, window, opening, saved, metadata, changes>>

\* _ensure_max_steps_final_response and _ensure_tool_limit_final_response: a reply with a
\* text loses its calls, the message in it does not; one without is replaced.
Conclude ==
  /\ Finalize
  /\ \E said \in IF Obedient THEN {0} ELSE 0 .. MaxCalls :
       steps' = Append(steps, AgentStep(said, 0, 0, IF PlanIsFollowed THEN "finalizing" ELSE "untracked"))
  /\ UNCHANGED <<toolVars, asked, history, policy, offered, agenda, window, opening, saved,
                 metadata, changes>>

Keep ==
  /\ Save
  /\ saved' = Snapshot
  /\ metadata' = RunMetadata(IF result.reason = "final_response" THEN "yes" ELSE "no", result.reason)
  /\ UNCHANGED <<toolVars, asked, history, policy, offered, agenda, window, opening, steps, changes>>

GoOn ==
  /\ \/ PrepareFails \/ ReplanFails \/ Answer \/ StopAtLimit \/ NextRound
     \/ FinalizeFails \/ SaveFails
  /\ UNCHANGED <<toolVars, runVars>>

\* Plugins and the HTTP interface, while the run awaits something.
ToolsChange ==
  /\ at \in {"planning", "looping"} /\ changes < MaxChanges
  /\ ChangeTools
  /\ changes' = changes + 1
  /\ UNCHANGED <<vars, asked, history, policy, offered, agenda, window, opening, steps, saved, metadata>>

-----------------------------------------------------------------------------
(* Properties. *)

\* Every call is followed by its result, every result follows its call.
Paired(m) ==
  \A i \in DOMAIN m :
    /\ m[i].role = "assistant" =>
         \A j \in 1 .. m[i].n : i + j \in DOMAIN m /\ m[i + j] = Said("tool", j)
    /\ m[i].role = "tool" => i > m[i].n /\ m[i - m[i].n] = Said("assistant", m[i - m[i].n].n)

\* The messages that are not the loop's own.
Spoken == FlattenSeq([i \in DOMAIN messages |->
            IF messages[i].role = "system" THEN <<>> ELSE <<messages[i]>>])

\* What a run leaves behind, however it ended, is the conversation it had with the
\* model, from which the next run can go on: the snapshot is made from the list of
\* steps, the requests from the messages appended round by round, and the two agree
\* but for the last reply; no call in it lacks its result, nor in any request, with the
\* history it opens with, if the window was not cut.
HistoryGoesOn ==
  /\ saved # <<>> =>
       /\ Len(Trace) - Len(Spoken) \in {0, 1} /\ SubSeq(Trace, 1, Len(Spoken)) = Spoken
       /\ asked.budget = Unlimited => Paired(saved)
  /\ at \in {"looping", "finalizing"} /\ asked.budget = Unlimited => Paired(opening \o messages)

\* _history_item_from_snapshot: what the history of runs tells.  What is not in the
\* metadata is read as a default, as in the snapshot of a run that was broken off.
Told(field) ==
  IF field \in DOMAIN metadata THEN metadata[field]
  ELSE IF field = "completed" THEN "unknown" ELSE IF field = "stop_reason" THEN "-" ELSE 0

\* _agent_trace_items
TraceItems == Len(saved) - Len(window)

\* What the history tells of a run that ended is what it did, although it is counted from
\* the steps and the run went by counters of its own: each call of the provider is a
\* step, each tool call counts once, skipped or not, and has one result, which is no success
\* if it was skipped, and each new plan is in the step that caused it.  A run that was broken
\* off shows its trace and nothing else.
RecordIsTrue ==
  /\ at = "done" =>
       /\ Told("step_count") = chats
       /\ Told("tool_call_count") = charged
       /\ Told("tool_error_count") \in charged - executed .. charged
       /\ Told("replan_count") = replanCount
       /\ Told("stop_reason") = result.reason
       /\ Told("completed") = "yes" => Last(steps).calls = 0 /\ Last(steps).status # "finalizing"
       /\ TraceItems = chats + charged
  /\ at = "failed" /\ saved # <<>> =>
       /\ Told("completed") = "unknown" /\ Told("step_count") = 0
       /\ TraceItems = chats - 1 + charged

-----------------------------------------------------------------------------
RunInit ==
  /\ Init /\ request \in Limits
  /\ ToolInit
  /\ asked \in Asked
  /\ history \in Histories
  /\ policy = asked.policy /\ offered = {} /\ agenda = <<>> /\ window = <<>>
  /\ opening = <<>> /\ steps = <<>> /\ saved = <<>> /\ metadata = <<>> /\ changes = 0

Step == Prepare \/ Respond \/ Break \/ ReplanFor \/ Conclude \/ Keep \/ GoOn
RunNext == Step \/ ToolsChange

allVars == <<vars, toolVars, runVars>>
RunSpec == RunInit /\ [][RunNext]_allVars /\ WF_allVars(Step)

=============================================================================
