------------------------------- MODULE AgentLoop -------------------------------
(***************************************************************************)
(* One run of the agent loop (application/agent/orchestrator.py): the      *)
(* model answers, its tool calls are executed as far as the limits of the  *)
(* request allow, a plan is followed and perhaps replaced, and the run     *)
(* ends with an answer, at a limit, or with an exception.                  *)
(*                                                                         *)
(* The provider is free to answer with any number of tool calls and tools  *)
(* are free to fail or to ask for a new plan.  Messages are reduced to     *)
(* their role and to the calls they make or answer; names of tools and     *)
(* texts matter only where the code compares them, as a deviation from the *)
(* plan.  A request leaves its limits unset by making them larger than any *)
(* number of calls the run can make.  The context manager is configured;   *)
(* calls that only plan are not counted.  Module AgentRun adds the tools,  *)
(* the plans, the context and the snapshot.                                *)
(***************************************************************************)
EXTENDS Naturals, Sequences

CONSTANTS
  MaxSteps,     \* bound: max_steps of a request
  MaxCalls,     \* bound: tool calls in one response
  MaxReplans,   \* bound: max_replans of a request
  MaxPlan       \* max_plan_steps

ASSUME AgentAssumption ==
  /\ MaxSteps \in Nat \ {0} /\ MaxCalls \in Nat
  /\ MaxReplans \in Nat /\ MaxPlan \in Nat \ {0}

VARIABLES
  request,      \* the AgentRunRequest
  at,           \* where run stands
  index,        \* the loop's index
  plan,         \* its number of steps, and the step index it starts from
  replanCount,
  messages,     \* current_request.messages, from the first response on
  charged,      \* total_tool_calls
  executed,     \* tool calls that were executed
  step,         \* the last step: its tool calls, tool_limit_exceeded, replan reasons
  chats,        \* calls of the provider
  result,       \* stop_reason and the tool calls of the response that is returned
  snapshots     \* what the context manager was asked to save

vars == <<request, at, index, plan, replanCount, messages, charged, executed, step,
          chats, result, snapshots>>

Limit == 1 .. MaxSteps * MaxCalls + 1
NoPlan == [steps |-> 0, start |-> 0]
NoStep == [calls |-> 0, limited |-> FALSE, reasons |-> FALSE]
NoResult == [reason |-> "none", calls |-> 0]

Message == [role : {"assistant", "tool", "system"}, n : 0 .. MaxCalls]

TypeOK ==
  /\ request \in [max_steps : 1 .. MaxSteps, per_step : Limit, total : Limit,
                  max_replans : 0 .. MaxReplans, planning : BOOLEAN, replanning : BOOLEAN]
  /\ at \in {"planning", "looping", "deciding", "finalizing", "saving", "done", "failed"}
  /\ index \in 0 .. MaxSteps
  /\ plan \in [steps : 0 .. MaxPlan, start : 0 .. MaxSteps]
  /\ replanCount \in 0 .. MaxReplans
  /\ messages \in Seq(Message)
  /\ charged \in Nat /\ executed \in Nat
  /\ step \in [calls : 0 .. MaxCalls, limited : BOOLEAN, reasons : BOOLEAN]
  /\ chats \in Nat
  /\ result \in [reason : {"none", "final_response", "tool_limit", "max_steps"},
                 calls : 0 .. MaxCalls]
  /\ snapshots \in Nat

Init ==
  /\ request \in [max_steps : 1 .. MaxSteps, per_step : Limit, total : Limit,
                  max_replans : 0 .. MaxReplans, planning : BOOLEAN, replanning : BOOLEAN]
  /\ at = "planning"
  /\ index = 0 /\ plan = NoPlan /\ replanCount = 0
  /\ messages = <<>>
  /\ charged = 0 /\ executed = 0
  /\ step = NoStep
  /\ chats = 0
  /\ result = NoResult
  /\ snapshots = 0

Smaller(m, n) == IF m < n THEN m ELSE n

-----------------------------------------------------------------------------
\* _build_agent_plan, when planning is enabled; an LLM planner that fails is
\* replaced by the rules, and both give a plan at least one step.
MakePlan ==
  /\ at = "planning"
  /\ at' = "looping"
  /\ IF request.planning THEN plan' \in [steps : 1 .. MaxPlan, start : {0}] ELSE plan' = NoPlan
  /\ UNCHANGED <<request, index, replanCount, messages, charged, executed, step, chats,
                 result, snapshots>>

\* What precedes the loop raises: the provider is unknown, the history cannot be read, a
\* message cannot be counted, memory that is required is not there.  Nothing is saved.
PrepareFails ==
  /\ at = "planning"
  /\ at' = "failed"
  /\ UNCHANGED <<request, index, plan, replanCount, messages, charged, executed, step, chats,
                 result, snapshots>>

\* Faulty: the limit of the run is compared with each response alone.
ExecutableAnew(k) == Smaller(Smaller(k, request.per_step), request.total)

\* _split_tool_calls_for_limits: how many of k calls are executed
Executable(k) ==
  Smaller(Smaller(k, request.per_step),
          IF request.total > charged THEN request.total - charged ELSE 0)

PlanIsFollowed == plan.steps > 0
PlanIsExhausted == index - plan.start >= plan.steps

\* _replan_reasons_from_step is not empty.  The plan's end comes before the limit in
\* _plan_execution_deviation_reason, and the limit silences the reasons after it: a
\* failed tool, an unexpected or a missing call, a tool that changed an assumption.
ReplanReasons(limited, trouble) ==
  PlanIsFollowed /\ (PlanIsExhausted \/ (~limited /\ trouble))

\* One round of the loop: the response has k tool calls; trouble says that one of
\* them failed, or anything else calls for a new plan.
Round(k, trouble) ==
  /\ at = "looping"
  /\ at' = "deciding"
  /\ chats' = chats + 1
  /\ executed' = executed + Executable(k)
  /\ charged' = charged + k
  /\ step' = [calls |-> k, limited |-> Executable(k) < k,
              reasons |-> ReplanReasons(Executable(k) < k, trouble)]
  /\ UNCHANGED <<request, index, plan, replanCount, messages, result, snapshots>>

\* The provider or a middleware raises: the steps so far are saved, if saving works.
RoundFails ==
  /\ at = "looping"
  /\ at' = "failed"
  /\ chats' = chats + 1
  /\ snapshots' \in {snapshots, snapshots + 1}
  /\ UNCHANGED <<request, index, plan, replanCount, messages, charged, executed, step, result>>

\* _response_to_assistant_message
AssistantMessage == [role |-> "assistant", n |-> step.calls]

\* _tool_result_to_message
ToolMessage(i) == [role |-> "tool", n |-> i]

\* Faulty: calls beyond the limit get no result.
FeedbackOfExecuted ==
  <<AssistantMessage>>
    \o IF step.limited THEN <<>> ELSE [i \in 1 .. step.calls |-> ToolMessage(i)]

\* _append_tool_feedback_messages: executed or skipped, every call has a result
Feedback == <<AssistantMessage>> \o [i \in 1 .. step.calls |-> ToolMessage(i)]

\* _build_replanning_message, and the request for a final response
Notice == [role |-> "system", n |-> 0]

MayReplan ==
  /\ request.planning /\ request.replanning
  /\ step.reasons
  /\ replanCount < request.max_replans

\* After the last round the response that is left over is answered or returned.
Continue ==
  /\ index' = index + 1
  /\ at' = IF index + 1 < request.max_steps THEN "looping"
           ELSE IF step.calls > 0 THEN "finalizing" ELSE "saving"
  /\ result' = IF index + 1 < request.max_steps THEN result
               ELSE [reason |-> "max_steps", calls |-> step.calls]

\* Faulty: each new plan judges the same response again and is not counted.
ReplanUntilItFits ==
  /\ at = "deciding" /\ MayReplan
  /\ plan' \in [steps : 1 .. MaxPlan, start : {index + 1}]
  /\ UNCHANGED <<request, at, index, replanCount, messages, charged, executed, step,
                 chats, result, snapshots>>

Replan ==
  /\ at = "deciding" /\ MayReplan
  /\ plan' \in [steps : 1 .. MaxPlan, start : {index + 1}]
  /\ replanCount' = replanCount + 1
  /\ messages' = messages \o Feedback \o <<Notice>>
  /\ Continue
  /\ UNCHANGED <<request, charged, executed, step, chats, snapshots>>

\* The planner's provider is gone: nothing is saved.
ReplanFails ==
  /\ at = "deciding" /\ MayReplan
  /\ at' = "failed"
  /\ UNCHANGED <<request, index, plan, replanCount, messages, charged, executed, step,
                 chats, result, snapshots>>

Answer ==
  /\ at = "deciding" /\ ~MayReplan
  /\ step.calls = 0
  /\ at' = "saving"
  /\ result' = [reason |-> "final_response", calls |-> 0]
  /\ UNCHANGED <<request, index, plan, replanCount, messages, charged, executed, step,
                 chats, snapshots>>

StopAtLimit ==
  /\ at = "deciding" /\ ~MayReplan
  /\ step.limited
  /\ messages' = messages \o Feedback
  /\ at' = "finalizing"
  /\ result' = [reason |-> "tool_limit", calls |-> step.calls]
  /\ UNCHANGED <<request, index, plan, replanCount, charged, executed, step, chats, snapshots>>

NextRound ==
  /\ at = "deciding" /\ ~MayReplan
  /\ step.calls > 0 /\ ~step.limited
  /\ messages' = messages \o Feedback
  /\ Continue
  /\ UNCHANGED <<request, plan, replanCount, charged, executed, step, chats, snapshots>>

\* A last request without tools; calls the provider makes all the same are dropped.
Finalize ==
  /\ at = "finalizing"
  /\ at' = "saving"
  /\ chats' = chats + 1
  /\ messages' = Append(messages, Notice)
  /\ result' = [result EXCEPT !.calls = 0]
  /\ UNCHANGED <<request, index, plan, replanCount, charged, executed, step, snapshots>>

\* The provider raises: nothing is saved.
FinalizeFails ==
  /\ at = "finalizing"
  /\ at' = "failed"
  /\ chats' = chats + 1
  /\ UNCHANGED <<request, index, plan, replanCount, messages, charged, executed, step,
                 result, snapshots>>

Save ==
  /\ at = "saving"
  /\ at' = "done"
  /\ snapshots' = snapshots + 1
  /\ UNCHANGED <<request, index, plan, replanCount, messages, charged, executed, step,
                 chats, result>>

SaveFails ==
  /\ at = "saving"
  /\ at' = "failed"
  /\ UNCHANGED <<request, index, plan, replanCount, messages, charged, executed, step,
                 chats, result, snapshots>>

-----------------------------------------------------------------------------
Next ==
  \/ MakePlan \/ PrepareFails
  \/ \E k \in 0 .. MaxCalls, trouble \in BOOLEAN : Round(k, trouble)
  \/ RoundFails
  \/ Replan \/ ReplanFails \/ Answer \/ StopAtLimit \/ NextRound
  \/ Finalize \/ FinalizeFails
  \/ Save \/ SaveFails

Spec == Init /\ [][Next]_vars
FairSpec == Spec /\ WF_vars(Next)

-----------------------------------------------------------------------------
(* Properties. *)

\* The limits on tool calls hold for the whole run, replanned or not.
ToolBudget ==
  /\ executed <= request.total
  /\ executed <= request.per_step * (index + 1)

\* Whenever the provider is asked, each tool call of an earlier response is followed
\* by its result and each result follows its call, as chat APIs demand: also for
\* calls beyond a limit, and before the message of a new plan.
CallsAreAnswered ==
  at \in {"looping", "finalizing"} =>
    \A i \in DOMAIN messages :
      /\ messages[i].role = "assistant" =>
           \A j \in 1 .. messages[i].n :
             i + j \in DOMAIN messages /\ messages[i + j] = [role |-> "tool", n |-> j]
      /\ messages[i].role = "tool" =>
           i > messages[i].n /\ messages[i - messages[i].n].role = "assistant"

\* A run that ends hands out no tool calls, costs at most one call of the provider
\* more than max_steps, and has left exactly one snapshot.  A run stops at the limit on
\* tool calls only when its last step exceeded it.
EndsCleanly ==
  /\ chats <= request.max_steps + 1
  /\ at = "done" =>
       /\ result.reason # "none" /\ result.calls = 0
       /\ snapshots = 1
       /\ result.reason = "tool_limit" => step.limited

\* Every run ends.
Terminates == <>(at \in {"done", "failed"})

\* A round in which a tool-call limit was exceeded is the last one of its run.
LimitIsTerminal == step.limited => at # "looping"

=============================================================================
