----------------------------- MODULE AgentLoopProofs -----------------------------
(***************************************************************************)
(* The agent loop keeps to its limits and to the chat protocol, whatever   *)
(* the limits of the request are and whatever the model answers; and a run *)
(* with its tools, its plans and its context, which is a run of the loop,  *)
(* leaves a true record and a history that the next run can go on from.    *)
(*                                                                         *)
(* The inductive invariant of the loop, AgentInv, ties the counters to the *)
(* place where run stands (Counted), says of every place what the result   *)
(* will be (Concluded), and keeps the conversation well formed at every    *)
(* step, which is more than CallsAreAnswered asks: only the requests have  *)
(* to be.                                                                  *)
(* That of a run, RunInv, says what the steps add up to (Recorded), and    *)
(* that the trace made from them is what the messages hold, or one reply   *)
(* ahead (Placed).  Both are recomputed from whole lists where the loop    *)
(* counts and appends, so the lemmas before it say what one more step adds *)
(* to a sum, to a flattened sequence and to a selection; each is proved by *)
(* a least counterexample.                                                 *)
(***************************************************************************)
EXTENDS AgentRun, FiniteSetTheorems, SequenceTheorems, WellFoundedInduction, TLAPS

USE AgentAssumption

\* Each tool call of a message is followed by its result, each result follows its call.
WellFormed(m) ==
  \A i \in DOMAIN m :
    /\ m[i].role = "assistant" =>
         \A j \in 1 .. m[i].n :
           i + j \in DOMAIN m /\ m[i + j] = [role |-> "tool", n |-> j]
    /\ m[i].role = "tool" => i > m[i].n /\ m[i - m[i].n].role = "assistant"

\* Where run stands determines how often it has asked the provider and how many
\* tool calls it can have executed.
Counted ==
  /\ executed <= charged /\ executed <= request.total
  /\ at \in {"planning", "looping"} =>
       /\ index < request.max_steps
       /\ chats = index
       /\ executed <= request.per_step * index
  /\ at = "deciding" => index < request.max_steps /\ chats = index + 1
  /\ at = "finalizing" => chats <= request.max_steps
  /\ chats <= request.max_steps + 1
  /\ executed <= request.per_step * (index + 1)

Concluded ==
  /\ at \notin {"done", "failed"} => snapshots = 0
  /\ at = "done" => snapshots = 1
  /\ at = "finalizing" => result.reason # "none"
  /\ at \in {"saving", "done"} => result.reason # "none" /\ result.calls = 0
  /\ result.reason = "tool_limit" => step.limited /\ at \notin {"planning", "looping", "deciding"}

AgentInv == TypeOK /\ Counted /\ Concluded /\ WellFormed(messages)

-----------------------------------------------------------------------------
(* Conversations. *)

LEMMA FeedbackType ==
  ASSUME TypeOK
  PROVE  /\ Feedback \in Seq(Message)
         /\ Len(Feedback) = step.calls + 1
         /\ Feedback[1] = [role |-> "assistant", n |-> step.calls]
         /\ \A j \in 1 .. step.calls : Feedback[1 + j] = [role |-> "tool", n |-> j]
<1> DEFINE results == [i \in 1 .. step.calls |-> [role |-> "tool", n |-> i]]
<1> DEFINE call == [role |-> "assistant", n |-> step.calls]
<1>1. step.calls \in 0 .. MaxCalls /\ step.calls \in Nat
  BY DEF TypeOK
<1>2. \A i \in 1 .. step.calls : [role |-> "tool", n |-> i] \in Message
  BY <1>1 DEF Message
<1>3. results \in Seq(Message) /\ Len(results) = step.calls
  BY <1>1, <1>2
<1>4. call \in Message /\ <<call>> \in Seq(Message) /\ Len(<<call>>) = 1
  BY <1>1 DEF Message
<1>5. Feedback = <<call>> \o results
  BY DEF Feedback, AssistantMessage, ToolMessage
<1> HIDE DEF call
<1>6. \A j \in 1 .. step.calls : results[j] = [role |-> "tool", n |-> j]
  OBVIOUS
<1> HIDE DEF results
<1>7. /\ Feedback \in Seq(Message) /\ Len(Feedback) = step.calls + 1
      /\ Feedback[1] = call
      /\ \A j \in 1 .. step.calls : Feedback[1 + j] = results[j]
  <2>1. PICK c : c = <<call>>
    OBVIOUS
  <2>2. c \in Seq(Message) /\ Len(c) = 1 /\ c[1] = call
    BY <1>4, <2>1
  <2>3. Feedback = c \o results
    BY <1>5, <2>1
  <2>4. /\ Feedback \in Seq(Message) /\ Len(Feedback) = Len(c) + Len(results)
        /\ \A i \in 1 .. Len(c) + Len(results) :
             Feedback[i] = IF i <= Len(c) THEN c[i] ELSE results[i - Len(c)]
    BY <1>3, <2>2, <2>3, ConcatProperties
  <2>5. PICK k \in Nat : k = step.calls
    BY <1>1
  <2>6. \A j \in 1 .. k : 1 + j \in 1 .. 1 + k /\ ~ (1 + j <= 1) /\ (1 + j) - 1 = j
    OBVIOUS
  <2>7. 1 \in 1 .. 1 + k /\ 1 + k = k + 1
    OBVIOUS
  <2> QED
    BY <1>3, <2>2, <2>4, <2>5, <2>6, <2>7
<1>8. QED
  BY <1>6, <1>7 DEF call

LEMMA FeedbackWellFormed ==
  ASSUME TypeOK
  PROVE  WellFormed(Feedback)
<1>1. step.calls \in Nat
  BY DEF TypeOK
<1>2. SUFFICES ASSUME NEW i \in DOMAIN Feedback
               PROVE  /\ Feedback[i].role = "assistant" =>
                           \A j \in 1 .. Feedback[i].n :
                             /\ i + j \in DOMAIN Feedback
                             /\ Feedback[i + j] = [role |-> "tool", n |-> j]
                      /\ Feedback[i].role = "tool" =>
                           /\ i > Feedback[i].n
                           /\ Feedback[i - Feedback[i].n].role = "assistant"
  BY DEF WellFormed
<1>3. i \in 1 .. step.calls + 1 /\ DOMAIN Feedback = 1 .. step.calls + 1
  BY <1>1, FeedbackType
<1>4. CASE i = 1
  BY <1>1, <1>3, <1>4, FeedbackType
<1>5. CASE i # 1
  <2>1. i - 1 \in 1 .. step.calls /\ 1 + (i - 1) = i
    BY <1>1, <1>3, <1>5
  <2>2. Feedback[i] = [role |-> "tool", n |-> i - 1]
    BY <2>1, FeedbackType
  <2>3. Feedback[i].role = "tool" /\ Feedback[i].n = i - 1
    BY <2>2
  <2>4. i - Feedback[i].n = 1 /\ i > Feedback[i].n
    BY <1>1, <1>3, <2>3
  <2>5. Feedback[i - Feedback[i].n].role = "assistant"
    BY <2>4, FeedbackType
  <2>6. QED
    BY <2>3, <2>4, <2>5
<1>6. QED
  BY <1>4, <1>5

\* Messages of any role, with any number of calls.
Chat == [role : {"user", "assistant", "tool", "system"}, n : Nat]

LEMMA MessagesAreChats == Message \in SUBSET Chat
  BY DEF Message, Chat

LEMMA WellFormedConcat ==
  ASSUME NEW S \in SUBSET Chat, NEW m \in Seq(S), NEW f \in Seq(S), WellFormed(m), WellFormed(f)
  PROVE  m \o f \in Seq(S) /\ WellFormed(m \o f)
<1> DEFINE c == m \o f
<1>1. /\ c \in Seq(S) /\ Len(c) = Len(m) + Len(f)
      /\ DOMAIN c = 1 .. Len(m) + Len(f)
      /\ \A i \in 1 .. Len(m) : c[i] = m[i]
      /\ \A i \in 1 .. Len(f) : c[Len(m) + i] = f[i]
  OBVIOUS
<1>2. /\ Len(m) \in Nat /\ DOMAIN m = 1 .. Len(m) /\ Len(f) \in Nat /\ DOMAIN f = 1 .. Len(f)
      /\ \A i \in DOMAIN m : m[i].n \in Nat
      /\ \A i \in DOMAIN f : f[i].n \in Nat
  <2>1. \A x \in S : x.n \in Nat
    BY DEF Chat
  <2>2. /\ Len(m) \in Nat /\ DOMAIN m = 1 .. Len(m) /\ Len(f) \in Nat /\ DOMAIN f = 1 .. Len(f)
        /\ \A i \in DOMAIN m : m[i] \in S
        /\ \A i \in DOMAIN f : f[i] \in S
    OBVIOUS
  <2>3. QED
    BY <2>1, <2>2
<1> HIDE DEF c
<1>3. ASSUME NEW i \in DOMAIN c
      PROVE  /\ c[i].role = "assistant" =>
                  \A j \in 1 .. c[i].n : i + j \in DOMAIN c /\ c[i + j] = [role |-> "tool", n |-> j]
             /\ c[i].role = "tool" => i > c[i].n /\ c[i - c[i].n].role = "assistant"
  <2>1. CASE i \in 1 .. Len(m)
    <3>1. c[i] = m[i] /\ m[i].n \in Nat /\ i \in DOMAIN m
      BY <1>1, <1>2, <2>1
    <3>2. ASSUME m[i].role = "assistant", NEW j \in 1 .. m[i].n
          PROVE  i + j \in DOMAIN c /\ c[i + j] = [role |-> "tool", n |-> j]
      <4>1. i + j \in DOMAIN m /\ m[i + j] = [role |-> "tool", n |-> j]
        BY <3>1, <3>2 DEF WellFormed
      <4>2. QED
        BY <1>1, <1>2, <4>1
    <3>3. ASSUME m[i].role = "tool"
          PROVE  i > m[i].n /\ c[i - m[i].n].role = "assistant"
      <4>1. i > m[i].n /\ m[i - m[i].n].role = "assistant"
        BY <3>1, <3>3 DEF WellFormed
      <4>2. i - m[i].n \in 1 .. Len(m)
        BY <1>2, <3>1, <4>1
      <4>3. QED
        BY <1>1, <4>1, <4>2
    <3>4. QED
      BY <3>1, <3>2, <3>3
  <2>2. CASE i \notin 1 .. Len(m)
    <3> DEFINE k == i - Len(m)
    <3>1. k \in 1 .. Len(f) /\ k \in DOMAIN f /\ i = Len(m) + k /\ c[i] = f[k] /\ f[k].n \in Nat
      BY <1>1, <1>2, <2>2
    <3> HIDE DEF k
    <3>2. ASSUME f[k].role = "assistant", NEW j \in 1 .. f[k].n
          PROVE  i + j \in DOMAIN c /\ c[i + j] = [role |-> "tool", n |-> j]
      <4>1. k + j \in DOMAIN f /\ f[k + j] = [role |-> "tool", n |-> j]
        BY <3>1, <3>2 DEF WellFormed
      <4>2. i + j = Len(m) + (k + j)
        BY <1>2, <3>1
      <4>3. c[Len(m) + (k + j)] = f[k + j]
        BY <1>1, <1>2, <4>1
      <4>4. Len(m) + (k + j) \in DOMAIN c
        BY <1>1, <1>2, <4>1
      <4>5. QED
        BY <4>1, <4>2, <4>3, <4>4
    <3>3. ASSUME f[k].role = "tool"
          PROVE  i > f[k].n /\ c[i - f[k].n].role = "assistant"
      <4>1. k > f[k].n /\ f[k - f[k].n].role = "assistant"
        BY <3>1, <3>3 DEF WellFormed
      <4>2. k - f[k].n \in 1 .. Len(f) /\ i - f[k].n = Len(m) + (k - f[k].n)
        BY <1>2, <3>1, <4>1
      <4>3. c[Len(m) + (k - f[k].n)] = f[k - f[k].n]
        BY <1>1, <4>2
      <4>4. i > f[k].n
        BY <1>2, <3>1, <4>1
      <4>5. QED
        BY <4>1, <4>2, <4>3, <4>4
    <3>4. QED
      BY <3>1, <3>2, <3>3
  <2>3. QED
    BY <2>1, <2>2
<1>4. WellFormed(c)
  BY <1>3 DEF WellFormed
<1>5. QED
  BY <1>1, <1>4 DEF c

LEMMA SystemWellFormed ==
  /\ <<[role |-> "system", n |-> 0]>> \in Seq(Message)
  /\ WellFormed(<<[role |-> "system", n |-> 0]>>)
BY DEF WellFormed, Message

-----------------------------------------------------------------------------
(* The invariant. *)

LEMMA Executed ==
  ASSUME TypeOK, NEW k \in 0 .. MaxCalls
  PROVE  /\ Executable(k) \in Nat /\ Executable(k) <= k /\ Executable(k) <= request.per_step
         /\ executed <= charged /\ executed <= request.total =>
              executed + Executable(k) <= request.total
<1>1. /\ k \in Nat /\ charged \in Nat /\ executed \in Nat
      /\ request.per_step \in Nat /\ request.total \in Nat
  BY DEF TypeOK, Limit
<1>2. QED
  BY <1>1 DEF Executable, Smaller

LEMMA AgentInit == Init => AgentInv
<1> SUFFICES ASSUME Init PROVE AgentInv
  OBVIOUS
<1>1. TypeOK
  BY DEF Init, TypeOK, NoPlan, NoStep, NoResult, Limit, Message
<1>2. request.max_steps \in Nat \ {0} /\ request.total \in Nat /\ request.per_step \in Nat
  BY <1>1 DEF TypeOK, Limit
<1>3. Counted
  BY <1>2 DEF Init, Counted
<1>4. Concluded
  BY DEF Init, Concluded, NoResult
<1>5. WellFormed(messages)
  BY DEF Init, WellFormed
<1>6. QED
  BY <1>1, <1>3, <1>4, <1>5 DEF AgentInv

\* The types that the counting needs.
LEMMA Numbers ==
  ASSUME TypeOK
  PROVE  /\ request.max_steps \in Nat \ {0} /\ request.per_step \in Nat \ {0}
         /\ request.total \in Nat \ {0} /\ request.max_replans \in 0 .. MaxReplans
         /\ request.max_steps <= MaxSteps
         /\ index \in Nat /\ chats \in Nat /\ charged \in Nat /\ executed \in Nat
         /\ step.calls \in 0 .. MaxCalls /\ step.limited \in BOOLEAN
         /\ replanCount \in 0 .. MaxReplans
         /\ messages \in Seq(Message)
BY DEF TypeOK, Limit

LEMMA Distribute ==
  ASSUME NEW a \in Nat, NEW b \in Nat
  PROVE  a * (b + 1) = a * b + a /\ a * b \in Nat
OBVIOUS

LEMMA RoundStep ==
  ASSUME AgentInv, NEW k \in 0 .. MaxCalls, NEW trouble \in BOOLEAN, Round(k, trouble)
  PROVE  AgentInv'
<1>1. TypeOK /\ Counted /\ Concluded /\ WellFormed(messages)
  BY DEF AgentInv
<1>2. Executable(k) \in Nat /\ k \in Nat /\ Executable(k) <= k /\ Executable(k) <= request.per_step
  BY <1>1, Executed
<1>3. ReplanReasons(Executable(k) < k, trouble) \in BOOLEAN
  BY DEF ReplanReasons, PlanIsFollowed, PlanIsExhausted
<1>4. TypeOK'
  BY <1>1, <1>2, <1>3 DEF TypeOK, Round
<1>5. executed + Executable(k) <= request.total
  BY <1>1, Executed DEF Counted
<1>6. executed + Executable(k) <= request.per_step * (index + 1)
  <2>1. executed <= request.per_step * index
    BY <1>1 DEF Counted, Round
  <2>2. /\ request.per_step * (index + 1) = request.per_step * index + request.per_step
        /\ request.per_step * index \in Nat
    BY <1>1, Distribute, Numbers
  <2>3. executed \in Nat /\ request.per_step \in Nat
    BY <1>1, Numbers
  <2>4. QED
    BY <1>2, <2>1, <2>2, <2>3
<1>7. Counted'
  <2>1. /\ UNCHANGED <<request, index>> /\ at' = "deciding" /\ chats' = index + 1
        /\ executed' = executed + Executable(k) /\ charged' = charged + k
        /\ index < request.max_steps /\ executed <= charged
    BY <1>1 DEF Counted, Round
  <2>2. executed' <= charged'
    BY <1>1, <1>2, <2>1, Numbers
  <2>3. executed' <= request'.total /\ executed' <= request'.per_step * (index' + 1)
    BY <1>5, <1>6, <2>1
  <2>4. chats' <= request'.max_steps + 1
    <3>1. index \in Nat /\ request.max_steps \in Nat
      BY <1>1, Numbers
    <3>2. QED
      BY <2>1, <3>1
  <2>5. QED
    BY <2>1, <2>2, <2>3, <2>4 DEF Counted
<1>8. Concluded'
  BY <1>1 DEF Concluded, Round
<1>9. QED
  BY <1>1, <1>4, <1>7, <1>8 DEF AgentInv, Round, WellFormed

\* What Replan and NextRound have in common.
LEMMA ContinueStep ==
  ASSUME TypeOK, Counted, Concluded, at = "deciding", Continue,
         UNCHANGED <<request, charged, executed, step, chats, snapshots>>
  PROVE  /\ index' \in 0 .. MaxSteps
         /\ at' \in {"looping", "finalizing", "saving"}
         /\ result' \in [reason : {"none", "final_response", "tool_limit", "max_steps"},
                         calls : 0 .. MaxCalls]
         /\ Counted' /\ Concluded'
<1>1. index < request.max_steps /\ chats = index + 1
  BY DEF Counted
<1>2. /\ index' \in 0 .. MaxSteps
      /\ at' \in {"looping", "finalizing", "saving"}
  BY <1>1, Numbers DEF Continue
<1>3. result' \in [reason : {"none", "final_response", "tool_limit", "max_steps"},
                   calls : 0 .. MaxCalls]
  BY Numbers DEF Continue, TypeOK
<1>4. executed <= request.per_step * (index + 1 + 1)
  <2>1. index + 1 \in Nat /\ request.per_step \in Nat /\ executed \in Nat
    BY Numbers
  <2>2. /\ request.per_step * (index + 1 + 1) = request.per_step * (index + 1) + request.per_step
        /\ request.per_step * (index + 1) \in Nat
    BY <2>1, Distribute
  <2>3. executed <= request.per_step * (index + 1)
    BY DEF Counted
  <2>4. QED
    BY <2>1, <2>2, <2>3
<1>5. Counted'
  BY <1>1, <1>2, <1>4, Numbers DEF Counted, Continue
<1>6. Concluded'
  BY <1>1, Numbers DEF Concluded, Continue
<1>7. QED
  BY <1>2, <1>3, <1>5, <1>6

LEMMA LoopStep == AgentInv /\ [Next]_vars => AgentInv'
<1> SUFFICES ASSUME AgentInv, [Next]_vars PROVE AgentInv'
  OBVIOUS
<1>1. TypeOK /\ Counted /\ Concluded /\ WellFormed(messages)
  BY DEF AgentInv
<1>2. /\ Feedback \in Seq(Message) /\ WellFormed(Feedback)
      /\ messages \o Feedback \in Seq(Message) /\ WellFormed(messages \o Feedback)
  BY <1>1, FeedbackType, FeedbackWellFormed, MessagesAreChats, WellFormedConcat, Numbers
<1>3. CASE MakePlan
  <2>1. TypeOK'
    BY <1>1, <1>3 DEF TypeOK, MakePlan, NoPlan
  <2>2. Counted' /\ Concluded'
    BY <1>1, <1>3 DEF Counted, Concluded, MakePlan
  <2>3. QED
    BY <1>1, <1>3, <2>1, <2>2 DEF AgentInv, MakePlan, WellFormed
<1>4. CASE \E k \in 0 .. MaxCalls, trouble \in BOOLEAN : Round(k, trouble)
  BY <1>4, RoundStep
<1>5. CASE RoundFails
  <2>1. TypeOK'
    BY <1>1, <1>5 DEF TypeOK, RoundFails
  <2>2. Counted' /\ Concluded'
    BY <1>1, <1>5, Numbers DEF Counted, Concluded, RoundFails
  <2>3. QED
    BY <1>1, <1>5, <2>1, <2>2 DEF AgentInv, RoundFails, WellFormed
<1>6. CASE Replan
  <2>1. /\ index' \in 0 .. MaxSteps /\ at' \in {"looping", "finalizing", "saving"}
        /\ result' \in [reason : {"none", "final_response", "tool_limit", "max_steps"},
                        calls : 0 .. MaxCalls]
        /\ Counted' /\ Concluded'
    BY <1>1, <1>6, ContinueStep DEF Replan, Notice
  <2>2. messages' \in Seq(Message) /\ WellFormed(messages')
    BY <1>2, <1>6, SystemWellFormed, MessagesAreChats, WellFormedConcat DEF Replan, Notice
  <2>3. replanCount' \in 0 .. MaxReplans
    <3>1. replanCount < request.max_replans /\ replanCount' = replanCount + 1
      BY <1>6 DEF Replan, MayReplan, Notice
    <3>2. QED
      BY <1>1, <3>1, Numbers
  <2>4. plan' \in [steps : 0 .. MaxPlan, start : 0 .. MaxSteps]
    <3>1. index + 1 \in 0 .. MaxSteps
      BY <1>1, <1>6, Numbers DEF Replan, Counted, Notice
    <3>2. QED
      BY <1>6, <3>1 DEF Replan, Notice
  <2>5. TypeOK'
    BY <1>1, <1>6, <2>1, <2>2, <2>3, <2>4 DEF TypeOK, Replan, Notice
  <2>6. QED
    BY <2>1, <2>2, <2>5 DEF AgentInv, WellFormed
<1>7. CASE NextRound
  <2>1. /\ index' \in 0 .. MaxSteps /\ at' \in {"looping", "finalizing", "saving"}
        /\ result' \in [reason : {"none", "final_response", "tool_limit", "max_steps"},
                        calls : 0 .. MaxCalls]
        /\ Counted' /\ Concluded'
    BY <1>1, <1>7, ContinueStep DEF NextRound
  <2>2. TypeOK'
    BY <1>1, <1>2, <1>7, <2>1 DEF TypeOK, NextRound
  <2>3. QED
    <3>1. messages' = messages \o Feedback
      BY <1>7 DEF NextRound
    <3>2. WellFormed(messages')
      BY <1>2, <3>1
    <3>3. QED
      BY <2>1, <2>2, <3>2 DEF AgentInv, WellFormed
<1>8. CASE Answer
  <2>1. TypeOK'
    BY <1>1, <1>8 DEF TypeOK, Answer
  <2>2. Counted' /\ Concluded'
    BY <1>1, <1>8, Numbers DEF Counted, Concluded, Answer
  <2>3. QED
    BY <1>1, <1>8, <2>1, <2>2 DEF AgentInv, Answer, WellFormed
<1>9. CASE StopAtLimit
  <2>1. TypeOK'
    BY <1>1, <1>2, <1>9 DEF TypeOK, StopAtLimit
  <2>2. Counted' /\ Concluded'
    BY <1>1, <1>9, Numbers DEF Counted, Concluded, StopAtLimit
  <2>3. QED
    <3>1. messages' = messages \o Feedback
      BY <1>9 DEF StopAtLimit
    <3>2. WellFormed(messages')
      BY <1>2, <3>1
    <3>3. QED
      BY <2>1, <2>2, <3>2 DEF AgentInv, WellFormed
<1>10. CASE Finalize
  <2>1. messages' \in Seq(Message) /\ WellFormed(messages')
    <3>1. messages' = messages \o <<[role |-> "system", n |-> 0]>>
      <4>1. messages' = Append(messages, [role |-> "system", n |-> 0])
        BY <1>10 DEF Finalize, Notice
      <4>2. messages \in Seq(Message) /\ [role |-> "system", n |-> 0] \in Message
        BY <1>1, Numbers DEF Message
      <4>3. \A x \in Message : Append(messages, x) = messages \o <<x>>
        BY <4>2
      <4>4. QED
        BY <4>1, <4>2, <4>3
    <3>2. QED
      BY <1>1, <3>1, SystemWellFormed, MessagesAreChats, WellFormedConcat, Numbers
  <2>2. TypeOK'
    <3>1. result' \in [reason : {"none", "final_response", "tool_limit", "max_steps"},
                       calls : 0 .. MaxCalls]
      <4>1. /\ result' = [result EXCEPT !.calls = 0]
            /\ result \in [reason : {"none", "final_response", "tool_limit", "max_steps"},
                           calls : 0 .. MaxCalls]
        BY <1>1, <1>10 DEF TypeOK, Finalize, Notice
      <4>2. 0 \in 0 .. MaxCalls
        OBVIOUS
      <4>3. QED
        BY <4>1, <4>2
    <3>2. /\ at' = "saving" /\ chats' = chats + 1
          /\ UNCHANGED <<request, index, plan, replanCount, charged, executed, step, snapshots>>
      BY <1>10 DEF Finalize, Notice
    <3>3. QED
      BY <1>1, <2>1, <3>1, <3>2 DEF TypeOK
  <2>3. Counted' /\ Concluded'
    BY <1>1, <1>10, Numbers DEF Counted, Concluded, Finalize, TypeOK, Notice
  <2>4. QED
    BY <2>1, <2>2, <2>3 DEF AgentInv, WellFormed
<1>11. CASE ReplanFails
  <2>1. TypeOK'
    BY <1>1, <1>11 DEF TypeOK, ReplanFails
  <2>2. Counted' /\ Concluded'
    BY <1>1, <1>11, Numbers DEF Counted, Concluded, ReplanFails
  <2>3. QED
    BY <1>1, <1>11, <2>1, <2>2 DEF AgentInv, ReplanFails, WellFormed
<1>14. CASE Save
  <2>1. TypeOK'
    BY <1>1, <1>14 DEF TypeOK, Save
  <2>2. Counted' /\ Concluded'
    BY <1>1, <1>14, Numbers DEF Counted, Concluded, Save
  <2>3. QED
    BY <1>1, <1>14, <2>1, <2>2 DEF AgentInv, Save, WellFormed
<1>15. CASE SaveFails
  <2>1. TypeOK'
    BY <1>1, <1>15 DEF TypeOK, SaveFails
  <2>2. Counted' /\ Concluded'
    BY <1>1, <1>15, Numbers DEF Counted, Concluded, SaveFails
  <2>3. QED
    BY <1>1, <1>15, <2>1, <2>2 DEF AgentInv, SaveFails, WellFormed
<1>12. CASE FinalizeFails
  <2>1. TypeOK'
    BY <1>1, <1>12 DEF TypeOK, FinalizeFails
  <2>2. Counted' /\ Concluded'
    BY <1>1, <1>12, Numbers DEF Counted, Concluded, FinalizeFails
  <2>3. QED
    BY <1>1, <1>12, <2>1, <2>2 DEF AgentInv, FinalizeFails, WellFormed
<1>17. CASE PrepareFails
  BY <1>1, <1>17 DEF AgentInv, TypeOK, Counted, Concluded, WellFormed, PrepareFails
<1>13. CASE UNCHANGED vars
  BY <1>1, <1>13 DEF AgentInv, TypeOK, Counted, Concluded, WellFormed, vars
<1>16. QED
  BY <1>3, <1>4, <1>5, <1>6, <1>7, <1>8, <1>9, <1>10, <1>11, <1>12, <1>13, <1>14, <1>15, <1>17 DEF Next

LEMMA AgentInvariant == Spec => []AgentInv
<1>1. Init => AgentInv
  BY AgentInit
<1>2. AgentInv /\ [Next]_vars => AgentInv'
  BY LoopStep
<1> QED
  BY <1>1, <1>2, PTL DEF Spec

-----------------------------------------------------------------------------
\* Type correctness of a run; with it, a run never replans more than max_replans.
THEOREM AgentTypes == Spec => []TypeOK
<1>1. AgentInv => TypeOK
  BY DEF AgentInv
<1> QED
  BY <1>1, AgentInvariant, PTL

\* The limits on tool calls hold for the whole run (_split_tool_calls_for_limits),
\* since what is charged is never less than what is executed.
THEOREM ToolBudgetIsKept == Spec => []ToolBudget
<1>1. AgentInv => ToolBudget
  BY DEF AgentInv, Counted, ToolBudget
<1> QED
  BY <1>1, AgentInvariant, PTL

\* Each request that the loop sends to the provider is a conversation in which calls
\* and results match (_append_tool_feedback_messages, _append_replanning_message).
THEOREM ConversationsMatch == Spec => []CallsAreAnswered
<1>1. AgentInv => CallsAreAnswered
  BY DEF AgentInv, WellFormed, CallsAreAnswered
<1> QED
  BY <1>1, AgentInvariant, PTL

\* A run that ends returns no open tool calls, has asked the provider at most once more
\* than max_steps, and has saved one snapshot.
THEOREM RunsEndCleanly == Spec => []EndsCleanly
<1>1. AgentInv => EndsCleanly
  BY DEF AgentInv, Counted, Concluded, EndsCleanly
<1> QED
  BY <1>1, AgentInvariant, PTL

HIDE AgentAssumption

-----------------------------------------------------------------------------
(* Sequences. *)

\* Numbers have a least one: what stands for induction below.
LEMMA LeastNatural ==
  ASSUME NEW T, T \subseteq Nat, T # {}
  PROVE  \E x \in T : \A y \in T : x <= y
<1> DEFINE R == OpToRel(<, Nat)
<1>1. \A x, y \in Nat : y < x => <<y, x>> \in R
  BY DEF OpToRel
<1>2. \E x \in T : \A y \in T : ~ (<<y, x>> \in R)
  <2> HIDE DEF R
  <2>1. IsWellFoundedOn(R, Nat)
    BY NatLessThanWellFounded DEF R
  <2> QED
    BY <2>1, WFMin
<1> HIDE DEF R
<1>3. PICK x \in T : \A y \in T : ~ (<<y, x>> \in R)
  BY <1>2
<1>4. ASSUME NEW y \in T PROVE x <= y
  <2>1. ~ (y < x)
    BY <1>1, <1>3
  <2> QED
    BY <2>1
<1> QED
  BY <1>4

\* What agrees wherever it agreed before agrees everywhere.
Alike(f, g, n) == \A i \in 1 .. n : f[i] = g[i]

GoOnAlike(f, g, n) ==
  \A i \in 1 .. n : (\A j \in 1 .. n : j < i => f[j] = g[j]) => f[i] = g[i]

LEMMA Agree ==
  ASSUME NEW n \in Nat, NEW f, NEW g, GoOnAlike(f, g, n)
  PROVE  Alike(f, g, n)
<1> DEFINE Bad == {i \in 1 .. n : f[i] # g[i]}
<1> SUFFICES ASSUME Bad # {} PROVE FALSE
  BY DEF Alike
<1>1. PICK i \in Bad : \A j \in Bad : i <= j
  <2>1. Bad \subseteq Nat
    OBVIOUS
  <2> HIDE DEF Bad
  <2> QED
    BY <2>1, LeastNatural
<1>2. \A j \in 1 .. n : j < i => f[j] = g[j]
  BY <1>1
<1> QED
  BY <1>1, <1>2 DEF GoOnAlike

\* The function that F defines step by step.
Recursive(A, base, n, F) == n \in Nat /\ base \in A /\ F \in [1 .. n -> [A -> A]]

LEMMA Recursion ==
  ASSUME NEW A, NEW base, NEW n, NEW F, Recursive(A, base, n, F)
  PROVE  \E f \in [0 .. n -> A] : f[0] = base /\ \A i \in 1 .. n : f[i] = F[i][f[i - 1]]
<1> USE DEF Recursive
<1> DEFINE Good(k) == \E f \in [0 .. k -> A] :
                        f[0] = base /\ \A i \in 1 .. k : f[i] = F[i][f[i - 1]]
           Bad == {k \in 0 .. n : ~ Good(k)}
<1>1. Good(0)
  <2>1. PICK f : f = [i \in 0 .. 0 |-> base]
    OBVIOUS
  <2>2. f \in [0 .. 0 -> A] /\ f[0] = base
    BY <2>1
  <2>3. 1 .. 0 = {}
    OBVIOUS
  <2> QED
    BY <2>2, <2>3
<1>2. ASSUME NEW k \in 0 .. n, k < n, Good(k) PROVE Good(k + 1)
  <2>1. PICK f \in [0 .. k -> A] : f[0] = base /\ \A i \in 1 .. k : f[i] = F[i][f[i - 1]]
    BY <1>2
  <2>2. PICK l : l = k + 1
    OBVIOUS
  <2>3. /\ l \in 1 .. n /\ k \in 0 .. k /\ l - 1 = k /\ l # 0
        /\ \A i \in 0 .. l : i # l => i \in 0 .. k
        /\ \A i \in 1 .. l : i \in 0 .. l /\ i - 1 \in 0 .. k /\ i - 1 \in 0 .. l /\ i - 1 # l
                              /\ (i # l => i \in 1 .. k)
        /\ 0 \in 0 .. l
    BY <1>2, <2>2
  <2>4. PICK x : x = F[l][f[k]]
    OBVIOUS
  <2>5. x \in A
    BY <2>3, <2>4
  <2>6. PICK g : g = [i \in 0 .. l |-> IF i = l THEN x ELSE f[i]]
    OBVIOUS
  <2>7. g \in [0 .. l -> A] /\ g[0] = base
    BY <2>1, <2>3, <2>5, <2>6
  <2>8. ASSUME NEW i \in 1 .. l PROVE g[i] = F[i][g[i - 1]]
    <3>1. g[i - 1] = f[i - 1]
      BY <2>3, <2>6
    <3>2. CASE i = l
      BY <2>3, <2>4, <2>6, <3>1, <3>2
    <3>3. CASE i # l
      <4>1. g[i] = f[i]
        BY <2>3, <2>6, <3>3
      <4> QED
        BY <2>1, <2>3, <3>1, <3>3, <4>1
    <3> QED
      BY <3>2, <3>3
  <2>9. Good(l)
    BY <2>7, <2>8
  <2> QED
    BY <2>2, <2>9
<1>3. Bad = {}
  <2> SUFFICES ASSUME Bad # {} PROVE FALSE
    OBVIOUS
  <2>1. PICK k \in Bad : \A j \in Bad : k <= j
    <3>1. Bad \subseteq Nat
      OBVIOUS
    <3> HIDE DEF Bad
    <3> QED
      BY <3>1, LeastNatural
  <2>2. k \in 0 .. n /\ ~ Good(k)
    OBVIOUS
  <2> HIDE DEF Good
  <2>3. k # 0
    BY <1>1, <2>2
  <2>4. k - 1 \in 0 .. n /\ k - 1 < n /\ (k - 1) + 1 = k /\ ~ (k <= k - 1)
    BY <2>2, <2>3
  <2>5. Good(k - 1)
    BY <2>1, <2>4
  <2> QED
    BY <1>2, <2>2, <2>4, <2>5
<1>4. Good(n)
  <2> HIDE DEF Good
  <2>1. n \in 0 .. n
    OBVIOUS
  <2> QED
    BY <1>3, <2>1
<1> QED
  BY <1>4

\* What FlattenSeq computes, and what one more sequence adds to it.
LEMMA Flattens ==
  ASSUME NEW M, NEW s \in Seq(Seq(M)), s # <<>>
  PROVE  \E f \in [1 .. Len(s) -> Seq(M)] :
           /\ f[1] = s[1]
           /\ \A i \in 2 .. Len(s) : f[i] = f[i - 1] \o s[i]
           /\ FlattenSeq(s) = f[Len(s)]
<1> DEFINE n == Len(s)
           flatten[i \in 1 .. n] == IF i = 1 THEN s[i] ELSE flatten[i - 1] \o s[i]
<1>1. n \in Nat /\ n # 0 /\ \A i \in 1 .. n : s[i] \in Seq(M)
  OBVIOUS
<1>2. PICK F : F = [i \in 1 .. n |-> [t \in Seq(M) |-> IF i = 1 THEN s[1] ELSE t \o s[i]]]
  OBVIOUS
<1>3. /\ F \in [1 .. n -> [Seq(M) -> Seq(M)]]
      /\ \A i \in 1 .. n, t \in Seq(M) : F[i][t] = IF i = 1 THEN s[1] ELSE t \o s[i]
  BY <1>1, <1>2
<1>4. PICK h \in [0 .. n -> Seq(M)] : \A i \in 1 .. n : h[i] = F[i][h[i - 1]]
  <2>1. <<>> \in Seq(M)
    OBVIOUS
  <2>2. \E h \in [0 .. n -> Seq(M)] : h[0] = <<>> /\ \A i \in 1 .. n : h[i] = F[i][h[i - 1]]
    <3>1. PICK A : A = Seq(M)
      OBVIOUS
    <3> HIDE DEF n
    <3>2. Recursive(A, <<>>, n, F)
      BY <1>1, <1>3, <2>1, <3>1 DEF Recursive
    <3>3. \E h \in [0 .. n -> A] : h[0] = <<>> /\ \A i \in 1 .. n : h[i] = F[i][h[i - 1]]
      BY <3>2, Recursion
    <3> QED
      BY <3>1, <3>3
  <2> QED
    BY <2>2
<1>5. \A i \in 1 .. n : h[i] = IF i = 1 THEN s[i] ELSE h[i - 1] \o s[i]
  <2> SUFFICES ASSUME NEW i \in 1 .. n PROVE h[i] = IF i = 1 THEN s[i] ELSE h[i - 1] \o s[i]
    OBVIOUS
  <2>1. i - 1 \in 0 .. n
    BY <1>1
  <2>2. h[i - 1] \in Seq(M)
    BY <1>4, <2>1
  <2> QED
    BY <1>3, <1>4, <2>2
<1>6. PICK f : f = [i \in 1 .. n |-> h[i]]
  OBVIOUS
<1> HIDE DEF n
<1>7. \A i \in 1 .. n : f[i] = IF i = 1 THEN s[i] ELSE f[i - 1] \o s[i]
  <2> SUFFICES ASSUME NEW i \in 1 .. n PROVE f[i] = IF i = 1 THEN s[i] ELSE f[i - 1] \o s[i]
    OBVIOUS
  <2>1. i # 1 => i - 1 \in 1 .. n
    BY <1>1
  <2> QED
    BY <1>5, <1>6, <2>1
<1>8. f = [i \in 1 .. n |-> IF i = 1 THEN s[i] ELSE f[i - 1] \o s[i]]
  BY <1>6, <1>7
<1> USE DEF n
<1>9. flatten = [i \in 1 .. n |-> IF i = 1 THEN s[i] ELSE flatten[i - 1] \o s[i]]
  BY Zenon, <1>8
<1>10. FlattenSeq(s) = flatten[n]
  BY Zenon, <1>1 DEF FlattenSeq
<1> HIDE DEF flatten
<1>11. \A i \in 1 .. n : flatten[i] = f[i]
  <2>1. ASSUME NEW i \in 1 .. n, \A j \in 1 .. n : j < i => flatten[j] = f[j]
        PROVE  flatten[i] = f[i]
    <3>1. i # 1 => i - 1 \in 1 .. n /\ i - 1 < i
      BY <1>1
    <3>2. flatten[i] = IF i = 1 THEN s[i] ELSE flatten[i - 1] \o s[i]
      BY <1>9
    <3> QED
      BY <1>7, <2>1, <3>1, <3>2
  <2> HIDE DEF n
  <2>2. GoOnAlike(flatten, f, n)
    BY <2>1 DEF GoOnAlike
  <2> QED
    BY <1>1, <2>2, Agree DEF Alike
<1>12. f \in [1 .. n -> Seq(M)] /\ f[1] = s[1] /\ \A i \in 2 .. n : f[i] = f[i - 1] \o s[i]
  <2>1. \A i \in 1 .. n : i \in 0 .. n /\ h[i] \in Seq(M)
    <3>1. \A i \in 1 .. n : i \in 0 .. n
      BY <1>1
    <3> HIDE DEF n
    <3> QED
      BY <1>4, <3>1
  <2>2. f \in [1 .. n -> Seq(M)]
    BY <1>6, <2>1
  <2>3. 1 \in 1 .. n /\ \A i \in 2 .. n : i \in 1 .. n /\ i # 1
    BY <1>1
  <2> HIDE DEF n
  <2> QED
    BY <1>7, <2>2, <2>3
<1>13. FlattenSeq(s) = f[n]
  <2>1. n \in 1 .. n
    BY <1>1
  <2> HIDE DEF n
  <2> QED
    BY <1>10, <1>11, <2>1
<1> QED
  BY <1>12, <1>13

LEMMA FlattenAppend ==
  ASSUME NEW M, NEW s \in Seq(Seq(M)), NEW x \in Seq(M)
  PROVE  /\ FlattenSeq(s) \in Seq(M)
         /\ FlattenSeq(Append(s, x)) = FlattenSeq(s) \o x
<1> DEFINE n == Len(s)
<1>1. PICK t : t = Append(s, x)
  OBVIOUS
<1>2. /\ n \in Nat /\ t \in Seq(Seq(M)) /\ t # <<>> /\ Len(t) = n + 1 /\ t[n + 1] = x
      /\ \A i \in 1 .. n : t[i] = s[i] /\ s[i] \in Seq(M)
  BY <1>1
<1>3. PICK g \in [1 .. n + 1 -> Seq(M)] :
        /\ g[1] = t[1]
        /\ \A i \in 2 .. n + 1 : g[i] = g[i - 1] \o t[i]
        /\ FlattenSeq(t) = g[n + 1]
  <2>1. \E h \in [1 .. Len(t) -> Seq(M)] :
          /\ h[1] = t[1]
          /\ \A i \in 2 .. Len(t) : h[i] = h[i - 1] \o t[i]
          /\ FlattenSeq(t) = h[Len(t)]
    BY <1>2, Flattens
  <2> QED
    BY <1>2, <2>1
<1>4. CASE s = <<>>
  <2>1. FlattenSeq(s) = <<>>
    BY <1>4 DEF FlattenSeq
  <2>2. n = 0 /\ FlattenSeq(t) = x
    BY <1>2, <1>3, <1>4
  <2> QED
    BY <1>1, <2>1, <2>2
<1>5. CASE s # <<>>
  <2>1. PICK f \in [1 .. n -> Seq(M)] :
          /\ f[1] = s[1]
          /\ \A i \in 2 .. n : f[i] = f[i - 1] \o s[i]
          /\ FlattenSeq(s) = f[n]
    BY <1>5, Flattens
  <2>2. n \in 1 .. n /\ n + 1 \in 2 .. n + 1 /\ (n + 1) - 1 = n
    BY <1>2, <1>5
  <2>3. \A i \in 1 .. n : g[i] = f[i]
    <3> HIDE DEF n
    <3>1. ASSUME NEW i \in 1 .. n, \A j \in 1 .. n : j < i => g[j] = f[j]
          PROVE  g[i] = f[i]
      <4>1. CASE i = 1
        BY <1>2, <1>3, <2>1, <4>1
      <4>2. CASE i # 1
        <5>1. i \in 2 .. n /\ i \in 2 .. n + 1 /\ i - 1 \in 1 .. n /\ i - 1 < i
          BY <1>2, <4>2
        <5>2. g[i - 1] = f[i - 1]
          BY <3>1, <5>1
        <5>3. g[i] = g[i - 1] \o t[i] /\ f[i] = f[i - 1] \o s[i]
          BY <1>3, <2>1, <5>1
        <5> QED
          BY <1>2, <5>2, <5>3
      <4> QED
        BY <4>1, <4>2
    <3>2. GoOnAlike(g, f, n)
      BY <3>1 DEF GoOnAlike
    <3>3. n \in Nat
      BY <1>2
    <3>4. Alike(g, f, n)
      BY <3>2, <3>3, Agree
    <3> QED
      BY <3>4 DEF Alike
  <2>4. FlattenSeq(t) = g[n] \o x
    BY <1>2, <1>3, <2>2
  <2> QED
    BY <1>1, <2>1, <2>2, <2>3, <2>4
<1> QED
  BY <1>4, <1>5

\* What is b, and y behind it, is b with y appended.
Continues(c, b, y) ==
  /\ c = [i \in 1 .. Len(b) + 1 |-> c[i]] /\ c[Len(b) + 1] = y
  /\ \A i \in 1 .. Len(b) : c[i] = b[i]

LEMMA Appended ==
  ASSUME NEW M, NEW b \in Seq(M), NEW y \in M, NEW c, Continues(c, b, y)
  PROVE  c = Append(b, y)
<1> DEFINE n == Len(b)
<1>0. /\ n \in Nat /\ c = [i \in 1 .. n + 1 |-> c[i]] /\ c[n + 1] = y
      /\ \A i \in 1 .. n : c[i] = b[i] /\ b[i] \in M
  <2>1. n \in Nat /\ \A i \in 1 .. n : b[i] \in M
    OBVIOUS
  <2> QED
    BY <2>1 DEF Continues
<1> HIDE DEF n
<1>1. \A i \in 1 .. n + 1 : c[i] \in M
  <2> SUFFICES ASSUME NEW i \in 1 .. n + 1 PROVE c[i] \in M
    OBVIOUS
  <2>1. i = n + 1 \/ i \in 1 .. n
    BY <1>0
  <2> QED
    BY <1>0, <2>1
<1>2. c \in [1 .. n + 1 -> M]
  BY <1>0, <1>1
<1>3. c \in Seq(M) /\ Len(c) = n + 1
  BY <1>0, <1>2
<1>4. PICK d : d = Append(b, y)
  OBVIOUS
<1>5. d \in Seq(M) /\ Len(d) = n + 1 /\ \A i \in 1 .. n + 1 : d[i] = IF i <= n THEN b[i] ELSE y
  BY <1>0, <1>4, AppendProperties DEF n
<1>6. ASSUME NEW i \in 1 .. n + 1 PROVE c[i] = d[i]
  <2>1. CASE i \in 1 .. n
    <3>1. d[i] = b[i]
      BY <1>5, <2>1
    <3> QED
      BY <1>0, <2>1, <3>1
  <2>2. CASE i \notin 1 .. n
    <3>1. i = n + 1 /\ ~ (i <= n)
      BY <1>0, <2>2
    <3>2. d[i] = y
      BY <1>5, <3>1
    <3> QED
      BY <1>0, <3>1, <3>2
  <2> QED
    BY <2>1, <2>2
<1>7. c = d
  BY <1>3, <1>5, <1>6, SeqEqual
<1> QED
  BY <1>4, <1>7

\* Induction up to n, over a set.
Climbs(T, n) == 0 \in T /\ \A i \in 0 .. n : i < n /\ i \in T => i + 1 \in T

LEMMA Climb ==
  ASSUME NEW n \in Nat, NEW T, Climbs(T, n)
  PROVE  n \in T
<1> DEFINE Bad == {i \in 0 .. n : i \notin T}
<1> SUFFICES ASSUME n \notin T PROVE FALSE
  OBVIOUS
<1>1. PICK i \in Bad : \A j \in Bad : i <= j
  <2>1. Bad \subseteq Nat /\ Bad # {}
    OBVIOUS
  <2> HIDE DEF Bad
  <2> QED
    BY <2>1, LeastNatural
<1>2. i \in 0 .. n /\ i # 0 /\ i \notin T
  BY DEF Climbs
<1>3. i - 1 \in 0 .. n /\ i - 1 < n /\ (i - 1) + 1 = i /\ ~ (i <= i - 1)
  BY <1>2
<1>4. i - 1 \in T
  BY <1>1, <1>3
<1> QED
  BY <1>2, <1>3, <1>4 DEF Climbs

-----------------------------------------------------------------------------
(* What a run says. *)

\* AgentSteps, of which no more calls have succeeded than were made.
StepRecord ==
  {s \in [said : 0 .. MaxCalls, calls : 0 .. MaxCalls, good : 0 .. MaxCalls,
          status : {"untracked", "unplanned", "deviated", "in_progress", "completed", "finalizing"},
          again : BOOLEAN] :
     s.good <= s.calls}

\* What a step adds to the trace, the trace of any steps, and the messages of any list.
Block(s) == <<Said("assistant", s.said)>> \o [j \in 1 .. s.calls |-> Said("tool", j)]

TraceOf(ss) == FlattenSeq([i \in DOMAIN ss |-> Block(ss[i])])

SpokenOf(m) == FlattenSeq([i \in DOMAIN m |-> IF m[i].role = "system" THEN <<>> ELSE <<m[i]>>])

LEMMA BlockType ==
  ASSUME NEW s \in StepRecord
  PROVE  /\ Block(s) \in Seq(Message) /\ Len(Block(s)) = 1 + s.calls
         /\ Block(s)[1] = Said("assistant", s.said)
         /\ \A j \in 1 .. s.calls : Block(s)[1 + j] = Said("tool", j)
<1>1. s.calls \in Nat /\ s.calls <= MaxCalls /\ s.said \in 0 .. MaxCalls
  BY DEF StepRecord
<1>2. PICK a : a = <<Said("assistant", s.said)>>
  OBVIOUS
<1>3. a \in Seq(Message) /\ Len(a) = 1 /\ a[1] = Said("assistant", s.said)
  BY <1>1, <1>2 DEF Message, Said
<1>4. PICK b : b = [j \in 1 .. s.calls |-> Said("tool", j)]
  OBVIOUS
<1>5. \A j \in 1 .. s.calls : Said("tool", j) \in Message
  BY <1>1, AgentAssumption DEF Message, Said
<1>6. b \in Seq(Message) /\ Len(b) = s.calls /\ \A j \in 1 .. s.calls : b[j] = Said("tool", j)
  BY <1>1, <1>4, <1>5
<1>7. Block(s) = a \o b
  BY <1>2, <1>4 DEF Block
<1>8. /\ Block(s) \in Seq(Message) /\ Len(Block(s)) = Len(a) + Len(b)
      /\ \A i \in 1 .. Len(a) + Len(b) : Block(s)[i] = IF i <= Len(a) THEN a[i] ELSE b[i - Len(a)]
  <2>1. a \in Seq(Message) /\ b \in Seq(Message)
    BY <1>3, <1>6
  <2> HIDE <1>3, <1>6
  <2> QED
    BY <1>7, <2>1, ConcatProperties
<1>9. PICK k \in Nat : k = s.calls
  BY <1>1
<1>10. \A j \in 1 .. k : 1 + j \in 1 .. 1 + k /\ ~ (1 + j <= 1) /\ (1 + j) - 1 = j
  OBVIOUS
<1>11. 1 \in 1 .. 1 + k
  OBVIOUS
<1>12. PICK t : t = Block(s)
  OBVIOUS
<1>13. \A i \in 1 .. 1 + k : t[i] = IF i <= 1 THEN a[i] ELSE b[i - 1]
  BY <1>3, <1>6, <1>8, <1>9, <1>12
<1>14. t[1] = a[1] /\ \A j \in 1 .. k : t[1 + j] = b[j]
  BY <1>10, <1>11, <1>13
<1> QED
  BY <1>3, <1>6, <1>8, <1>9, <1>12, <1>14

LEMMA TraceOfAppend ==
  ASSUME NEW ss \in Seq(StepRecord), NEW x \in StepRecord
  PROVE  TraceOf(ss) \in Seq(Message) /\ TraceOf(Append(ss, x)) = TraceOf(ss) \o Block(x)
<1>1. PICK b : b = [i \in DOMAIN ss |-> Block(ss[i])]
  OBVIOUS
<1>2. PICK n \in Nat : n = Len(ss)
  OBVIOUS
<1>3. DOMAIN ss = 1 .. n /\ \A i \in 1 .. n : ss[i] \in StepRecord
  BY <1>2
<1>4. \A i \in 1 .. n : Block(ss[i]) \in Seq(Message)
  BY <1>3, BlockType
<1>5. b \in Seq(Seq(Message)) /\ Len(b) = n /\ \A i \in 1 .. n : b[i] = Block(ss[i])
  BY <1>1, <1>3, <1>4
<1>6. PICK y \in Seq(Message) : y = Block(x)
  BY BlockType
<1>7. PICK t : t = Append(ss, x)
  OBVIOUS
<1>8. DOMAIN t = 1 .. n + 1 /\ t[n + 1] = x /\ \A i \in 1 .. n : t[i] = ss[i]
  BY <1>2, <1>7
<1>9. [i \in DOMAIN t |-> Block(t[i])] = Append(b, y)
  <2>1. PICK c : c = [i \in DOMAIN t |-> Block(t[i])]
    OBVIOUS
  <2>2. \A i \in 1 .. n + 1 : c[i] = Block(t[i])
    BY <1>8, <2>1
  <2>3. n + 1 \in 1 .. n + 1 /\ \A i \in 1 .. n : i \in 1 .. n + 1
    OBVIOUS
  <2>4. c[n + 1] = y /\ \A i \in 1 .. n : c[i] = b[i]
    BY <1>5, <1>6, <1>8, <2>2, <2>3
  <2>5. c = [i \in 1 .. n + 1 |-> c[i]]
    BY <1>8, <2>1
  <2>6. c = Append(b, y)
    <3>1. PICK M : M = Seq(Message)
      OBVIOUS
    <3>2. b \in Seq(M) /\ y \in M
      BY <1>5, <1>6, <3>1
    <3>3. Continues(c, b, y)
      BY <1>5, <2>4, <2>5 DEF Continues
    <3> QED
      BY <3>2, <3>3, Appended
  <2> QED
    BY <2>1, <2>6
<1>10. FlattenSeq(b) \in Seq(Message) /\ FlattenSeq(Append(b, y)) = FlattenSeq(b) \o y
  BY <1>5, FlattenAppend
<1>11. TraceOf(ss) = FlattenSeq(b)
  BY Zenon, <1>1 DEF TraceOf
<1>12. TraceOf(t) = FlattenSeq(Append(b, y))
  BY Zenon, <1>9 DEF TraceOf
<1> QED
  BY <1>6, <1>7, <1>10, <1>11, <1>12

LEMMA SpokenOfAppend ==
  ASSUME NEW m \in Seq(Message), NEW x \in Message
  PROVE  /\ SpokenOf(m) \in Seq(Message)
         /\ SpokenOf(Append(m, x)) =
              SpokenOf(m) \o IF x.role = "system" THEN <<>> ELSE <<x>>
<1> DEFINE one(y) == IF y.role = "system" THEN <<>> ELSE <<y>>
<1>0. \A y \in Message : one(y) \in Seq(Message)
  OBVIOUS
<1>1. PICK b : b = [i \in DOMAIN m |-> one(m[i])]
  OBVIOUS
<1>2. PICK n \in Nat : n = Len(m)
  OBVIOUS
<1>3. DOMAIN m = 1 .. n /\ \A i \in 1 .. n : m[i] \in Message
  BY <1>2
<1>5. b \in Seq(Seq(Message)) /\ Len(b) = n /\ \A i \in 1 .. n : b[i] = one(m[i])
  <2> HIDE DEF one
  <2> QED
    BY <1>0, <1>1, <1>3
<1>6. PICK y \in Seq(Message) : y = one(x)
  BY <1>0
<1>7. PICK t : t = Append(m, x)
  OBVIOUS
<1>8. DOMAIN t = 1 .. n + 1 /\ t[n + 1] = x /\ \A i \in 1 .. n : t[i] = m[i]
  BY <1>2, <1>7
<1>9. [i \in DOMAIN t |-> one(t[i])] = Append(b, y)
  <2> HIDE DEF one
  <2>1. PICK c : c = [i \in DOMAIN t |-> one(t[i])]
    OBVIOUS
  <2>2. \A i \in 1 .. n + 1 : c[i] = one(t[i])
    BY <1>8, <2>1
  <2>3. n + 1 \in 1 .. n + 1 /\ \A i \in 1 .. n : i \in 1 .. n + 1
    OBVIOUS
  <2>4. c[n + 1] = y /\ \A i \in 1 .. n : c[i] = b[i]
    BY <1>5, <1>6, <1>8, <2>2, <2>3
  <2>5. c = [i \in 1 .. n + 1 |-> c[i]]
    BY <1>8, <2>1
  <2>6. c = Append(b, y)
    <3>1. PICK M : M = Seq(Message)
      OBVIOUS
    <3>2. b \in Seq(M) /\ y \in M
      BY <1>5, <1>6, <3>1
    <3>3. Continues(c, b, y)
      BY <1>5, <2>4, <2>5 DEF Continues
    <3> QED
      BY <3>2, <3>3, Appended
  <2> QED
    BY <2>1, <2>6
<1>10. FlattenSeq(b) \in Seq(Message) /\ FlattenSeq(Append(b, y)) = FlattenSeq(b) \o y
  BY <1>5, FlattenAppend
<1>11. SpokenOf(m) = FlattenSeq(b)
  BY Zenon, <1>1 DEF SpokenOf
<1>12. SpokenOf(t) = FlattenSeq(Append(b, y))
  BY Zenon, <1>9 DEF SpokenOf
<1> QED
  BY <1>6, <1>7, <1>10, <1>11, <1>12

LEMMA SpokenOfConcat ==
  ASSUME NEW m \in Seq(Message), NEW f \in Seq(Message),
         \A i \in 1 .. Len(f) : f[i].role # "system"
  PROVE  SpokenOf(m \o f) = SpokenOf(m) \o f
<1>1. PICK n \in Nat : n = Len(f)
  OBVIOUS
<1>2. PICK p \in Seq(Message) : p = SpokenOf(m)
  <2>1. PICK x : x = [role |-> "system", n |-> 0]
    OBVIOUS
  <2>2. x \in Message
    BY <2>1, AgentAssumption DEF Message
  <2> QED
    BY <2>2, SpokenOfAppend
<1> DEFINE T == {i \in 0 .. n : SpokenOf(m \o SubSeq(f, 1, i)) = p \o SubSeq(f, 1, i)}
<1>3. 0 \in T
  <2>1. SubSeq(f, 1, 0) = <<>>
    OBVIOUS
  <2>2. m \o <<>> = m /\ p \o <<>> = p
    OBVIOUS
  <2>3. SpokenOf(m \o SubSeq(f, 1, 0)) = p \o SubSeq(f, 1, 0)
    BY <1>2, <2>1, <2>2
  <2> QED
    BY <2>3
<1>4. ASSUME NEW i \in 0 .. n, i < n, i \in T PROVE i + 1 \in T
  <2>1. PICK g : g = SubSeq(f, 1, i)
    OBVIOUS
  <2>2. PICK x \in Message : x = f[i + 1]
    BY <1>1, <1>4
  <2>3. g \in Seq(Message) /\ SubSeq(f, 1, i + 1) = Append(g, x)
    BY <1>1, <1>4, <2>1, <2>2
  <2>4. m \o g \in Seq(Message) /\ m \o Append(g, x) = Append(m \o g, x)
    BY <2>3
  <2>5. x.role # "system"
    BY <1>1, <1>4, <2>2
  <2>6. SpokenOf(m \o g) = p \o g
    BY <1>4, <2>1
  <2>7. SpokenOf(Append(m \o g, x)) = (p \o g) \o <<x>>
    BY <2>4, <2>5, <2>6, SpokenOfAppend
  <2>8. (p \o g) \o <<x>> = p \o Append(g, x)
    <3>1. <<x>> \in Seq(Message)
      OBVIOUS
    <3>2. (p \o g) \o <<x>> = p \o (g \o <<x>>)
      BY <2>3, <3>1, ConcatAssociative
    <3> QED
      BY <2>3, <3>2, AppendIsConcat
  <2>9. SpokenOf(m \o SubSeq(f, 1, i + 1)) = p \o SubSeq(f, 1, i + 1)
    BY <2>3, <2>4, <2>7, <2>8
  <2> QED
    BY <1>4, <2>9
<1>5. n \in T
  <2> HIDE DEF T
  <2>1. Climbs(T, n)
    BY <1>3, <1>4 DEF Climbs
  <2> QED
    BY <2>1, Climb
<1>6. SubSeq(f, 1, n) = f
  BY <1>1
<1> QED
  BY <1>2, <1>5, <1>6

-----------------------------------------------------------------------------
(* What a run counts. *)

PairsOf(f) == UNION {{i} \X (1 .. f[i]) : i \in DOMAIN f}

LEMMA PairsOfAppend ==
  ASSUME NEW f \in Seq(Nat), NEW k \in Nat
  PROVE  PairsOf(Append(f, k)) = PairsOf(f) \cup ({Len(f) + 1} \X (1 .. k))
<1> DEFINE n == Len(f)
<1>1. PICK g : g = Append(f, k)
  OBVIOUS
<1>2. /\ n \in Nat /\ DOMAIN f = 1 .. n /\ DOMAIN g = 1 .. n + 1
      /\ g[n + 1] = k /\ \A i \in 1 .. n : g[i] = f[i]
  BY <1>1
<1> HIDE DEF n
<1>3. ASSUME NEW x \in PairsOf(g) PROVE x \in PairsOf(f) \cup ({n + 1} \X (1 .. k))
  <2>1. PICK i \in 1 .. n + 1 : x \in {i} \X (1 .. g[i])
    BY <1>2, <1>3 DEF PairsOf
  <2>2. CASE i = n + 1
    BY <1>2, <2>1, <2>2
  <2>3. CASE i \in 1 .. n
    BY <1>2, <2>1, <2>3 DEF PairsOf
  <2> QED
    BY <1>2, <2>2, <2>3
<1>4. ASSUME NEW x \in PairsOf(f) PROVE x \in PairsOf(g)
  <2>1. PICK i \in 1 .. n : x \in {i} \X (1 .. f[i])
    BY <1>2, <1>4 DEF PairsOf
  <2>2. i \in DOMAIN g /\ x \in {i} \X (1 .. g[i])
    BY <1>2, <2>1
  <2> QED
    BY <2>2 DEF PairsOf
<1>5. ASSUME NEW x \in {n + 1} \X (1 .. k) PROVE x \in PairsOf(g)
  <2>1. n + 1 \in DOMAIN g /\ x \in {n + 1} \X (1 .. g[n + 1])
    BY <1>2, <1>5
  <2> QED
    BY <2>1 DEF PairsOf
<1> QED
  BY <1>1, <1>3, <1>4, <1>5 DEF n

LEMMA TotalIsPairs ==
  ASSUME NEW f \in Seq(0 .. MaxCalls)
  PROVE  Total(f) = Cardinality(PairsOf(f))
<1>1. DOMAIN f = 1 .. Len(f) /\ \A i \in DOMAIN f : f[i] \in 0 .. MaxCalls
  <2>1. DOMAIN f = 1 .. Len(f) /\ Len(f) \in Nat
    OBVIOUS
  <2>2. \A i \in 1 .. Len(f) : f[i] \in 0 .. MaxCalls
    BY ElementOfSeq
  <2> QED
    BY <2>1, <2>2
<1>2. ASSUME NEW i \in DOMAIN f, NEW j \in 1 .. f[i] PROVE j \in 1 .. MaxCalls /\ j <= f[i]
  BY <1>1, <1>2, AgentAssumption
<1>3. ASSUME NEW x \in PairsOf(f) PROVE x \in (DOMAIN f) \X (1 .. MaxCalls) /\ x[2] <= f[x[1]]
  <2>1. PICK i \in DOMAIN f : x \in {i} \X (1 .. f[i])
    BY <1>3 DEF PairsOf
  <2>2. x = <<x[1], x[2]>> /\ x[1] = i /\ x[2] \in 1 .. f[i]
    BY <2>1
  <2>3. x[2] \in 1 .. MaxCalls /\ x[2] <= f[i]
    BY <1>2, <2>2
  <2> QED
    BY <2>2, <2>3
<1>4. ASSUME NEW x \in (DOMAIN f) \X (1 .. MaxCalls), x[2] <= f[x[1]] PROVE x \in PairsOf(f)
  <2>1. x = <<x[1], x[2]>> /\ x[1] \in DOMAIN f /\ x[2] \in 1 .. MaxCalls
    BY <1>4
  <2>2. f[x[1]] \in 0 .. MaxCalls
    BY <1>1, <2>1
  <2>3. x[2] \in 1 .. f[x[1]]
    BY <1>4, <2>1, <2>2, AgentAssumption
  <2> QED
    BY <2>1, <2>3 DEF PairsOf
<1>5. PairsOf(f) = {x \in (DOMAIN f) \X (1 .. MaxCalls) : x[2] <= f[x[1]]}
  BY <1>3, <1>4
<1> QED
  BY <1>5 DEF Total

\* Total adds up.
LEMMA TotalOfAppend ==
  ASSUME NEW f \in Seq(0 .. MaxCalls), NEW k \in 0 .. MaxCalls
  PROVE  Total(f) \in Nat /\ Total(Append(f, k)) = Total(f) + k
<1> DEFINE n == Len(f)
           Q == {n + 1} \X (1 .. k)
<1>1. n \in Nat /\ DOMAIN f = 1 .. n /\ (\A i \in 1 .. n : f[i] \in 0 .. MaxCalls) /\ MaxCalls \in Nat
  BY AgentAssumption
<1>2. f \in Seq(Nat) /\ k \in Nat
  BY <1>1
<1>3. PICK P : P = PairsOf(f)
  OBVIOUS
<1>4. P \subseteq (1 .. n) \X (1 .. MaxCalls)
  <2> SUFFICES ASSUME NEW x \in P PROVE x \in (1 .. n) \X (1 .. MaxCalls)
    OBVIOUS
  <2>1. PICK i \in 1 .. n : x \in {i} \X (1 .. f[i])
    BY <1>1, <1>3 DEF PairsOf
  <2>2. f[i] \in 0 .. MaxCalls
    BY <1>1
  <2> QED
    BY <1>1, <2>1, <2>2
<1>5. IsFiniteSet(P)
  <2>1. IsFiniteSet(1 .. n) /\ IsFiniteSet(1 .. MaxCalls)
    BY <1>1, FS_Interval
  <2>2. IsFiniteSet((1 .. n) \X (1 .. MaxCalls))
    BY <2>1, FS_Product
  <2> QED
    BY <1>4, <2>2, FS_Subset
<1>6. IsFiniteSet(Q) /\ Cardinality(Q) = k
  <2>1. IsFiniteSet(1 .. k) /\ Cardinality(1 .. k) = k
    BY <1>2, FS_Interval
  <2>2. IsFiniteSet({n + 1}) /\ Cardinality({n + 1}) = 1
    BY FS_Singleton
  <2> HIDE DEF n
  <2>3. IsFiniteSet({n + 1} \X (1 .. k)) /\ Cardinality({n + 1} \X (1 .. k)) = 1 * k
    BY <2>1, <2>2, FS_Product
  <2> QED
    BY <1>2, <2>3
<1>7. P \cap Q = {}
  <2> SUFFICES ASSUME NEW x \in P, x \in Q PROVE FALSE
    OBVIOUS
  <2>1. x[1] \in 1 .. n /\ x[1] = n + 1
    BY <1>4
  <2> QED
    BY <1>1, <2>1
<1>8. PairsOf(Append(f, k)) = P \cup Q
  BY <1>2, <1>3, PairsOfAppend
<1>9. Cardinality(P) \in Nat
  BY <1>5, FS_CardinalityType
<1>10. Cardinality(P \cup Q) = Cardinality(P) + k
  <2> HIDE DEF Q
  <2>1. Cardinality(P \cup Q) = Cardinality(P) + Cardinality(Q) - Cardinality(P \cap Q)
    BY <1>5, <1>6, FS_Union
  <2>2. Cardinality(P \cap Q) = 0
    BY <1>7, FS_EmptySet
  <2> QED
    BY <1>2, <1>6, <1>9, <2>1, <2>2
<1>11. Total(f) = Cardinality(P) /\ Total(Append(f, k)) = Cardinality(PairsOf(Append(f, k)))
  <2>1. Append(f, k) \in Seq(0 .. MaxCalls)
    OBVIOUS
  <2> QED
    BY <1>3, <2>1, TotalIsPairs
<1> HIDE DEF Q
<1> QED
  BY <1>8, <1>9, <1>10, <1>11

CallsOf(ss) == Total([i \in DOMAIN ss |-> ss[i].calls])
ErrorsOf(ss) == Total([i \in DOMAIN ss |-> ss[i].calls - ss[i].good])
AgainOf(ss) == {i \in DOMAIN ss : ss[i].again}

LEMMA NothingCounted == CallsOf(<<>>) = 0 /\ ErrorsOf(<<>>) = 0 /\ AgainOf(<<>>) = {}
<1>1. ASSUME NEW f, DOMAIN f = {} PROVE Total(f) = 0
  <2>1. {x \in (DOMAIN f) \X (1 .. MaxCalls) : x[2] <= f[x[1]]} = {}
    BY <1>1
  <2> QED
    BY <2>1, FS_EmptySet DEF Total
<1>2. PICK f : f = [i \in DOMAIN <<>> |-> <<>>[i].calls]
  OBVIOUS
<1>3. PICK g : g = [i \in DOMAIN <<>> |-> <<>>[i].calls - <<>>[i].good]
  OBVIOUS
<1>4. DOMAIN f = {} /\ DOMAIN g = {}
  BY <1>2, <1>3
<1>5. Total(f) = 0 /\ Total(g) = 0
  BY <1>1, <1>4
<1>6. CallsOf(<<>>) = 0 /\ ErrorsOf(<<>>) = 0
  BY <1>2, <1>3, <1>5, Zenon DEF CallsOf, ErrorsOf
<1> QED
  BY <1>6 DEF AgainOf

LEMMA CountsOfAppend ==
  ASSUME NEW ss \in Seq(StepRecord), NEW x \in StepRecord, ~ x.again
  PROVE  /\ CallsOf(ss) \in Nat /\ CallsOf(Append(ss, x)) = CallsOf(ss) + x.calls
         /\ ErrorsOf(ss) \in Nat /\ ErrorsOf(Append(ss, x)) = ErrorsOf(ss) + (x.calls - x.good)
         /\ AgainOf(Append(ss, x)) = AgainOf(ss)
<1>1. PICK t : t = Append(ss, x)
  OBVIOUS
<1>2. PICK n \in Nat : n = Len(ss)
  OBVIOUS
<1>3. /\ DOMAIN ss = 1 .. n /\ \A i \in 1 .. n : ss[i] \in StepRecord
      /\ DOMAIN t = 1 .. n + 1 /\ t[n + 1] = x /\ \A i \in 1 .. n : t[i] = ss[i]
  BY <1>1, <1>2
<1>4. \A s \in StepRecord : s.calls \in 0 .. MaxCalls /\ s.calls - s.good \in 0 .. MaxCalls
  BY AgentAssumption DEF StepRecord
<1>5. n + 1 \in 1 .. n + 1 /\ (\A i \in 1 .. n : i \in 1 .. n + 1) /\ n + 1 \notin 1 .. n
      /\ \A i \in 1 .. n + 1 : i = n + 1 \/ i \in 1 .. n
  OBVIOUS
<1>6. CallsOf(ss) \in Nat /\ CallsOf(t) = CallsOf(ss) + x.calls
  <2>1. PICK b : b = [i \in DOMAIN ss |-> ss[i].calls]
    OBVIOUS
  <2>2. PICK c : c = [i \in DOMAIN t |-> t[i].calls]
    OBVIOUS
  <2>3. PICK M : M = 0 .. MaxCalls
    OBVIOUS
  <2>4. b \in Seq(M) /\ Len(b) = n /\ \A i \in 1 .. n : b[i] = ss[i].calls
    <3>1. DOMAIN b = 1 .. n /\ \A i \in 1 .. n : b[i] = ss[i].calls /\ b[i] \in M
      BY <1>3, <1>4, <2>1, <2>3
    <3>2. b = [i \in 1 .. n |-> b[i]]
      BY <1>3, <2>1
    <3> QED
      BY <3>1, <3>2
  <2>5. \A i \in 1 .. n + 1 : c[i] = t[i].calls
    BY <1>3, <2>2
  <2>6. c = [i \in 1 .. n + 1 |-> c[i]]
    BY <1>3, <2>2
  <2>7. c[n + 1] = x.calls /\ \A i \in 1 .. n : c[i] = b[i]
    BY <1>3, <1>5, <2>4, <2>5
  <2>8. Continues(c, b, x.calls)
    BY <2>4, <2>6, <2>7 DEF Continues
  <2>9. x.calls \in M
    BY <1>4, <2>3
  <2>10. c = Append(b, x.calls)
    BY <2>4, <2>8, <2>9, Appended
  <2>11. Total(b) \in Nat /\ Total(c) = Total(b) + x.calls
    BY <2>3, <2>4, <2>9, <2>10, TotalOfAppend
  <2> QED
    BY <2>1, <2>2, <2>11, Zenon DEF CallsOf
<1>7. ErrorsOf(ss) \in Nat /\ ErrorsOf(t) = ErrorsOf(ss) + (x.calls - x.good)
  <2>1. PICK b : b = [i \in DOMAIN ss |-> ss[i].calls - ss[i].good]
    OBVIOUS
  <2>2. PICK c : c = [i \in DOMAIN t |-> t[i].calls - t[i].good]
    OBVIOUS
  <2>3. PICK M : M = 0 .. MaxCalls
    OBVIOUS
  <2>4. b \in Seq(M) /\ Len(b) = n /\ \A i \in 1 .. n : b[i] = ss[i].calls - ss[i].good
    <3>1. DOMAIN b = 1 .. n /\ \A i \in 1 .. n : b[i] = ss[i].calls - ss[i].good /\ b[i] \in M
      BY <1>3, <1>4, <2>1, <2>3
    <3>2. b = [i \in 1 .. n |-> b[i]]
      BY <1>3, <2>1
    <3> QED
      BY <3>1, <3>2
  <2>5. \A i \in 1 .. n + 1 : c[i] = t[i].calls - t[i].good
    BY <1>3, <2>2
  <2>6. c = [i \in 1 .. n + 1 |-> c[i]]
    BY <1>3, <2>2
  <2>7. PICK e : e = x.calls - x.good
    OBVIOUS
  <2>8. c[n + 1] = e /\ \A i \in 1 .. n : c[i] = b[i]
    BY <1>3, <1>5, <2>4, <2>5, <2>7
  <2>9. Continues(c, b, e)
    BY <2>4, <2>6, <2>8 DEF Continues
  <2>10. e \in M
    BY <1>4, <2>3, <2>7
  <2>11. c = Append(b, e)
    BY <2>4, <2>9, <2>10, Appended
  <2>12. Total(b) \in Nat /\ Total(c) = Total(b) + e
    BY <2>3, <2>4, <2>10, <2>11, TotalOfAppend
  <2> QED
    BY <2>1, <2>2, <2>7, <2>12, Zenon DEF ErrorsOf
<1>8. AgainOf(t) = AgainOf(ss)
  BY <1>3, <1>5 DEF AgainOf
<1> QED
  BY <1>1, <1>6, <1>7, <1>8

\* The step that a new plan was made for.
Marked(ss) == [ss EXCEPT ![Len(ss)].again = TRUE]

LEMMA MarkedSteps ==
  ASSUME NEW ss \in Seq(StepRecord), ss # <<>>, NEW t, t = Marked(ss)
  PROVE  /\ t \in Seq(StepRecord) /\ Len(t) = Len(ss)
         /\ TraceOf(t) = TraceOf(ss) /\ CallsOf(t) = CallsOf(ss) /\ ErrorsOf(t) = ErrorsOf(ss)
         /\ AgainOf(t) = AgainOf(ss) \cup {Len(ss)}
<1>1. PICK n \in Nat : n = Len(ss) /\ n \in 1 .. n
  OBVIOUS
<1>2. DOMAIN ss = 1 .. n /\ \A i \in 1 .. n : ss[i] \in StepRecord
  BY <1>1
<1>3. t = [ss EXCEPT ![n] = [ss[n] EXCEPT !.again = TRUE]]
  BY <1>1 DEF Marked
<1>4. PICK y : y = [ss[n] EXCEPT !.again = TRUE]
  OBVIOUS
<1>5. ss[n] \in StepRecord
  BY <1>1, <1>2
<1>6. /\ y \in StepRecord /\ y.again = TRUE
      /\ y.said = ss[n].said /\ y.calls = ss[n].calls /\ y.good = ss[n].good
  BY <1>4, <1>5 DEF StepRecord
<1>7. /\ t \in Seq(StepRecord) /\ Len(t) = n /\ DOMAIN t = 1 .. n
      /\ \A i \in 1 .. n : t[i] = IF i = n THEN y ELSE ss[i]
  BY <1>1, <1>2, <1>3, <1>4, <1>6, ExceptSeq
<1>8. \A i \in 1 .. n : /\ t[i].said = ss[i].said /\ t[i].calls = ss[i].calls
                        /\ t[i].good = ss[i].good
  BY <1>6, <1>7
<1>9. [i \in DOMAIN t |-> Block(t[i])] = [i \in DOMAIN ss |-> Block(ss[i])]
  BY <1>2, <1>7, <1>8 DEF Block
<1>10. [i \in DOMAIN t |-> t[i].calls] = [i \in DOMAIN ss |-> ss[i].calls]
  BY <1>2, <1>7, <1>8
<1>11. [i \in DOMAIN t |-> t[i].calls - t[i].good] = [i \in DOMAIN ss |-> ss[i].calls - ss[i].good]
  BY <1>2, <1>7, <1>8
<1>12. TraceOf(t) = TraceOf(ss)
  BY <1>9, Zenon DEF TraceOf
<1>13. CallsOf(t) = CallsOf(ss) /\ ErrorsOf(t) = ErrorsOf(ss)
  BY <1>10, <1>11, Zenon DEF CallsOf, ErrorsOf
<1>14. AgainOf(t) = AgainOf(ss) \cup {n}
  BY <1>1, <1>2, <1>6, <1>7 DEF AgainOf
<1> QED
  BY <1>1, <1>7, <1>12, <1>13, <1>14

LEMMA AgainCounted ==
  ASSUME NEW ss \in Seq(StepRecord), ss # <<>>, ~ ss[Len(ss)].again
  PROVE  Cardinality(AgainOf(ss) \cup {Len(ss)}) = Cardinality(AgainOf(ss)) + 1
<1>1. Len(ss) \in Nat /\ DOMAIN ss = 1 .. Len(ss)
  OBVIOUS
<1>2. IsFiniteSet(1 .. Len(ss))
  BY <1>1, FS_Interval
<1>3. IsFiniteSet(AgainOf(ss))
  BY <1>1, <1>2, FS_Subset DEF AgainOf
<1>4. Len(ss) \notin AgainOf(ss)
  BY DEF AgainOf
<1> QED
  BY <1>3, <1>4, FS_AddElement

-----------------------------------------------------------------------------
(* The context. *)

LEMMA WithinType ==
  ASSUME NEW m \in Seq(Chat), NEW budget \in Nat \cup {Unlimited}
  PROVE  Within(m, budget) \in Seq(Chat) /\ (budget = Unlimited => Within(m, budget) = m)
<1> DEFINE n == Len(m)
           kept[i \in 0 .. n] ==
             IF i = 0 THEN [list |-> <<>>, used |-> 0]
             ELSE LET before == kept[i - 1]
                      used == before.used + Tokens(m[i])
                  IN  IF used > budget THEN before
                      ELSE [list |-> Append(before.list, m[i]), used |-> used]
           put(a, i) == IF a.used + Tokens(m[i]) > budget THEN a
                        ELSE [list |-> Append(a.list, m[i]), used |-> a.used + Tokens(m[i])]
           base == [list |-> <<>>, used |-> 0]
<1>1. n \in Nat /\ \A i \in 1 .. n : m[i] \in Chat
  OBVIOUS
<1>2. Within(m, budget) = IF budget = Unlimited THEN m ELSE kept[n].list
  BY Zenon DEF Within
<1>3. CASE budget = Unlimited
  BY <1>2, <1>3
<1>4. CASE budget # Unlimited
  <2>1. PICK A : A = [list : Seq(Chat), used : Nat]
    OBVIOUS
  <2>2. base \in A
    BY <2>1
  <2>3. ASSUME NEW i \in 1 .. n, NEW a \in A PROVE put(a, i) \in A
    <3>1. Tokens(m[i]) \in Nat /\ m[i] \in Chat
      BY <1>1 DEF Tokens
    <3> QED
      BY <2>1, <3>1
  <2> HIDE DEF put, base
  <2>4. PICK F : F = [i \in 1 .. n |-> [a \in A |-> put(a, i)]]
    OBVIOUS
  <2>5. F \in [1 .. n -> [A -> A]] /\ \A i \in 1 .. n, a \in A : F[i][a] = put(a, i)
    BY <2>3, <2>4
  <2> HIDE DEF n
  <2>6. Recursive(A, base, n, F)
    BY <1>1, <2>2, <2>5 DEF Recursive
  <2>7. PICK h \in [0 .. n -> A] : h[0] = base /\ \A i \in 1 .. n : h[i] = F[i][h[i - 1]]
    BY <2>6, Recursion
  <2>8. \A i \in 1 .. n : i - 1 \in 0 .. n /\ i \in 0 .. n /\ i # 0
    BY <1>1
  <2>9. \A i \in 1 .. n : h[i] = put(h[i - 1], i)
    BY <2>5, <2>7, <2>8
  <2>10. \A i \in 0 .. n : i # 0 => i \in 1 .. n
    BY <1>1
  <2>11. h = [i \in 0 .. n |-> h[i]]
    BY <2>7
  <2>12. \A i \in 0 .. n : h[i] = IF i = 0 THEN base ELSE put(h[i - 1], i)
    BY <2>7, <2>9, <2>10
  <2>13. h = [i \in 0 .. n |-> IF i = 0 THEN base ELSE put(h[i - 1], i)]
    BY <2>11, <2>12
  <2> USE DEF n, put, base
  <2>14. kept = [i \in 0 .. n |-> IF i = 0 THEN base ELSE put(kept[i - 1], i)]
    BY Zenon, <2>13
  <2> HIDE DEF kept, n, put, base
  <2>15. \A i \in 0 .. n : kept[i] = IF i = 0 THEN base ELSE put(kept[i - 1], i)
    BY <2>14
  <2>16. 0 \in 0 .. n /\ n \in 0 .. n
    BY <1>1
  <2>17. kept[0] = h[0]
    BY <2>7, <2>15, <2>16
  <2>18. ASSUME NEW i \in 1 .. n, \A j \in 1 .. n : j < i => kept[j] = h[j]
         PROVE  kept[i] = h[i]
    <3>1. i - 1 = 0 \/ (i - 1 \in 1 .. n /\ i - 1 < i)
      BY <1>1
    <3>2. kept[i - 1] = h[i - 1]
      BY <2>17, <2>18, <3>1
    <3> QED
      BY <2>8, <2>9, <2>15, <3>2
  <2>19. GoOnAlike(kept, h, n)
    BY <2>18 DEF GoOnAlike
  <2>20. Alike(kept, h, n)
    BY <1>1, <2>19, Agree
  <2>21. kept[n] = h[n]
    BY <2>10, <2>16, <2>17, <2>20 DEF Alike
  <2>22. kept[n].list \in Seq(Chat)
    BY <2>1, <2>7, <2>16, <2>21
  <2> QED
    BY <1>2, <1>4, <2>22
<1> QED
  BY <1>3, <1>4

\* Paired asks of a sequence of messages what WellFormed does.
LEMMA PairedIsWellFormed ==
  ASSUME NEW m \in Seq(Chat)
  PROVE  Paired(m) <=> WellFormed(m)
<1>1. \A i \in DOMAIN m : m[i] \in Chat /\ m[i].n \in Nat
  <2>1. \A i \in DOMAIN m : m[i] \in Chat
    OBVIOUS
  <2>2. \A x \in Chat : x.n \in Nat
    BY DEF Chat
  <2> QED
    BY <2>1, <2>2
<1>2. \A x \in Chat : x.role = "assistant" <=> x = Said("assistant", x.n)
  BY DEF Chat, Said
<1>3. ASSUME NEW i \in DOMAIN m, i > m[i].n
      PROVE  m[i - m[i].n] \in Chat
  <2>1. i - m[i].n \in DOMAIN m
    BY <1>1, <1>3
  <2> QED
    BY <1>1, <2>1
<1>4. ASSUME NEW i \in DOMAIN m, i > m[i].n
      PROVE  m[i - m[i].n].role = "assistant"
               <=> m[i - m[i].n] = Said("assistant", m[i - m[i].n].n)
  <2>1. PICK x : x = m[i - m[i].n]
    OBVIOUS
  <2>2. x \in Chat
    BY <1>3, <1>4, <2>1
  <2>3. x.role = "assistant" <=> x = Said("assistant", x.n)
    BY <1>2, <2>2
  <2> QED
    BY <2>1, <2>3
<1>5. \A j : Said("tool", j) = [role |-> "tool", n |-> j]
  BY DEF Said
<1> QED
  BY <1>4, <1>5 DEF Paired, WellFormed

LEMMA PairedConcat ==
  ASSUME NEW a \in Seq(Chat), NEW b \in Seq(Chat), Paired(a), Paired(b)
  PROVE  a \o b \in Seq(Chat) /\ Paired(a \o b)
<1>1. WellFormed(a) /\ WellFormed(b)
  BY PairedIsWellFormed
<1>2. a \o b \in Seq(Chat) /\ WellFormed(a \o b)
  BY <1>1, WellFormedConcat
<1> QED
  BY <1>2, PairedIsWellFormed

LEMMA ChatsOfMessages ==
  ASSUME NEW m \in Seq(Message)
  PROVE  m \in Seq(Chat)
BY MessagesAreChats, SeqMonotonic

\* What is neither a call nor a result may stand anywhere.
LEMMA PairedPlain ==
  ASSUME NEW role \in {"user", "system"}
  PROVE  <<Said(role, 0)>> \in Seq(Chat) /\ Paired(<<Said(role, 0)>>)
<1>1. Said(role, 0) \in Chat /\ Said(role, 0).role = role
  BY DEF Said, Chat
<1>2. PICK m : m = <<Said(role, 0)>>
  OBVIOUS
<1>3. m \in Seq(Chat) /\ DOMAIN m = {1} /\ m[1].role = role
  BY <1>1, <1>2
<1>4. Paired(m)
  BY <1>3 DEF Paired
<1> QED
  BY <1>2, <1>3, <1>4

LEMMA PairedEmpty == <<>> \in Seq(Chat) /\ Paired(<<>>)
BY DEF Paired

LEMMA BlockPaired ==
  ASSUME NEW s \in StepRecord, s.said = s.calls
  PROVE  Paired(Block(s))
<1>1. PICK m : m = Block(s)
  OBVIOUS
<1>2. PICK k \in Nat : k = s.calls
  BY DEF StepRecord
<1>3. /\ m \in Seq(Message) /\ Len(m) = 1 + k /\ m[1] = Said("assistant", k)
      /\ \A j \in 1 .. k : m[1 + j] = Said("tool", j)
  BY <1>1, <1>2, BlockType
<1>4. DOMAIN m = 1 .. 1 + k
  BY <1>3
<1>5. ASSUME NEW i \in DOMAIN m
      PROVE  /\ m[i].role = "assistant" =>
                  \A j \in 1 .. m[i].n : i + j \in DOMAIN m /\ m[i + j] = Said("tool", j)
             /\ m[i].role = "tool" =>
                  i > m[i].n /\ m[i - m[i].n] = Said("assistant", m[i - m[i].n].n)
  <2>1. CASE i = 1
    <3>1. m[i].role = "assistant" /\ m[i].n = k
      BY <1>3, <2>1 DEF Said
    <3> QED
      BY <1>3, <1>4, <2>1, <3>1
  <2>2. CASE i # 1
    <3>1. i - 1 \in 1 .. k /\ 1 + (i - 1) = i
      BY <1>4, <2>2
    <3>2. m[i] = Said("tool", i - 1)
      BY <1>3, <3>1
    <3>3. m[i].role = "tool" /\ m[i].n = i - 1
      BY <3>2 DEF Said
    <3>4. i > m[i].n /\ i - m[i].n = 1
      BY <1>4, <3>3
    <3>5. m[1] = Said("assistant", m[1].n)
      BY <1>3 DEF Said
    <3> QED
      BY <3>3, <3>4, <3>5
  <2> QED
    BY <2>1, <2>2
<1> QED
  BY <1>1, <1>5 DEF Paired

LEMMA HistoriesPaired ==
  ASSUME NEW h \in Histories
  PROVE  h \in Seq(Chat) /\ Paired(h)
<1>1. CASE h = <<>>
  BY <1>1, PairedEmpty
<1>2. CASE h = <<Said("user", 0), Said("assistant", 0)>>
  <2>1. h \in Seq(Chat)
    BY <1>2 DEF Said, Chat
  <2>2. DOMAIN h = 1 .. 2 /\ h[1].role = "user" /\ h[2].role = "assistant" /\ h[2].n = 0
    BY <1>2 DEF Said
  <2> QED
    BY <2>1, <2>2 DEF Paired
<1>3. CASE h = <<Said("user", 0), Said("assistant", 1), Said("tool", 1), Said("assistant", 0)>>
  <2>1. h \in Seq(Chat)
    BY <1>3 DEF Said, Chat
  <2>2. /\ DOMAIN h = 1 .. 4 /\ h[1].role = "user" /\ h[2].role = "assistant" /\ h[2].n = 1
        /\ h[2] = Said("assistant", 1) /\ h[3] = Said("tool", 1)
        /\ h[3].role = "tool" /\ h[3].n = 1 /\ h[4].role = "assistant" /\ h[4].n = 0
    BY <1>3 DEF Said
  <2>3. ASSUME NEW i \in 1 .. 4
        PROVE  /\ h[i].role = "assistant" =>
                    \A j \in 1 .. h[i].n : i + j \in DOMAIN h /\ h[i + j] = Said("tool", j)
               /\ h[i].role = "tool" =>
                    i > h[i].n /\ h[i - h[i].n] = Said("assistant", h[i - h[i].n].n)
    <3>1. i = 1 \/ i = 2 \/ i = 3 \/ i = 4
      OBVIOUS
    <3> QED
      BY <2>2, <3>1
  <2> QED
    BY <2>1, <2>2, <2>3 DEF Paired
<1> QED
  BY <1>1, <1>2, <1>3 DEF Histories

-----------------------------------------------------------------------------
(* The invariant of a run. *)

\* The context that precedes the loop.
Prepared ==
  /\ asked \in Asked /\ history \in Histories
  /\ window \in Seq(Chat) /\ opening \in Seq(Chat)
  /\ asked.budget = Unlimited => Paired(window) /\ Paired(opening)

\* The steps hold what the counters of the loop say.
Recorded ==
  /\ steps \in Seq(StepRecord)
  /\ CallsOf(steps) = charged
  /\ ErrorsOf(steps) \in charged - executed .. charged
  /\ Cardinality(AgainOf(steps)) = replanCount
  /\ Len(TraceOf(steps)) = Len(steps) + charged
  /\ Obedient => Paired(TraceOf(steps))

\* What the steps say is what the messages say, or one reply ahead of them.
Ahead == \E n \in 0 .. MaxCalls : TraceOf(steps) = SpokenOf(messages) \o <<Said("assistant", n)>>

Level == TraceOf(steps) = SpokenOf(messages)

LastStep == steps[Len(steps)]

\* What they say where run stands.
Placed ==
  /\ at = "planning" => steps = <<>> /\ messages = <<>>
  /\ at \in {"planning", "looping", "deciding"} => result = NoResult
  /\ at \in {"planning", "looping", "finalizing"} => Level
  /\ at = "deciding" =>
       /\ steps # <<>> /\ TraceOf(steps) = SpokenOf(messages) \o Block(LastStep)
       /\ LastStep.said = step.calls /\ LastStep.calls = step.calls
       /\ ~ LastStep.again /\ LastStep.status # "finalizing"
  /\ at \in {"saving", "done"} => Level \/ Ahead
  /\ at \in {"saving", "done"} /\ result.reason = "final_response" =>
       LastStep.calls = 0 /\ LastStep.status # "finalizing"
  /\ at = "finalizing" => result.reason # "final_response"
  /\ at # "failed" => Len(steps) = chats

Kept ==
  /\ at \notin {"done", "failed"} => saved = <<>>
  /\ at = "done" =>
       /\ saved = window \o TraceOf(steps)
       /\ metadata = [completed |-> IF result.reason = "final_response" THEN "yes" ELSE "no",
                      stop_reason |-> result.reason,
                      step_count |-> Len(steps),
                      tool_call_count |-> CallsOf(steps),
                      tool_error_count |-> ErrorsOf(steps),
                      replan_count |-> Cardinality(AgainOf(steps))]
  /\ at = "failed" /\ saved # <<>> =>
       /\ saved = window \o TraceOf(steps) /\ metadata = <<>>
       /\ Len(steps) = chats - 1 /\ Level

RunInv == Prepared /\ Recorded /\ Placed /\ Kept

LEMMA Views ==
  /\ Trace = TraceOf(steps) /\ Spoken = SpokenOf(messages)
  /\ CallsOf(steps) = Total([i \in DOMAIN steps |-> steps[i].calls])
  /\ ErrorsOf(steps) = Total([i \in DOMAIN steps |-> steps[i].calls - steps[i].good])
  /\ Replans = Cardinality(AgainOf(steps))
BY Zenon DEF Trace, TraceOf, Block, Spoken, SpokenOf, CallsOf, ErrorsOf, Replans, AgainOf

LEMMA NothingSaid == TraceOf(<<>>) = <<>> /\ SpokenOf(<<>>) = <<>>
<1>1. ASSUME NEW f, f = <<>> PROVE FlattenSeq(f) = <<>>
  BY <1>1 DEF FlattenSeq
<1>2. [i \in DOMAIN <<>> |-> Block(<<>>[i])] = <<>>
  OBVIOUS
<1>3. [i \in DOMAIN <<>> |-> IF <<>>[i].role = "system" THEN <<>> ELSE <<(<<>>)[i]>>] = <<>>
  OBVIOUS
<1> QED
  BY <1>1, <1>2, <1>3, Zenon DEF TraceOf, SpokenOf

LEMMA Regroup ==
  ASSUME NEW a \in Nat, NEW b \in Nat, NEW c \in Nat
  PROVE  (a + b) + (1 + c) = (a + 1) + (b + c)
OBVIOUS

LEMMA StillBetween ==
  ASSUME NEW f \in Nat, NEW a \in Nat, NEW b \in Nat, f \in a - b .. a,
         NEW c \in Nat, NEW g \in Nat, NEW e \in Nat, g <= e, e <= c
  PROVE  f + (c - g) \in (a + c) - (b + e) .. a + c
OBVIOUS

\* A step that is recorded, with e of its calls executed.
LEMMA Record ==
  ASSUME TypeOK, Recorded, NEW x \in StepRecord, ~ x.again, x.said = x.calls \/ ~ Obedient,
         NEW e \in Nat, x.good <= e, e <= x.calls,
         steps' = Append(steps, x), charged' = charged + x.calls, executed' = executed + e,
         replanCount' = replanCount
  PROVE  /\ Recorded' /\ Len(steps') = Len(steps) + 1 /\ steps' # <<>>
         /\ LastStep' = x /\ TraceOf(steps') = TraceOf(steps) \o Block(x)
<1>1. steps \in Seq(StepRecord) /\ charged \in Nat /\ executed \in Nat
  BY DEF Recorded, TypeOK
<1>2. x.calls \in Nat /\ x.good \in Nat
  BY DEF StepRecord
<1>3. /\ TraceOf(steps) \in Seq(Message) /\ TraceOf(steps') = TraceOf(steps) \o Block(x)
  BY <1>1, TraceOfAppend
<1>4. Block(x) \in Seq(Message) /\ Len(Block(x)) = 1 + x.calls
  BY BlockType
<1>5. /\ steps' \in Seq(StepRecord) /\ Len(steps') = Len(steps) + 1 /\ steps' # <<>>
      /\ steps'[Len(steps')] = x /\ Len(steps) \in Nat
  BY <1>1
<1>6. /\ CallsOf(steps') = CallsOf(steps) + x.calls
      /\ ErrorsOf(steps') = ErrorsOf(steps) + (x.calls - x.good) /\ ErrorsOf(steps) \in Nat
      /\ AgainOf(steps') = AgainOf(steps)
  BY <1>1, CountsOfAppend
<1>7. CallsOf(steps') = charged' /\ Cardinality(AgainOf(steps')) = replanCount'
  BY <1>6 DEF Recorded
<1>8. ErrorsOf(steps') \in charged' - executed' .. charged'
  <2>1. ErrorsOf(steps) \in charged - executed .. charged
    BY DEF Recorded
  <2>2. ErrorsOf(steps) + (x.calls - x.good) \in (charged + x.calls) - (executed + e) .. charged + x.calls
    BY <1>1, <1>2, <1>6, <2>1, StillBetween
  <2> QED
    BY <1>6, <2>2
<1>9. Len(TraceOf(steps')) = Len(steps') + charged'
  <2>1. Len(TraceOf(steps) \o Block(x)) = Len(TraceOf(steps)) + Len(Block(x))
    BY <1>3, <1>4, ConcatProperties
  <2>2. Len(TraceOf(steps)) = Len(steps) + charged
    BY DEF Recorded
  <2>3. Len(TraceOf(steps')) = (Len(steps) + charged) + (1 + x.calls)
    BY <1>3, <1>4, <2>1, <2>2
  <2>4. Len(steps) \in Nat /\ charged \in Nat /\ x.calls \in Nat
    BY <1>1, <1>2
  <2>5. (Len(steps) + charged) + (1 + x.calls) = (Len(steps) + 1) + (charged + x.calls)
    BY <2>4, Regroup
  <2> QED
    BY <1>5, <2>3, <2>5
<1>10. ASSUME Obedient PROVE Paired(TraceOf(steps'))
  <2>1. Paired(TraceOf(steps))
    BY <1>10 DEF Recorded
  <2>2. Paired(Block(x))
    BY <1>10, BlockPaired
  <2>3. TraceOf(steps) \in Seq(Chat) /\ Block(x) \in Seq(Chat)
    BY <1>3, <1>4, ChatsOfMessages
  <2>4. Paired(TraceOf(steps) \o Block(x))
    BY <2>1, <2>2, <2>3, PairedConcat
  <2> QED
    BY <1>3, <2>4
<1>11. Recorded'
  BY <1>5, <1>7, <1>8, <1>9, <1>10 DEF Recorded
<1>12. LastStep' = x
  BY <1>5 DEF LastStep
<1> QED
  BY <1>3, <1>5, <1>11, <1>12

\* What a round sends back is what its step adds to the trace.
LEMMA FeedbackIsBlock ==
  ASSUME NEW s \in StepRecord, s.said = step.calls, s.calls = step.calls
  PROVE  Feedback = Block(s)
BY Zenon DEF Feedback, AssistantMessage, ToolMessage, Block, Said

\* Messages that go up to the trace.
LEMMA CatchUp ==
  ASSUME TypeOK, Recorded, Placed, at = "deciding"
  PROVE  /\ TraceOf(steps) = SpokenOf(messages \o Feedback)
         /\ TraceOf(steps) = SpokenOf(messages \o Feedback \o <<Notice>>)
<1>1. LastStep \in StepRecord /\ steps \in Seq(StepRecord)
  BY DEF Recorded, Placed, LastStep
<1>2. /\ LastStep.said = step.calls /\ LastStep.calls = step.calls
      /\ TraceOf(steps) = SpokenOf(messages) \o Block(LastStep)
  BY DEF Placed
<1>3. Feedback = Block(LastStep)
  BY <1>1, <1>2, FeedbackIsBlock
<1>4. messages \in Seq(Message) /\ Feedback \in Seq(Message)
  BY FeedbackType, Numbers
<1>5. \A i \in 1 .. Len(Feedback) : Feedback[i].role # "system"
  <2>1. step.calls \in Nat
    BY Numbers, AgentAssumption
  <2>2. SUFFICES ASSUME NEW i \in 1 .. step.calls + 1 PROVE Feedback[i].role # "system"
    BY FeedbackType
  <2>3. i = 1 \/ (i - 1 \in 1 .. step.calls /\ 1 + (i - 1) = i)
    BY <2>1
  <2>4. Feedback[1].role = "assistant" /\ \A j \in 1 .. step.calls : Feedback[1 + j].role = "tool"
    <3>1. PICK g : g = Feedback
      OBVIOUS
    <3>2. /\ g[1] = [role |-> "assistant", n |-> step.calls]
          /\ \A j \in 1 .. step.calls : g[1 + j] = [role |-> "tool", n |-> j]
      BY <3>1, FeedbackType
    <3>3. g[1].role = "assistant"
      BY <3>2
    <3>4. ASSUME NEW j \in 1 .. step.calls PROVE g[1 + j].role = "tool"
      <4>1. g[1 + j] = [role |-> "tool", n |-> j]
        BY <3>2
      <4> QED
        BY <4>1
    <3> QED
      BY <3>1, <3>3, <3>4
  <2> QED
    BY <2>3, <2>4
<1>6. SpokenOf(messages \o Feedback) = SpokenOf(messages) \o Feedback
  BY <1>4, <1>5, SpokenOfConcat
<1>7. SpokenOf(messages \o Feedback \o <<Notice>>) = SpokenOf(messages \o Feedback)
  <2>1. PICK m : m = messages \o Feedback
    OBVIOUS
  <2>2. m \in Seq(Message)
    BY <1>4, <2>1
  <2>3. Notice \in Message /\ Notice.role = "system"
    BY AgentAssumption DEF Notice, Message
  <2>4. m \o <<Notice>> = Append(m, Notice)
    BY <2>2, <2>3, AppendIsConcat
  <2>5. SpokenOf(Append(m, Notice)) = SpokenOf(m) \o <<>> /\ SpokenOf(m) \in Seq(Message)
    BY <2>2, <2>3, SpokenOfAppend
  <2>6. SpokenOf(m) \o <<>> = SpokenOf(m)
    BY <2>5
  <2> QED
    BY <2>1, <2>4, <2>5, <2>6
<1> QED
  BY <1>2, <1>3, <1>6, <1>7

\* What a notice adds to the messages is not said by anyone.
LEMMA Noticed ==
  ASSUME TypeOK
  PROVE  SpokenOf(Append(messages, Notice)) = SpokenOf(messages)
<1>1. Notice \in Message /\ Notice.role = "system" /\ messages \in Seq(Message)
  BY AgentAssumption, Numbers DEF Notice, Message
<1>2. /\ SpokenOf(Append(messages, Notice)) = SpokenOf(messages) \o <<>>
      /\ SpokenOf(messages) \in Seq(Message)
  BY <1>1, SpokenOfAppend
<1> QED
  BY <1>2

\* Everything that the loop does not say.
Aside == <<asked, history, window, opening>>

LEMMA StillPrepared ==
  ASSUME Prepared, UNCHANGED Aside
  PROVE  Prepared'
BY DEF Prepared, Aside

LEMMA StillRecorded ==
  ASSUME Recorded, UNCHANGED <<steps, charged, executed, replanCount>>
  PROVE  Recorded'
BY DEF Recorded

LEMMA ContextType ==
  ASSUME Prepared
  PROVE  /\ BuiltContext \in Seq(Chat)
         /\ asked.budget = Unlimited => Paired(BuiltContext)
<1>1. history \in Seq(Chat) /\ Paired(history)
  BY HistoriesPaired DEF Prepared
<1>2. InitialMessages \in Seq(Chat) /\ Paired(InitialMessages)
  BY PairedPlain DEF InitialMessages
<1>3. PICK m : m = history \o InitialMessages
  OBVIOUS
<1>4. m \in Seq(Chat) /\ Paired(m)
  BY <1>1, <1>2, <1>3, PairedConcat
<1>5. asked.budget \in Nat \cup {Unlimited}
  BY AgentRunAssumption DEF Prepared
<1>6. /\ Within(m, asked.budget) \in Seq(Chat)
      /\ asked.budget = Unlimited => Within(m, asked.budget) = m
  BY <1>4, <1>5, WithinType
<1> QED
  BY <1>3, <1>4, <1>6 DEF BuiltContext

LEMMA PrepareKeeps ==
  ASSUME TypeOK, RunInv, Prepare
  PROVE  RunInv'
<1>1. Prepared /\ Recorded /\ Placed /\ Kept
  BY DEF RunInv
<1>2. /\ at = "planning" /\ at' = "looping"
      /\ UNCHANGED <<messages, charged, executed, replanCount, chats, result,
                     asked, history, steps, saved, metadata>>
  BY DEF Prepare, MakePlan
<1>3. window' \in Seq(Chat) /\ (asked.budget = Unlimited => Paired(window'))
  <2>1. PICK memory \in {<<>>, <<Said("system", 0)>>} : window' = BuiltContext \o memory
    <3>1. Memories(policy') \subseteq {<<>>, <<Said("system", 0)>>}
      BY DEF Memories
    <3> QED
      BY <3>1 DEF Prepare, WithSegments
  <2>2. memory \in Seq(Chat) /\ Paired(memory)
    BY PairedPlain, PairedEmpty
  <2>3. BuiltContext \in Seq(Chat) /\ (asked.budget = Unlimited => Paired(BuiltContext))
    BY <1>1, ContextType
  <2>4. window' \in Seq(Chat)
    BY <2>1, <2>2, <2>3
  <2> QED
    BY <2>1, <2>2, <2>3, <2>4, PairedConcat
<1>4. opening' \in Seq(Chat) /\ (asked.budget = Unlimited => Paired(opening'))
  <2>1. opening' = SkillMessage \o PlanMessage \o window'
    BY DEF Prepare, ProviderMessages
  <2>2. SkillMessage \in Seq(Chat) /\ Paired(SkillMessage)
    BY PairedPlain, PairedEmpty DEF SkillMessage
  <2>3. PlanMessage \in Seq(Chat) /\ Paired(PlanMessage)
    BY PairedPlain, PairedEmpty DEF PlanMessage
  <2>4. SkillMessage \o PlanMessage \in Seq(Chat) /\ Paired(SkillMessage \o PlanMessage)
    BY <2>2, <2>3, PairedConcat
  <2>5. opening' \in Seq(Chat)
    BY <1>3, <2>1, <2>4
  <2> QED
    BY <1>3, <2>1, <2>4, <2>5, PairedConcat
<1>5. Prepared'
  BY <1>1, <1>2, <1>3, <1>4 DEF Prepared
<1>6. Recorded'
  BY <1>1, <1>2, StillRecorded
<1>7. Placed'
  BY <1>1, <1>2 DEF Placed, Level
<1>8. Kept'
  BY <1>1, <1>2 DEF Kept
<1> QED
  BY <1>5, <1>6, <1>7, <1>8 DEF RunInv

LEMMA Rounds ==
  ASSUME NEW calls \in BoundedSeq(Tool, MaxCalls)
  PROVE  Len(calls) \in 0 .. MaxCalls /\ DOMAIN calls = 1 .. Len(calls)
<1>1. PICK m \in 0 .. MaxCalls : calls \in [1 .. m -> Tool]
  BY DEF BoundedSeq, SeqOf
<1>2. m \in Nat /\ calls \in Seq(Tool) /\ Len(calls) = m
  BY <1>1
<1> QED
  BY <1>1, <1>2

\* A call beyond the limits is no success.
LEMMA Successes ==
  ASSUME TypeOK, NEW calls \in BoundedSeq(Tool, MaxCalls), NEW results \in Results(calls)
  PROVE  /\ Cardinality({i \in DOMAIN results : results[i] # "failed"}) \in Nat
         /\ Cardinality({i \in DOMAIN results : results[i] # "failed"}) <= Executable(Len(calls))
<1>1. PICK k \in 0 .. MaxCalls : k = Len(calls) /\ DOMAIN calls = 1 .. k
  BY Rounds
<1>2. PICK e \in Nat : e = Executable(k)
  BY Executed
<1>3. /\ DOMAIN results = 1 .. k
      /\ \A i \in 1 .. k : i > e => results[i] = "failed"
  BY <1>1, <1>2 DEF Results, LimitResult
<1>4. PICK S : S = {i \in DOMAIN results : results[i] # "failed"}
  OBVIOUS
<1>5. S \subseteq 1 .. e
  BY <1>2, <1>3, <1>4
<1>6. IsFiniteSet(1 .. e) /\ Cardinality(1 .. e) = e
  BY <1>2, FS_Interval
<1>7. IsFiniteSet(S) /\ Cardinality(S) <= e
  BY <1>5, <1>6, FS_Subset
<1>8. Cardinality(S) \in Nat
  BY <1>7, FS_CardinalityType
<1> QED
  BY <1>1, <1>2, <1>4, <1>7, <1>8

LEMMA RespondKeeps ==
  ASSUME TypeOK, RunInv, Respond
  PROVE  RunInv'
<1>1. Prepared /\ Recorded /\ Placed /\ Kept
  BY DEF RunInv
<1>2. PICK calls \in BoundedSeq(Tool, MaxCalls) : \E results \in Results(calls) :
        /\ Round(Len(calls), Deviates(Expected, calls, results) \/ Changed(results))
        /\ steps' = Append(steps,
                      AgentStep(Len(calls), Len(calls),
                                Cardinality({i \in DOMAIN results : results[i] # "failed"}),
                                Status(calls, results)))
        /\ UNCHANGED <<asked, history, window, opening, saved, metadata>>
  BY DEF Respond
<1>3. PICK results \in Results(calls) :
        /\ Round(Len(calls), Deviates(Expected, calls, results) \/ Changed(results))
        /\ steps' = Append(steps,
                      AgentStep(Len(calls), Len(calls),
                                Cardinality({i \in DOMAIN results : results[i] # "failed"}),
                                Status(calls, results)))
        /\ UNCHANGED <<asked, history, window, opening, saved, metadata>>
  BY <1>2
<1>4. PICK k \in 0 .. MaxCalls : k = Len(calls)
  BY Rounds
<1>5. PICK e \in Nat : e = Executable(k) /\ e <= k
  BY Executed
<1>6. PICK good \in Nat :
        good = Cardinality({i \in DOMAIN results : results[i] # "failed"}) /\ good <= e
  BY <1>4, <1>5, Successes
<1>7. PICK status : status = Status(calls, results)
  OBVIOUS
<1>8. status \in {"untracked", "unplanned", "deviated", "in_progress", "completed"}
  BY <1>7 DEF Status
<1>9. PICK x : x = AgentStep(k, k, good, status)
  OBVIOUS
<1>10. /\ x \in StepRecord /\ ~ x.again /\ x.said = k /\ x.calls = k /\ x.good = good
       /\ x.status # "finalizing"
  <2>1. good \in 0 .. MaxCalls /\ good <= k
    BY <1>4, <1>5, <1>6, AgentAssumption
  <2> QED
    BY <1>4, <1>8, <1>9, <2>1 DEF AgentStep, StepRecord
<1>11. steps' = Append(steps, x) /\ UNCHANGED <<asked, history, window, opening, saved, metadata>>
  BY <1>3, <1>4, <1>6, <1>7, <1>9
<1>12. /\ at = "looping" /\ at' = "deciding" /\ chats' = chats + 1
       /\ executed' = executed + e /\ charged' = charged + k
       /\ step'.calls = k
       /\ UNCHANGED <<replanCount, messages, result>>
  BY <1>3, <1>4, <1>5 DEF Round
<1>13. /\ Recorded' /\ Len(steps') = Len(steps) + 1 /\ steps' # <<>>
       /\ LastStep' = x /\ TraceOf(steps') = TraceOf(steps) \o Block(x)
  BY <1>1, <1>5, <1>6, <1>10, <1>11, <1>12, Record
<1>14. Prepared'
  BY <1>1, <1>11, StillPrepared DEF Aside
<1>15. Placed'
  <2>1. result = NoResult /\ Level /\ Len(steps) = chats
    BY <1>1, <1>12 DEF Placed
  <2>2. TraceOf(steps') = SpokenOf(messages') \o Block(LastStep')
    BY <1>12, <1>13, <2>1 DEF Level
  <2> QED
    BY <1>10, <1>12, <1>13, <2>1, <2>2 DEF Placed
<1>16. Kept'
  BY <1>1, <1>11, <1>12 DEF Kept
<1> QED
  BY <1>13, <1>14, <1>15, <1>16 DEF RunInv

LEMMA BreakKeeps ==
  ASSUME TypeOK, RunInv, Break
  PROVE  RunInv'
<1>1. Prepared /\ Recorded /\ Placed /\ Kept
  BY DEF RunInv
<1>2. /\ at = "looping" /\ at' = "failed" /\ chats' = chats + 1
      /\ \/ saved' = Snapshot /\ metadata' = <<>>
         \/ UNCHANGED <<saved, metadata>>
      /\ UNCHANGED <<charged, executed, replanCount, messages, result,
                     asked, history, window, opening, steps>>
  BY DEF Break, RoundFails
<1>3. Snapshot = window \o TraceOf(steps)
  BY Views DEF Snapshot
<1>4. Prepared' /\ Recorded'
  BY <1>1, <1>2, StillPrepared, StillRecorded DEF Aside
<1>5. Placed'
  BY <1>2 DEF Placed
<1>6. Kept'
  <2>1. saved = <<>> /\ Len(steps) = chats /\ Level /\ chats \in Nat
    BY <1>1, <1>2, Numbers DEF Kept, Placed
  <2>2. Level'
    BY <1>2, <2>1 DEF Level
  <2>3. Len(steps') = chats' - 1
    BY <1>2, <2>1
  <2>4. saved' # <<>> => saved' = window' \o TraceOf(steps') /\ metadata' = <<>>
    BY <1>2, <1>3, <2>1
  <2> QED
    BY <1>2, <2>2, <2>3, <2>4 DEF Kept
<1> QED
  BY <1>4, <1>5, <1>6 DEF RunInv

\* What may follow the decision, when it goes on.
LEMMA Continued ==
  ASSUME Placed, at = "deciding", Continue
  PROVE  /\ at' \in {"looping", "finalizing", "saving"}
         /\ at' = "looping" => result' = NoResult
         /\ result'.reason # "final_response"
<1>1. result = NoResult
  BY DEF Placed
<1> QED
  BY <1>1 DEF Continue, NoResult

LEMMA ReplanForKeeps ==
  ASSUME TypeOK, RunInv, ReplanFor
  PROVE  RunInv'
<1>1. Prepared /\ Recorded /\ Placed /\ Kept
  BY DEF RunInv
<1>2. /\ at = "deciding" /\ Continue /\ replanCount' = replanCount + 1
      /\ messages' = messages \o Feedback \o <<Notice>>
      /\ UNCHANGED <<charged, executed, chats, asked, history, window, opening, saved, metadata>>
  BY DEF ReplanFor, Replan
<1>3. steps' = Marked(steps) /\ steps \in Seq(StepRecord) /\ steps # <<>>
  BY <1>1, <1>2 DEF ReplanFor, Marked, Recorded, Placed
<1>4. /\ steps' \in Seq(StepRecord) /\ Len(steps') = Len(steps)
      /\ TraceOf(steps') = TraceOf(steps) /\ CallsOf(steps') = CallsOf(steps)
      /\ ErrorsOf(steps') = ErrorsOf(steps)
      /\ AgainOf(steps') = AgainOf(steps) \cup {Len(steps)}
  BY <1>3, MarkedSteps
<1>5. Cardinality(AgainOf(steps')) = Cardinality(AgainOf(steps)) + 1
  <2>1. ~ steps[Len(steps)].again
    BY <1>1, <1>2 DEF Placed, LastStep
  <2> QED
    BY <1>3, <1>4, <2>1, AgainCounted
<1>6. Recorded'
  <2>1. steps' \in Seq(StepRecord) /\ CallsOf(steps') = charged'
    BY <1>1, <1>2, <1>4 DEF Recorded
  <2>2. ErrorsOf(steps') \in charged' - executed' .. charged'
    BY <1>1, <1>2, <1>4 DEF Recorded
  <2>3. Cardinality(AgainOf(steps')) = replanCount'
    BY <1>1, <1>2, <1>5 DEF Recorded
  <2>4. Len(TraceOf(steps')) = Len(steps') + charged' /\ (Obedient => Paired(TraceOf(steps')))
    BY <1>1, <1>2, <1>4 DEF Recorded
  <2> QED
    BY <2>1, <2>2, <2>3, <2>4 DEF Recorded
<1>7. Level'
  BY <1>1, <1>2, <1>4, CatchUp DEF Level
<1>8. /\ at' \in {"looping", "finalizing", "saving"}
      /\ at' = "looping" => result' = NoResult
      /\ result'.reason # "final_response"
  BY <1>1, <1>2, Continued
<1>9. Len(steps') = chats'
  BY <1>1, <1>2, <1>4 DEF Placed
<1>10. Placed'
  BY <1>7, <1>8, <1>9 DEF Placed
<1>11. Kept'
  BY <1>1, <1>2, <1>8 DEF Kept
<1> QED
  BY <1>1, <1>2, <1>6, <1>10, <1>11, StillPrepared DEF RunInv, Aside

LEMMA ConcludeKeeps ==
  ASSUME TypeOK, RunInv, Conclude
  PROVE  RunInv'
<1>1. Prepared /\ Recorded /\ Placed /\ Kept
  BY DEF RunInv
<1>2. /\ at = "finalizing" /\ at' = "saving" /\ chats' = chats + 1
      /\ messages' = Append(messages, Notice) /\ result'.reason = result.reason
      /\ UNCHANGED <<charged, executed, replanCount, asked, history, window, opening, saved,
                     metadata>>
  BY DEF Conclude, Finalize, TypeOK
<1>3. PICK said \in IF Obedient THEN {0} ELSE 0 .. MaxCalls :
        steps' = Append(steps, AgentStep(said, 0, 0, IF PlanIsFollowed THEN "finalizing"
                                                                       ELSE "untracked"))
  BY DEF Conclude
<1>4. PICK x : x = AgentStep(said, 0, 0, IF PlanIsFollowed THEN "finalizing" ELSE "untracked")
  OBVIOUS
<1>5. said \in 0 .. MaxCalls
  BY AgentAssumption
<1>6. /\ x \in StepRecord /\ ~ x.again /\ x.said = said /\ x.calls = 0 /\ x.good = 0
      /\ x.said = x.calls \/ ~ Obedient
  BY <1>4, <1>5, AgentAssumption DEF AgentStep, StepRecord
<1>7. steps' = Append(steps, x)
  BY <1>3, <1>4
<1>8. PICK e \in Nat : /\ x.good <= e /\ e <= x.calls
                      /\ charged' = charged + x.calls /\ executed' = executed + e
  <2>1. charged' = charged + 0 /\ executed' = executed + 0
    BY <1>2, Numbers
  <2> QED
    BY <1>6, <2>1
<1>9. /\ Recorded' /\ Len(steps') = Len(steps) + 1
      /\ TraceOf(steps') = TraceOf(steps) \o Block(x)
  BY <1>1, <1>2, <1>6, <1>7, <1>8, Record
<1>10. Block(x) = <<Said("assistant", said)>>
  <2>1. PICK b : b = <<Said("assistant", said)>>
    OBVIOUS
  <2>2. Block(x) = b \o [j \in 1 .. 0 |-> Said("tool", j)]
    BY <1>6, <2>1 DEF Block
  <2>3. [j \in 1 .. 0 |-> Said("tool", j)] = <<>>
    OBVIOUS
  <2>4. b \o <<>> = b
    BY <2>1
  <2> QED
    BY <2>1, <2>2, <2>3, <2>4
<1>11. Ahead'
  <2>1. SpokenOf(messages') = SpokenOf(messages)
    BY <1>2, Noticed
  <2>2. Level
    BY <1>1, <1>2 DEF Placed
  <2>3. TraceOf(steps') = SpokenOf(messages') \o <<Said("assistant", said)>>
    BY <1>9, <1>10, <2>1, <2>2 DEF Level
  <2> QED
    BY <1>5, <2>3 DEF Ahead
<1>12. Placed'
  <2>1. result.reason # "final_response" /\ Len(steps) = chats
    BY <1>1, <1>2 DEF Placed
  <2> QED
    BY <1>2, <1>9, <1>11, <2>1 DEF Placed
<1>13. Kept'
  BY <1>1, <1>2 DEF Kept
<1> QED
  BY <1>1, <1>2, <1>9, <1>12, <1>13, StillPrepared DEF RunInv, Aside

LEMMA KeepKeeps ==
  ASSUME TypeOK, RunInv, Keep
  PROVE  RunInv'
<1>1. Prepared /\ Recorded /\ Placed /\ Kept
  BY DEF RunInv
<1>2. /\ at = "saving" /\ at' = "done"
      /\ UNCHANGED <<charged, executed, replanCount, messages, chats, result,
                     asked, history, window, opening, steps>>
      /\ saved' = Snapshot
      /\ metadata' = RunMetadata(IF result.reason = "final_response" THEN "yes" ELSE "no",
                                 result.reason)
  BY DEF Keep, Save
<1>3. Snapshot = window \o TraceOf(steps)
  BY Views DEF Snapshot
<1>4. metadata' = [completed |-> IF result.reason = "final_response" THEN "yes" ELSE "no",
                   stop_reason |-> result.reason,
                   step_count |-> Len(steps),
                   tool_call_count |-> CallsOf(steps),
                   tool_error_count |-> ErrorsOf(steps),
                   replan_count |-> Cardinality(AgainOf(steps))]
  BY <1>2, Views, Zenon DEF RunMetadata
<1>5. Prepared' /\ Recorded'
  BY <1>1, <1>2, StillPrepared, StillRecorded DEF Aside
<1>6. Placed'
  <2>1. (Level \/ Ahead)' /\ LastStep' = LastStep
    BY <1>1, <1>2 DEF Placed, Level, Ahead, LastStep
  <2> QED
    BY <1>1, <1>2, <2>1 DEF Placed
<1>7. Kept'
  <2>1. saved' = window' \o TraceOf(steps')
    BY <1>2, <1>3
  <2>2. metadata' = [completed |-> IF result'.reason = "final_response" THEN "yes" ELSE "no",
                   stop_reason |-> result'.reason,
                   step_count |-> Len(steps'),
                   tool_call_count |-> CallsOf(steps'),
                   tool_error_count |-> ErrorsOf(steps'),
                   replan_count |-> Cardinality(AgainOf(steps'))]
    BY <1>2, <1>4
  <2> QED
    BY <1>2, <2>1, <2>2 DEF Kept
<1> QED
  BY <1>5, <1>6, <1>7 DEF RunInv

\* What an action that goes on changes is where run stands.
LEMMA GoOnKeeps ==
  ASSUME TypeOK, RunInv, GoOn
  PROVE  RunInv'
<1>1. Prepared /\ Recorded /\ Placed /\ Kept
  BY DEF RunInv
<1>2. UNCHANGED <<asked, history, window, opening, steps, saved, metadata>>
  BY DEF GoOn, runVars
<1>3. UNCHANGED <<charged, executed, replanCount>>
  BY DEF GoOn, PrepareFails, ReplanFails, Answer, StopAtLimit, NextRound, FinalizeFails, SaveFails
<1>4. Prepared' /\ Recorded'
  BY <1>1, <1>2, <1>3, StillPrepared, StillRecorded DEF Aside
<1>5. LastStep' = LastStep
  BY <1>2 DEF LastStep
<1>6. CASE PrepareFails \/ ReplanFails \/ FinalizeFails \/ SaveFails
  <2>1. at \notin {"done", "failed"} /\ at' = "failed"
    BY <1>6 DEF PrepareFails, ReplanFails, FinalizeFails, SaveFails
  <2>2. Placed' /\ Kept'
    BY <1>1, <1>2, <2>1 DEF Placed, Kept
  <2> QED
    BY <1>4, <2>2 DEF RunInv
<1>7. CASE Answer
  <2>1. /\ at = "deciding" /\ at' = "saving" /\ step.calls = 0
        /\ UNCHANGED <<messages, chats>>
    BY <1>7 DEF Answer
  <2>2. /\ LastStep.said = 0 /\ LastStep.calls = 0 /\ LastStep.status # "finalizing"
        /\ TraceOf(steps) = SpokenOf(messages) \o Block(LastStep) /\ Len(steps) = chats
    BY <1>1, <2>1 DEF Placed
  <2>3. Block(LastStep) = <<Said("assistant", 0)>>
    <3>1. PICK b : b = <<Said("assistant", 0)>>
      OBVIOUS
    <3>2. Block(LastStep) = b \o [j \in 1 .. 0 |-> Said("tool", j)]
      BY <2>2, <3>1 DEF Block
    <3>3. [j \in 1 .. 0 |-> Said("tool", j)] = <<>>
      OBVIOUS
    <3>4. b \o <<>> = b
      BY <3>1
    <3> QED
      BY <3>1, <3>2, <3>3, <3>4
  <2>4. Ahead'
    <3>1. 0 \in 0 .. MaxCalls
      BY AgentAssumption
    <3>2. TraceOf(steps') = SpokenOf(messages') \o <<Said("assistant", 0)>>
      BY <1>2, <2>1, <2>2, <2>3
    <3> QED
      BY <3>1, <3>2 DEF Ahead
  <2>5. Placed'
    BY <1>2, <1>5, <2>1, <2>2, <2>4 DEF Placed
  <2>6. Kept'
    BY <1>1, <1>2, <2>1 DEF Kept
  <2> QED
    BY <1>4, <2>5, <2>6 DEF RunInv
<1>8. CASE StopAtLimit
  <2>1. /\ at = "deciding" /\ at' = "finalizing" /\ result'.reason = "tool_limit"
        /\ messages' = messages \o Feedback /\ UNCHANGED chats
    BY <1>8 DEF StopAtLimit
  <2>2. Level'
    BY <1>1, <1>2, <2>1, CatchUp DEF Level
  <2>3. Placed'
    BY <1>1, <1>2, <2>1, <2>2 DEF Placed
  <2>4. Kept'
    BY <1>1, <1>2, <2>1 DEF Kept
  <2> QED
    BY <1>4, <2>3, <2>4 DEF RunInv
<1>9. CASE NextRound
  <2>1. /\ at = "deciding" /\ Continue
        /\ messages' = messages \o Feedback /\ UNCHANGED chats
    BY <1>9 DEF NextRound
  <2>2. Level'
    BY <1>1, <1>2, <2>1, CatchUp DEF Level
  <2>3. /\ at' \in {"looping", "finalizing", "saving"}
        /\ at' = "looping" => result' = NoResult
        /\ result'.reason # "final_response"
    BY <1>1, <2>1, Continued
  <2>4. Placed'
    BY <1>1, <1>2, <2>1, <2>2, <2>3 DEF Placed
  <2>5. Kept'
    BY <1>1, <1>2, <2>1, <2>3 DEF Kept
  <2> QED
    BY <1>4, <2>4, <2>5 DEF RunInv
<1> QED
  BY <1>6, <1>7, <1>8, <1>9 DEF GoOn

LEMMA OthersKeep ==
  ASSUME RunInv, UNCHANGED <<vars, asked, history, window, opening, steps, saved, metadata>>
  PROVE  RunInv'
<1>1. Prepared /\ Recorded /\ Placed /\ Kept
  BY DEF RunInv
<1>2. /\ UNCHANGED <<at, result, messages, charged, executed, replanCount, chats, step>>
      /\ UNCHANGED <<asked, history, window, opening, steps, saved, metadata>>
  BY DEF vars
<1>3. Prepared' /\ Recorded'
  BY <1>1, <1>2, StillPrepared, StillRecorded DEF Aside
<1>4. LastStep' = LastStep /\ Level' = Level /\ Ahead' = Ahead
  BY <1>2 DEF LastStep, Level, Ahead
<1>5. Placed'
  BY <1>1, <1>2, <1>4 DEF Placed
<1>6. Kept'
  BY <1>1, <1>2, <1>4 DEF Kept
<1> QED
  BY <1>3, <1>5, <1>6 DEF RunInv

LEMMA RunStarts == RunInit => RunInv
<1> SUFFICES ASSUME RunInit PROVE RunInv
  OBVIOUS
<1>1. /\ at = "planning" /\ messages = <<>> /\ chats = 0 /\ charged = 0 /\ executed = 0
      /\ replanCount = 0 /\ result = NoResult
      /\ asked \in Asked /\ history \in Histories /\ window = <<>> /\ opening = <<>>
      /\ steps = <<>> /\ saved = <<>>
  BY DEF RunInit, Init
<1>2. Prepared
  BY <1>1, PairedEmpty DEF Prepared
<1>3. Recorded
  <2>1. TraceOf(steps) = <<>> /\ CallsOf(steps) = 0 /\ ErrorsOf(steps) = 0 /\ AgainOf(steps) = {}
    BY <1>1, NothingSaid, NothingCounted
  <2>2. Cardinality(AgainOf(steps)) = 0
    BY <2>1, FS_EmptySet
  <2>3. Len(TraceOf(steps)) = 0 /\ Len(steps) = 0 /\ steps \in Seq(StepRecord)
    BY <1>1, <2>1
  <2>4. Paired(TraceOf(steps))
    BY <2>1, PairedEmpty
  <2> QED
    BY <1>1, <2>1, <2>2, <2>3, <2>4 DEF Recorded
<1>4. Placed
  <2>1. Level
    BY <1>1, NothingSaid DEF Level
  <2>2. Len(steps) = 0
    BY <1>1
  <2> QED
    BY <1>1, <2>1, <2>2 DEF Placed
<1>5. Kept
  BY <1>1 DEF Kept
<1> QED
  BY <1>2, <1>3, <1>4, <1>5 DEF RunInv

LEMMA RunStep == TypeOK /\ RunInv /\ [RunNext]_allVars => RunInv'
<1> SUFFICES ASSUME TypeOK, RunInv, [RunNext]_allVars PROVE RunInv'
  OBVIOUS
<1>1. CASE ToolsChange
  BY <1>1, OthersKeep DEF ToolsChange
<1>2. CASE UNCHANGED allVars
  BY <1>2, OthersKeep DEF allVars, runVars
<1> QED
  BY <1>1, <1>2, PrepareKeeps, RespondKeeps, BreakKeeps, ReplanForKeeps, ConcludeKeeps, KeepKeeps,
     GoOnKeeps DEF RunNext, Step

\* Each step of a run is a step of the loop, or one that the loop does not see.
LEMMA RunsAreLoops == [RunNext]_allVars => [Next]_vars
<1> SUFFICES ASSUME [RunNext]_allVars PROVE [Next]_vars
  OBVIOUS
<1>1. CASE Prepare
  BY <1>1 DEF Prepare, Next
<1>2. CASE Respond
  <2>1. PICK calls \in BoundedSeq(Tool, MaxCalls) : \E results \in Results(calls) :
          Round(Len(calls), Deviates(Expected, calls, results) \/ Changed(results))
    BY <1>2 DEF Respond
  <2>2. PICK results \in Results(calls) :
          Round(Len(calls), Deviates(Expected, calls, results) \/ Changed(results))
    BY <2>1
  <2>3. Deviates(Expected, calls, results) \/ Changed(results) \in BOOLEAN
    BY DEF Deviates, Changed
  <2>4. Len(calls) \in 0 .. MaxCalls
    BY Rounds
  <2> QED
    BY <2>2, <2>3, <2>4 DEF Next
<1>3. CASE Break
  BY <1>3 DEF Break, Next
<1>4. CASE ReplanFor
  BY <1>4 DEF ReplanFor, Next
<1>5. CASE Conclude
  BY <1>5 DEF Conclude, Next
<1>6. CASE Keep
  BY <1>6 DEF Keep, Next
<1>7. CASE GoOn
  BY <1>7 DEF GoOn, Next
<1>8. CASE ToolsChange
  BY <1>8 DEF ToolsChange
<1>9. CASE UNCHANGED allVars
  BY <1>9 DEF allVars
<1> QED
  BY <1>1, <1>2, <1>3, <1>4, <1>5, <1>6, <1>7, <1>8, <1>9 DEF RunNext, Step

\* A run with its tools, its plans, its context and its snapshot is a run of the loop:
\* what is proved of every loop holds of it.
THEOREM RunsAreLoopRuns == RunSpec => Spec
<1>1. RunInit => Init
  BY DEF RunInit
<1> QED
  BY <1>1, RunsAreLoops, PTL DEF RunSpec, Spec

LEMMA RunInvariant == RunSpec => [](AgentInv /\ RunInv)
<1>1. AgentInv => TypeOK
  BY DEF AgentInv
<1> QED
  BY <1>1, AgentInvariant, RunsAreLoopRuns, RunStarts, RunStep, PTL DEF RunSpec

LEMMA TheRecordIsTrue == AgentInv /\ RunInv => RecordIsTrue
<1> SUFFICES ASSUME TypeOK, Prepared, Recorded, Placed, Kept PROVE RecordIsTrue
  BY DEF AgentInv, RunInv
<1>1. /\ window \in Seq(Chat) /\ steps \in Seq(StepRecord)
      /\ Len(TraceOf(steps)) = Len(steps) + charged
  BY DEF Prepared, Recorded
<1>2. TraceOf(steps) \in Seq(Message)
  <2>1. PICK x : x = [said |-> 0, calls |-> 0, good |-> 0, status |-> "untracked", again |-> FALSE]
    OBVIOUS
  <2>2. x \in StepRecord
    BY <2>1, AgentAssumption DEF StepRecord
  <2> QED
    BY <1>1, <2>2, TraceOfAppend
<1>3. saved = window \o TraceOf(steps) => TraceItems = Len(steps) + charged
  <2>1. TraceOf(steps) \in Seq(Chat)
    BY <1>2, ChatsOfMessages
  <2>2. PICK t \in Seq(Chat) : t = TraceOf(steps)
    BY <2>1
  <2>3. Len(window \o t) = Len(window) + Len(t) /\ Len(window) \in Nat /\ Len(t) \in Nat
    BY <1>1, ConcatProperties
  <2>4. Len(window \o t) - Len(window) = Len(t)
    BY <2>3
  <2> QED
    BY <1>1, <2>2, <2>4 DEF TraceItems
<1>4. CASE at = "done"
  <2>1. /\ saved = window \o TraceOf(steps) /\ Len(steps) = chats
        /\ metadata = [completed |-> IF result.reason = "final_response" THEN "yes" ELSE "no",
                      stop_reason |-> result.reason,
                      step_count |-> Len(steps),
                      tool_call_count |-> CallsOf(steps),
                      tool_error_count |-> ErrorsOf(steps),
                      replan_count |-> Cardinality(AgainOf(steps))]
    BY <1>4 DEF Kept, Placed
  <2>2. /\ Told("step_count") = Len(steps) /\ Told("tool_call_count") = CallsOf(steps)
        /\ Told("tool_error_count") = ErrorsOf(steps)
        /\ Told("replan_count") = Cardinality(AgainOf(steps))
        /\ Told("stop_reason") = result.reason
        /\ Told("completed") = "yes" => result.reason = "final_response"
    BY <2>1 DEF Told
  <2>3. Told("completed") = "yes" => Last(steps).calls = 0 /\ Last(steps).status # "finalizing"
    BY <1>4, <2>2 DEF Placed, LastStep, Last
  <2> QED
    BY <1>3, <1>4, <2>1, <2>2, <2>3 DEF RecordIsTrue, Recorded
<1>5. CASE at = "failed"
  <2>1. saved # <<>> => /\ TraceItems = chats - 1 + charged
                        /\ Told("completed") = "unknown" /\ Told("step_count") = 0
    <3> SUFFICES ASSUME saved # <<>>
                 PROVE  /\ TraceItems = chats - 1 + charged
                        /\ Told("completed") = "unknown" /\ Told("step_count") = 0
      OBVIOUS
    <3>1. saved = window \o TraceOf(steps) /\ metadata = <<>> /\ Len(steps) = chats - 1
      BY <1>5 DEF Kept
    <3>2. DOMAIN metadata = {}
      BY <3>1
    <3> QED
      BY <1>3, <3>1, <3>2 DEF Told
  <2> QED
    BY <1>5, <2>1 DEF RecordIsTrue
<1> QED
  BY <1>4, <1>5 DEF RecordIsTrue

\* What the history tells of a run is what the run did (_build_run_metadata,
\* _history_item_from_snapshot), whatever was skipped, replanned or broken off.
THEOREM RecordsAreTrue == RunSpec => []RecordIsTrue
BY RunInvariant, TheRecordIsTrue, PTL

LEMMA TheHistoryGoesOn == ASSUME Obedient PROVE AgentInv /\ RunInv => HistoryGoesOn
<1> SUFFICES ASSUME TypeOK, WellFormed(messages), Prepared, Recorded, Placed, Kept
             PROVE  HistoryGoesOn
  BY DEF AgentInv, RunInv
<1>1. messages \in Seq(Message) /\ steps \in Seq(StepRecord)
  BY Numbers DEF Recorded
<1>2. TraceOf(steps) \in Seq(Message)
  <2>1. PICK x : x = [said |-> 0, calls |-> 0, good |-> 0, status |-> "untracked", again |-> FALSE]
    OBVIOUS
  <2>2. x \in StepRecord
    BY <2>1, AgentAssumption DEF StepRecord
  <2> QED
    BY <1>1, <2>2, TraceOfAppend
<1>3. SpokenOf(messages) \in Seq(Message)
  <2>1. Notice \in Message
    BY AgentAssumption DEF Notice, Message
  <2> QED
    BY <1>1, <2>1, SpokenOfAppend
<1>4. PICK p \in Seq(Message) : p = SpokenOf(messages)
  BY <1>3
<1>5. ASSUME Level \/ Ahead
      PROVE  /\ Len(TraceOf(steps)) - Len(p) \in {0, 1}
             /\ SubSeq(TraceOf(steps), 1, Len(p)) = p
  <2>1. CASE Level
    <3>1. TraceOf(steps) = p
      BY <1>4, <2>1 DEF Level
    <3>2. SubSeq(p, 1, Len(p)) = p /\ Len(p) - Len(p) = 0
      OBVIOUS
    <3> QED
      BY <3>1, <3>2
  <2>2. CASE Ahead
    <3>1. PICK n \in 0 .. MaxCalls : TraceOf(steps) = p \o <<Said("assistant", n)>>
      BY <1>4, <2>2 DEF Ahead
    <3>2. PICK y \in Message : y = Said("assistant", n)
      BY DEF Message, Said
    <3>3. TraceOf(steps) = Append(p, y)
      BY <3>1, <3>2, AppendIsConcat
    <3>4. Len(Append(p, y)) - Len(p) = 1 /\ SubSeq(Append(p, y), 1, Len(p)) = p
      OBVIOUS
    <3> QED
      BY <3>3, <3>4
  <2> QED
    BY <1>5, <2>1, <2>2
<1>6. ASSUME saved # <<>>
      PROVE  /\ Len(Trace) - Len(Spoken) \in {0, 1} /\ SubSeq(Trace, 1, Len(Spoken)) = Spoken
             /\ asked.budget = Unlimited => Paired(saved)
  <2>1. (Level \/ Ahead) /\ saved = window \o TraceOf(steps)
    BY <1>6 DEF Kept, Placed
  <2>2. Len(Trace) - Len(Spoken) \in {0, 1} /\ SubSeq(Trace, 1, Len(Spoken)) = Spoken
    BY <1>4, <1>5, <2>1, Views
  <2>3. ASSUME asked.budget = Unlimited PROVE Paired(saved)
    <3>1. TraceOf(steps) \in Seq(Chat) /\ window \in Seq(Chat)
      BY <1>2, ChatsOfMessages DEF Prepared
    <3>2. Paired(window) /\ Paired(TraceOf(steps))
      BY <2>3 DEF Prepared, Recorded
    <3> QED
      BY <2>1, <3>1, <3>2, PairedConcat
  <2> QED
    BY <2>2, <2>3
<1>7. ASSUME asked.budget = Unlimited PROVE Paired(opening \o messages)
  <2>1. messages \in Seq(Chat) /\ opening \in Seq(Chat)
    BY <1>1, ChatsOfMessages DEF Prepared
  <2>2. Paired(opening) /\ Paired(messages)
    BY <1>7, <2>1, PairedIsWellFormed DEF Prepared
  <2> QED
    BY <2>1, <2>2, PairedConcat
<1> QED
  BY <1>6, <1>7 DEF HistoryGoesOn

\* The next run can go on from what a run left behind, however it ended
\* (_append_agent_trace_segment, _append_tool_feedback_messages, _build_context_snapshot),
\* if models that are offered no tools call none: the last reply of a run that is made to
\* conclude is the one message whose calls nobody answers.
THEOREM HistoriesGoOn == ASSUME Obedient PROVE RunSpec => []HistoryGoesOn
<1>1. AgentInv /\ RunInv => HistoryGoesOn
  BY Obedient, TheHistoryGoesOn
<1> QED
  BY <1>1, RunInvariant, PTL

=============================================================================
