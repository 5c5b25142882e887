------------------------------- MODULE BotProofs -------------------------------
(***************************************************************************)
(* Proofs about the bot: ChatTurn and BotTurn, which extends it; and       *)
(* BotSessions and BotChats, whose invariants hold for every number of     *)
(* messages, conversation names, erasing commands and crashes.             *)
(***************************************************************************)
EXTENDS BotTurn, BotChats, WellFoundedInduction, TLAPS

\* What the two invariants of a turn rest on.
TurnTypeOK ==
  /\ registered \subseteq Tool /\ disabled \subseteq Tool
  /\ req \in Request /\ policy = Effective(req)
  /\ round \in Nat
  /\ phase \in {"idle", "prepared", "asking", "calling", "answered"}

TurnInv == TurnTypeOK /\ RunsArePermitted /\ RoundsAreLimited

-----------------------------------------------------------------------------
(* The operators. *)

\* The requests and policies have the fields the checks read.
LEMMA RequestsAreTyped ==
  ASSUME NEW r \in Request
  PROVE  /\ r.rounds \in Nat /\ r.names \subseteq Tool /\ r.policy \in Policy
         /\ r.policy.allowed \subseteq Tool /\ r.policy.maxRisk \in Risk
  BY ChatAssumption DEF Policy

\* The effective policy allows what all lists allow, and keeps the rest of the policy of
\* the request.
LEMMA EffectiveIsTheIntersection ==
  ASSUME NEW r \in Request
  PROVE  /\ Effective(r).allowed = r.policy.allowed \cap r.names \cap SkillTools(r)
         /\ Effective(r).denied = r.policy.denied
         /\ Effective(r).permissions = r.policy.permissions
         /\ Effective(r).maxRisk = r.policy.maxRisk
         /\ Effective(r).bypass = r.policy.bypass
  BY RequestsAreTyped DEF Effective, Policy

\* A call that execute runs is of a tool that is registered, enabled and permitted.
LEMMA WhatRunsIsPermitted ==
  ASSUME NEW p, NEW call, Verdict(p, call) = "runs"
  PROVE  call.tool \in registered \ disabled /\ Permits(p, call.tool)
  BY DEF Verdict

-----------------------------------------------------------------------------
(* The invariant of a turn. *)

LEMMA TurnInvInit == Init => TurnInv
<1> SUFFICES ASSUME Init PROVE TurnInv
  OBVIOUS
<1>1. NoRequest \in Request
  BY ChatAssumption DEF NoRequest
<1>2. TurnTypeOK
  BY <1>1, ToolAssumption DEF TurnTypeOK, Init, ToolInit
<1>3. RunsArePermitted
  BY DEF RunsArePermitted, Init
<1>4. RoundsAreLimited
  BY <1>1, <1>2, RequestsAreTyped DEF RoundsAreLimited, TurnTypeOK, Init, NoReply
<1> QED
  BY <1>2, <1>3, <1>4 DEF TurnInv

\* A turn that begins or ends has run nothing and fed back nothing.
LEMMA FreshTurnInv ==
  ASSUME TurnInv, UNCHANGED toolVars,
         req' \in Request, policy' = Effective(req'), round' = 0, ran' = {}, reply' = NoReply,
         phase' \in {"idle", "prepared", "asking"}
  PROVE  TurnInv'
<1>1. TurnTypeOK'
  BY DEF TurnInv, TurnTypeOK, toolVars, Effective, SkillTools, Selected, Candidates, Before, Score
<1>2. RunsArePermitted'
  BY DEF RunsArePermitted
<1>3. RoundsAreLimited'
  BY RequestsAreTyped DEF RoundsAreLimited, NoReply
<1> QED
  BY <1>1, <1>2, <1>3 DEF TurnInv

LEMMA EndedInv ==
  ASSUME TurnInv, UNCHANGED toolVars, NEW how, Ended(how)
  PROVE  TurnInv'
<1>1. NoRequest \in Request
  BY ChatAssumption DEF NoRequest
<1> QED
  BY <1>1, FreshTurnInv DEF Ended

LEMMA BeginInv ==
  ASSUME TurnInv, UNCHANGED toolVars, NEW r \in Request, Begin(r)
  PROVE  TurnInv'
  BY FreshTurnInv DEF Begin, Prepare

LEMMA FallBackInv ==
  ASSUME TurnInv, UNCHANGED toolVars, FallBack
  PROVE  TurnInv'
  BY FreshTurnInv DEF FallBack, Prepare, TurnInv, TurnTypeOK

LEMMA AnswerInv ==
  ASSUME TurnInv, UNCHANGED toolVars, NEW p, Answer(p)
  PROVE  TurnInv'
<1>1. TurnTypeOK'
  BY DEF TurnInv, TurnTypeOK, toolVars, Answer
<1>2. RunsArePermitted'
  BY DEF TurnInv, RunsArePermitted, Answer
<1>3. RoundsAreLimited'
  BY RequestsAreTyped DEF TurnInv, TurnTypeOK, RoundsAreLimited, Answer
<1> QED
  BY <1>1, <1>2, <1>3 DEF TurnInv

\* What a call that runs adds to the history is permitted by the request.
LEMMA RunIsPermitted ==
  ASSUME TurnInv, NEW call, Verdict(policy, call) = "runs",
         NEW x, x = [tool |-> call.tool, sandboxed |-> Sandboxed(policy, call.tool),
                     enabled |-> call.tool \in registered \ disabled]
  PROVE  Permitted(req, x)
<1>1. call.tool \in registered \ disabled /\ Permits(policy, call.tool)
  BY WhatRunsIsPermitted
<1>2. req \in Request /\ policy = Effective(req)
  BY DEF TurnInv, TurnTypeOK
<1>3. /\ policy.allowed = req.policy.allowed \cap req.names \cap SkillTools(req)
      /\ policy.denied = req.policy.denied /\ policy.permissions = req.policy.permissions
      /\ policy.maxRisk = req.policy.maxRisk /\ policy.bypass = req.policy.bypass
  BY <1>2, EffectiveIsTheIntersection
<1>4. x.tool = call.tool /\ x.enabled = (call.tool \in registered \ disabled)
      /\ x.sandboxed = Sandboxed(policy, call.tool)
  OBVIOUS
<1>5. HasSkills => \E s \in Selected(req) : x.tool \in SkillOf[s].tools
  BY <1>1, <1>3, <1>4 DEF Permits, SkillTools
<1>6. Profile[x.tool].sandbox => x.sandboxed \/ req.policy.bypass
  BY <1>1, <1>3, <1>4 DEF Permits, Sandboxed
<1> QED
  BY <1>1, <1>3, <1>4, <1>5, <1>6 DEF Permits, Permitted

LEMMA ExecuteInv ==
  ASSUME TurnInv, UNCHANGED toolVars, Execute
  PROVE  TurnInv'
<1> DEFINE call == reply.calls[Len(results) + 1]
           x == [tool |-> call.tool, sandboxed |-> Sandboxed(policy, call.tool),
                 enabled |-> call.tool \in registered \ disabled]
<1>1. TurnTypeOK'
  BY DEF TurnInv, TurnTypeOK, toolVars, Execute
<1>2. RoundsAreLimited'
  BY DEF TurnInv, RoundsAreLimited, Execute
<1>3. req' = req /\ (Verdict(policy, call) = "runs" \/ Verdict(policy, call) = "refused")
  BY DEF Execute
<1>4. ran' = ran \/ (ran' = ran \cup {x} /\ Verdict(policy, call) = "runs")
  BY <1>3 DEF Execute
<1>5. RunsArePermitted'
  <2> HIDE DEF x, call
  <2>1. CASE ran' = ran
    BY <1>3, <2>1 DEF TurnInv, RunsArePermitted
  <2>2. ASSUME ran' = ran \cup {x}, Verdict(policy, call) = "runs"
        PROVE  RunsArePermitted'
    <3>1. x = [tool |-> call.tool, sandboxed |-> Sandboxed(policy, call.tool),
               enabled |-> call.tool \in registered \ disabled]
      BY DEF x
    <3>2. Permitted(req, x)
      BY <2>2, <3>1, RunIsPermitted
    <3> QED
      BY <1>3, <2>2, <3>2 DEF TurnInv, RunsArePermitted
  <2> QED
    BY <1>4, <2>1, <2>2
<1> QED
  BY <1>1, <1>2, <1>5 DEF TurnInv

LEMMA FeedbackInv ==
  ASSUME TurnInv, UNCHANGED toolVars, Feedback
  PROVE  TurnInv'
<1>1. TurnTypeOK'
  BY DEF TurnInv, TurnTypeOK, toolVars, Feedback
<1>2. RunsArePermitted'
  BY DEF TurnInv, RunsArePermitted, Feedback
<1>3. RoundsAreLimited'
  BY RequestsAreTyped DEF TurnInv, TurnTypeOK, RoundsAreLimited, Feedback, NoReply
<1> QED
  BY <1>1, <1>2, <1>3 DEF TurnInv

LEMMA RefuseInv ==
  ASSUME TurnInv, UNCHANGED toolVars, NEW r, Refuse(r)
  PROVE  TurnInv'
  BY DEF TurnInv, TurnTypeOK, RunsArePermitted, RoundsAreLimited, Refuse, toolVars

LEMMA StepInv ==
  ASSUME TurnInv, UNCHANGED toolVars, Step
  PROVE  TurnInv'
<1>1. CASE FallBack
  BY <1>1, FallBackInv
<1>2. ASSUME NEW p \in Reply, Answer(p) PROVE TurnInv'
  BY <1>2, AnswerInv
<1>3. CASE Execute
  BY <1>3, ExecuteInv
<1>4. CASE Feedback
  BY <1>4, FeedbackInv
<1>5. ASSUME Fails PROVE TurnInv'
  BY <1>5, EndedInv DEF Fails
<1>6. CASE Save
  BY <1>6, EndedInv DEF Save
<1> QED
  BY <1>1, <1>2, <1>3, <1>4, <1>5, <1>6 DEF Step, AskFails, ExecuteFails, SaveFails, Abandon

LEMMA ToolsInv ==
  ASSUME TurnInv, ChangeTools, UNCHANGED chatVars
  PROVE  TurnInv'
<1>1. TurnTypeOK'
  BY DEF TurnInv, TurnTypeOK, ChangeTools, Register, Unregister, SetEnabled, chatVars
<1>2. RunsArePermitted'
  BY DEF TurnInv, RunsArePermitted, chatVars
<1>3. RoundsAreLimited'
  BY DEF TurnInv, RoundsAreLimited, chatVars
<1> QED
  BY <1>1, <1>2, <1>3 DEF TurnInv

LEMMA TurnInvNext == TurnInv /\ [Next]_vars => TurnInv'
<1> SUFFICES ASSUME TurnInv, [Next]_vars PROVE TurnInv'
  OBVIOUS
<1>1. ASSUME NEW r \in Request, Begin(r), UNCHANGED toolVars PROVE TurnInv'
  BY <1>1, BeginInv
<1>2. ASSUME NEW r \in Request, Refuse(r), UNCHANGED toolVars PROVE TurnInv'
  BY <1>2, RefuseInv
<1>3. ASSUME Step, UNCHANGED toolVars PROVE TurnInv'
  BY <1>3, StepInv
<1>4. ASSUME ChangeTools, UNCHANGED chatVars PROVE TurnInv'
  BY <1>4, ToolsInv
<1>5. ASSUME UNCHANGED vars PROVE TurnInv'
  <2>1. UNCHANGED toolVars /\ UNCHANGED chatVars
    BY <1>5 DEF vars
  <2>2. TurnTypeOK'
    BY <2>1 DEF toolVars, chatVars, TurnInv, TurnTypeOK
  <2>3. RunsArePermitted'
    BY <2>1 DEF chatVars, TurnInv, RunsArePermitted
  <2>4. RoundsAreLimited'
    BY <2>1 DEF chatVars, TurnInv, RoundsAreLimited
  <2> QED
    BY <2>2, <2>3, <2>4 DEF TurnInv
<1> QED
  BY <1>1, <1>2, <1>3, <1>4, <1>5 DEF Next

LEMMA TurnInvHolds == Spec => []TurnInv
<1> QED
  BY TurnInvInit, TurnInvNext, PTL DEF Spec

-----------------------------------------------------------------------------
(* The history. *)

Kept == [role : {"system", "user", "answer", "reference"}, turn : Nat, calls : {<<>>}]

\* The turns a snapshot was saved for came before the one under way, whose window is the
\* history and its own message.
HistoryInv ==
  /\ turn \in Nat
  /\ history \in Seq(Kept)
  /\ completed \subseteq 1 .. turn
  /\ phase # "idle" => /\ turn \notin completed /\ turn > 0
                       /\ window = history \o Asked(req, turn)
  /\ HistoryIsATranscript

\* A transcript that a turn is added to is a transcript of one turn more.
LEMMA TranscriptGrows ==
  ASSUME NEW h \in Seq(Kept), NEW n \in Nat, n > 0,
         NEW done, done \subseteq 1 .. n - 1, Transcript(h, done),
         NEW S, S = <<>> \/ S = <<Message("system", n, <<>>)>>,
         NEW A, A = <<>> \/ A = <<Message("answer", n, <<>>)>>,
         NEW R, R = <<>> \/ R = <<Message("reference", n, <<>>)>>
  PROVE  /\ h \o (S \o <<Message("user", n, <<>>)>>) \o A \o R \in Seq(Kept)
         /\ Transcript(h \o (S \o <<Message("user", n, <<>>)>>) \o A \o R, done \cup {n})
<1> DEFINE s == Message("system", n, <<>>)
           u == Message("user", n, <<>>)
           a == Message("answer", n, <<>>)
           r == Message("reference", n, <<>>)
           p == Len(h) + Len(S) + 1
           g == h \o (S \o <<u>>) \o A \o R
<1>1. s \in Kept /\ u \in Kept /\ a \in Kept /\ r \in Kept
  BY DEF Message, Kept
<1>2. /\ s.role = "system" /\ u.role = "user" /\ a.role = "answer" /\ r.role = "reference"
      /\ s.turn = n /\ u.turn = n /\ a.turn = n /\ r.turn = n
  BY DEF Message
<1>3. /\ S = <<>> \/ S = <<s>>
      /\ A = <<>> \/ A = <<a>>
      /\ R = <<>> \/ R = <<r>>
  OBVIOUS
<1> HIDE DEF s, u, a, r
<1>a. S \in Seq(Kept) /\ A \in Seq(Kept) /\ R \in Seq(Kept) /\ <<u>> \in Seq(Kept)
  <2>1. <<s>> \in Seq(Kept) /\ <<u>> \in Seq(Kept) /\ <<a>> \in Seq(Kept) /\ <<r>> \in Seq(Kept)
    BY <1>1
  <2>2. <<>> \in Seq(Kept)
    OBVIOUS
  <2> QED
    BY <1>3, <2>1, <2>2
<1>b. /\ S \o <<u>> \in Seq(Kept) /\ Len(S \o <<u>>) = Len(S) + 1
      /\ (S \o <<u>>)[Len(S) + 1] = u
      /\ \A i \in 1 .. Len(S) : (S \o <<u>>)[i] = S[i]
  BY <1>a
<1>4. g \in Seq(Kept) /\ Len(g) = p + Len(A) + Len(R)
  BY <1>1, <1>a, <1>b
<1>5. \A i \in DOMAIN h : i \in DOMAIN g /\ g[i] = h[i]
  BY <1>1, <1>a, <1>b
<1>6. p \in DOMAIN g /\ g[p] = u
  BY <1>1, <1>a, <1>b
<1>7. \A i \in DOMAIN g : i \notin DOMAIN h /\ i # p =>
        (i = p + 1 /\ g[i] = a) \/ g[i] = r \/ (i < p /\ g[i] = s)
  <2> SUFFICES ASSUME NEW i \in DOMAIN g, i \notin DOMAIN h, i # p
               PROVE  (i = p + 1 /\ g[i] = a) \/ g[i] = r \/ (i < p /\ g[i] = s)
    OBVIOUS
  <2>1. CASE i < p
    <3>b. i \in Nat /\ Len(h) \in Nat /\ DOMAIN h = 1 .. Len(h) /\ i > 0
      BY <1>4
    <3>c. i \notin 1 .. Len(h) /\ i < Len(h) + Len(S) + 1
      BY <3>b, <2>1
    <3>d. i > Len(h)
      BY <3>b, <3>c
    <3> HIDE DEF g, p
    <3>e. S # <<>>
      <4> SUFFICES ASSUME S = <<>> PROVE FALSE
        OBVIOUS
      <4>1. Len(S) = 0
        OBVIOUS
      <4> QED
        BY <4>1, <3>b, <3>c, <3>d
    <3>2. S = <<s>>
      BY <1>3, <3>e
    <3>f. Len(S) = 1
      BY <3>2
    <3>1. Len(S) = 1 /\ i = Len(h) + 1
      BY <3>b, <3>c, <3>d, <3>f
    <3>3. g[i] = (S \o <<u>>)[1]
      BY <1>a, <1>b, <3>1 DEF g
    <3> QED
      BY <1>b, <2>1, <3>1, <3>2, <3>3
  <2>2. CASE i > p
    <3> DEFINE q == h \o (S \o <<u>>)
    <3>1. q \in Seq(Kept) /\ Len(q) = p
      BY <1>a, <1>b
    <3> HIDE DEF q
    <3>2. g = q \o A \o R
      BY DEF q
    <3>a. p \in Nat
      BY <1>a
    <3> HIDE DEF p, g
    <3>3. CASE A = <<>> /\ R = <<>>
      BY <1>1, <1>4, <2>2, <3>a, <3>1, <3>2, <3>3
    <3>4. CASE A = <<a>> /\ R = <<>>
      BY <1>1, <1>4, <2>2, <3>a, <3>1, <3>2, <3>4
    <3>5. CASE A = <<>> /\ R = <<r>>
      BY <1>1, <1>4, <2>2, <3>a, <3>1, <3>2, <3>5
    <3>6. CASE A = <<a>> /\ R = <<r>>
      BY <1>1, <1>4, <2>2, <3>a, <3>1, <3>2, <3>6
    <3> QED
      BY <1>3, <3>3, <3>4, <3>5, <3>6
  <2>3. i \in Nat
    BY <1>4
  <2>4. p \in Nat
    BY <1>a
  <2>5. i < p \/ i > p
    <3> HIDE DEF g, p
    <3> QED
      BY <2>3, <2>4
  <2> HIDE DEF g, p
  <2> QED
    BY <2>1, <2>2, <2>5
<1>8. \A i \in DOMAIN h : h[i].turn \in done /\ h[i].turn \in Nat /\ h[i].turn < n
  <2> SUFFICES ASSUME NEW i \in DOMAIN h
               PROVE  h[i].turn \in done /\ h[i].turn \in Nat /\ h[i].turn < n
    OBVIOUS
  <2>1. h[i].turn \in done
    BY DEF Transcript
  <2>2. \A t \in done : t \in 1 .. n - 1
    OBVIOUS
  <2>3. h[i].turn \in 1 .. n - 1
    BY <2>1, <2>2
  <2> QED
    BY <2>1, <2>3
<1>9. \A i \in DOMAIN g : g[i].turn = n \/ (i \in DOMAIN h /\ g[i] = h[i])
  BY <1>2, <1>5, <1>6, <1>7
<1>c. p \in Nat /\ p > Len(h)
  BY <1>a
<1> HIDE DEF g, p
<1>10. \A i \in DOMAIN g : g[i].role \in {"system", "user", "answer", "reference"}
  <2> SUFFICES ASSUME NEW i \in DOMAIN g
               PROVE  g[i].role \in {"system", "user", "answer", "reference"}
    OBVIOUS
  <2>1. g[i] \in Kept
    BY <1>4
  <2> QED
    BY <2>1 DEF Kept
<1>11. ASSUME NEW i \in DOMAIN g, NEW j \in DOMAIN g, i < j
       PROVE  /\ g[i].turn <= g[j].turn
              /\ g[i].role = "user" /\ g[j].role = "user" => g[i].turn # g[j].turn
  <2>1. i \in Nat /\ j \in Nat /\ DOMAIN h = 1 .. Len(h) /\ Len(h) \in Nat
    BY <1>4
  <2>2. CASE j \in DOMAIN h
    <3>1. i \in DOMAIN h
      BY <1>11, <1>4, <2>1, <2>2
    <3> QED
      BY <1>5, <1>11, <2>2, <3>1 DEF Transcript
  <2>3. CASE j \notin DOMAIN h
    <3>1. g[j].turn = n
      BY <1>9, <2>3
    <3>2. CASE i \in DOMAIN h
      BY <1>5, <1>8, <3>1, <3>2
    <3>3. CASE i \notin DOMAIN h
      <4>1. i # p \/ j # p
        BY <1>11, <2>1
      <4>2. g[i].role # "user" \/ g[j].role # "user"
        BY <1>2, <1>7, <2>3, <3>3, <4>1
      <4> QED
        BY <1>9, <3>1, <3>3, <4>2
    <3> QED
      BY <3>2, <3>3
  <2> QED
    BY <2>2, <2>3
<1>12. ASSUME NEW i \in DOMAIN g, g[i].role = "answer"
       PROVE  i > 1 /\ g[i - 1] = Message("user", g[i].turn, <<>>)
  <2>1. CASE i \in DOMAIN h
    <3>1. i > 1 /\ h[i - 1] = Message("user", h[i].turn, <<>>) /\ i - 1 \in DOMAIN h
      BY <1>5, <1>12, <2>1 DEF Transcript
    <3> QED
      BY <1>5, <2>1, <3>1
  <2>2. CASE i \notin DOMAIN h
    <3>1. i = p + 1 /\ g[i].turn = n
      BY <1>2, <1>6, <1>7, <1>12, <2>2
    <3> QED
      BY <1>6, <1>c, <3>1 DEF u
  <2> QED
    BY <2>1, <2>2
<1>13. {g[i].turn : i \in DOMAIN g} = done \cup {n}
  <2>1. \A i \in DOMAIN g : g[i].turn \in done \cup {n}
    BY <1>8, <1>9
  <2>2. \A t \in done : \E i \in DOMAIN g : g[i].turn = t
    BY <1>5 DEF Transcript
  <2>3. \E i \in DOMAIN g : g[i].turn = n
    BY <1>2, <1>6
  <2> QED
    BY <2>1, <2>2, <2>3
<1>14. Transcript(g, done \cup {n})
  BY <1>10, <1>11, <1>12, <1>13 DEF Transcript
<1> QED
  BY <1>4, <1>14 DEF g, u

LEMMA HistoryInvInit == Init => HistoryInv
BY DEF Init, HistoryInv, HistoryIsATranscript, Transcript

LEMMA HistoryInvNext == HistoryInv /\ [Next]_vars => HistoryInv'
<1> SUFFICES ASSUME HistoryInv, [Next]_vars PROVE HistoryInv'
  OBVIOUS
<1> USE DEF HistoryInv, HistoryIsATranscript
<1>1. ASSUME NEW r \in Request, Begin(r) PROVE HistoryInv'
  BY <1>1 DEF Begin, Prepare
<1>2. ASSUME NEW r \in Request, Refuse(r) PROVE HistoryInv'
  BY <1>2 DEF Refuse
<1>3. CASE FallBack
  BY <1>3 DEF FallBack, Prepare
<1>4. ASSUME NEW p \in Reply, Answer(p) PROVE HistoryInv'
  BY <1>4 DEF Answer
<1>5. CASE Execute
  BY <1>5 DEF Execute
<1>6. CASE Feedback
  BY <1>6 DEF Feedback
<1>7. CASE Fails
  BY <1>7 DEF Fails, Ended
<1>8. CASE AskFails \/ ExecuteFails \/ SaveFails \/ Abandon
  BY <1>7, <1>8 DEF AskFails, ExecuteFails, SaveFails, Abandon
<1>9. CASE Save
  <2>1. /\ phase = "answered" /\ phase' = "idle" /\ turn' = turn
        /\ history' = window \o Answered \o References(req, turn)
        /\ completed' = completed \cup {turn}
    BY <1>9 DEF Save, Ended
  <2>2. turn \in Nat /\ turn > 0 /\ window = history \o Asked(req, turn)
    BY <2>1
  <2>3. completed \subseteq 1 .. turn - 1
    BY <2>1
  <2>a. PICK S : /\ S = <<>> \/ S = <<Message("system", turn, <<>>)>>
                 /\ Asked(req, turn) = S \o <<Message("user", turn, <<>>)>>
    BY DEF Asked
  <2>4. /\ Answered = <<>> \/ Answered = <<Message("answer", turn, <<>>)>>
        /\ References(req, turn) = <<>> \/ References(req, turn) = <<Message("reference", turn, <<>>)>>
    BY DEF Answered, References
  <2>5. history' \in Seq(Kept) /\ Transcript(history', completed')
    BY <2>1, <2>2, <2>3, <2>a, <2>4, TranscriptGrows
  <2> QED
    BY <2>1, <2>2, <2>3, <2>5
<1>10. CASE (ChangeTools /\ UNCHANGED chatVars) \/ UNCHANGED vars
  BY <1>10 DEF chatVars, vars
<1> QED
  BY <1>1, <1>2, <1>3, <1>4, <1>5, <1>6, <1>8, <1>9, <1>10 DEF Next, Step

-----------------------------------------------------------------------------

\* Whatever the model calls, and however plugins and the HTTP interface change the tools
\* between the offer and the call, a tool that runs was enabled and on every list.
THEOREM OnlyPermittedToolsRun == Spec => []RunsArePermitted
<1>1. TurnInv => RunsArePermitted
  BY DEF TurnInv
<1> QED
  BY <1>1, TurnInvHolds, PTL

\* No turn goes beyond the rounds of its request.
THEOREM RoundsStayLimited == Spec => []RoundsAreLimited
<1>1. TurnInv => RoundsAreLimited
  BY DEF TurnInv
<1> QED
  BY <1>1, TurnInvHolds, PTL

\* The history stays a transcript of the completed turns, whatever fails on the way.
THEOREM TheHistoryIsATranscript == Spec => []HistoryIsATranscript
<1>1. HistoryInv => HistoryIsATranscript
  BY DEF HistoryInv
<1> QED
  BY <1>1, HistoryInvInit, HistoryInvNext, PTL DEF Spec


-----------------------------------------------------------------------------
(* The composition: what the bot does with chats and tools, ChatTurn does. *)

LEMMA BotStepRefines == BotStep => [Next]_vars
<1> SUFFICES ASSUME BotStep PROVE [Next]_vars
  OBVIOUS
<1>1. CASE \E p \in Plugin : HandleFails(p) \/ Handle(p)
  BY <1>1 DEF Handle, HandleFails
<1>2. CASE \E action \in {"command", "notice"} : CommandAnswers(action)
  BY <1>2 DEF CommandAnswers
<1>3. CASE RejectCommand \/ Unknown \/ Unauthorized \/ StartCommand \/ CommandFails
  BY <1>3 DEF RejectCommand, Unknown, Unauthorized, StartCommand, CommandFails
<1>4. CASE RejectEvent \/ Ignore \/ ChatAnswered \/ ChatSilent \/ ChatFailed
  BY <1>4 DEF RejectEvent, Ignore, ChatAnswered, ChatSilent, ChatFailed
<1>5. CASE Send \/ SendFails \/ SendAborts \/ Settle
  BY <1>5 DEF Send, SendFails, SendAborts, Settle
<1>6. CASE StartChat
  BY <1>6, BotAssumption DEF StartChat, Next
<1>7. CASE ChatRefused
  BY <1>7, BotAssumption DEF ChatRefused, Next
<1> QED
  BY <1>1, <1>2, <1>3, <1>4, <1>5, <1>6, <1>7 DEF BotStep

LEMMA BotNextRefines == [BotNext]_allVars => [Next]_vars
<1> SUFFICES ASSUME [BotNext]_allVars PROVE [Next]_vars
  OBVIOUS
<1>1. CASE \E e \in Event : Receive(e)
  BY <1>1 DEF Receive
<1>2. CASE BotStep
  BY <1>2, BotStepRefines
<1>3. CASE \E p \in Plugin : SetPlugin(p)
  BY <1>3 DEF SetPlugin
<1>4. CASE Step /\ UNCHANGED <<toolVars, botVars>>
  BY <1>4 DEF Next
<1>5. CASE SetTools
  BY <1>5 DEF SetTools, Next
<1>6. CASE stage = "free" /\ (\E r \in Request : Begin(r) \/ Refuse(r)) /\ UNCHANGED <<toolVars, botVars>>
  BY <1>6 DEF Next
<1>7. CASE \E p \in Plugin : PluginChats(p)
  BY <1>7, BotAssumption DEF PluginChats, Next
<1>8. CASE UNCHANGED allVars
  BY <1>8 DEF allVars
<1> QED
  BY <1>1, <1>2, <1>3, <1>4, <1>5, <1>6, <1>7, <1>8 DEF BotNext

\* The bot's events, its plugins and the HTTP interface together drive chats only as
\* ChatTurn lets them: a behaviour of the bot is one of ChatTurn.
THEOREM TheBotChats == BotSpec => Spec
<1>1. BotInit => Init
  BY DEF BotInit
<1> QED
  BY <1>1, BotNextRefines, PTL DEF BotSpec, Spec

\* So a tool that a message to the bot made run was permitted as well.
THEOREM TheBotRunsPermittedTools == BotSpec => []RunsArePermitted
BY TheBotChats, OnlyPermittedToolsRun, PTL

-----------------------------------------------------------------------------
(* The events.  The invariant has one part for each promise. *)

EventTypeOK ==
  /\ stage \in {"free", "handlers", "command", "chat", "sending"}
  /\ event \in Event
  /\ active \subseteq Plugin /\ listed \subseteq Plugin
  /\ heard \subseteq Plugin /\ handlers \subseteq Plugin
  /\ actions \in Seq(Action) /\ produced \in Seq(Action) /\ delivered \in Seq(Action)

\* Nothing is heard before the event, and the handlers are those it found.
HearingInv == HandlersHearOnce /\ (stage = "free" => heard = {})

\* What is made is delivered or waits to be.
DeliveryInv == ~ faulty => delivered \o actions = produced

\* Nobody reacts before the stage that sends, when no chat is under way any more.
ReactionInv ==
  /\ stage # "sending" => Reactions = {}
  /\ stage = "sending" => phase = "idle"
  /\ stage = "chat" => ~ IsCommand(event)
  /\ ReactsOnce

EventInv == EventTypeOK /\ HearingInv /\ DeliveryInv /\ ReactionInv /\ AdminsOnly

LEMMA EventInvInit == BotInit => EventInv
<1> SUFFICES ASSUME BotInit PROVE EventInv
  OBVIOUS
<1>1. EventTypeOK
  <2>1. NoEvent \in Event
    BY BotAssumption DEF NoEvent
  <2>2. event = NoEvent /\ stage = "free" /\ faulty = FALSE /\ active = Plugin
    BY DEF BotInit
  <2>3. /\ listed = {} /\ heard = {} /\ handlers = {}
        /\ actions = <<>> /\ produced = <<>> /\ delivered = <<>>
    BY DEF BotInit
  <2> QED
    BY <2>1, <2>2, <2>3 DEF EventTypeOK
<1>2. HearingInv
  BY DEF HearingInv, HandlersHearOnce, Handlers, BotInit
<1>3. DeliveryInv
  BY DEF DeliveryInv, BotInit
<1>4. ReactionInv
  BY DEF ReactionInv, ReactsOnce, Reactions, BotInit
<1>5. AdminsOnly
  BY DEF AdminsOnly, BotInit
<1> QED
  BY <1>1, <1>2, <1>3, <1>4, <1>5 DEF EventInv

LEMMA TypesNext ==
  ASSUME EventInv, [BotNext]_allVars
  PROVE  EventTypeOK'
<1> USE DEF EventInv, EventTypeOK
<1>1. ASSUME NEW e \in Event, Receive(e) PROVE EventTypeOK'
  BY <1>1 DEF Receive, Handlers
<1>2. ASSUME NEW p \in Plugin, Handle(p) PROVE EventTypeOK'
  <2>1. <<"plugin", p>> \in Action
    BY DEF Action
  <2>2. actions' \in Seq(Action) /\ produced' \in Seq(Action)
    <3>1. CASE Makes(<<"plugin", p>>)
      BY <2>1, <3>1 DEF Makes
    <3>2. CASE MakesNothing
      BY <3>2 DEF MakesNothing
    <3> QED
      BY <1>2, <3>1, <3>2 DEF Handle
  <2> QED
    BY <1>2, <2>2 DEF Handle
<1>3. ASSUME NEW p \in Plugin, HandleFails(p) PROVE EventTypeOK'
  BY <1>3 DEF HandleFails
<1>4. ASSUME Over PROVE EventTypeOK'
  BY <1>4, BotAssumption DEF Over, NoEvent
<1>5. ASSUME NEW name \in {"notice", "command", "reply"}, NEW next, Reaction(name, next),
             next = "sending", UNCHANGED <<active, event, handlers, delivered, heard, listed, faulty>>
      PROVE  EventTypeOK'
  <2>1. <<name>> \in Action
    BY DEF Action
  <2> QED
    BY <1>5, <2>1 DEF Reaction, Makes
<1>6. CASE Unknown \/ Unauthorized \/ ChatAnswered \/ \E action \in {"command", "notice"} : CommandAnswers(action)
  BY <1>5, <1>6 DEF Unknown, Unauthorized, ChatAnswered, CommandAnswers
<1>7. CASE RejectCommand \/ CommandFails \/ RejectEvent \/ ChatRefused \/ ChatFailed
           \/ SendAborts \/ Settle
  BY <1>4, <1>7 DEF RejectCommand, CommandFails, RejectEvent, ChatRefused, ChatFailed, SendAborts, Settle
<1>8. CASE StartCommand \/ Ignore \/ StartChat \/ ChatSilent
  BY <1>8 DEF StartCommand, Ignore, StartChat, ChatSilent
<1>9. CASE Send \/ SendFails
  <2>1. actions # <<>> /\ actions' = Tail(actions)
        /\ (delivered' = delivered \/ delivered' = Append(delivered, Head(actions)))
    BY <1>9 DEF Send, SendFails
  <2>2. Head(actions) \in Action
    BY <2>1
  <2>3. Tail(actions) \in Seq(Action)
    BY <2>1
  <2>4. Append(delivered, Head(actions)) \in Seq(Action)
    BY <2>2
  <2> QED
    BY <1>9, <2>1, <2>3, <2>4 DEF Send, SendFails
<1>10. ASSUME NEW p \in Plugin, SetPlugin(p) PROVE EventTypeOK'
  BY <1>10 DEF SetPlugin
<1>11. CASE SetTools \/ UNCHANGED botVars
  BY <1>11 DEF SetTools, botVars
<1> QED
  BY <1>1, <1>2, <1>3, <1>6, <1>7, <1>8, <1>9, <1>10, <1>11 DEF BotNext, BotStep, PluginChats, allVars

LEMMA HearingNext ==
  ASSUME EventInv, [BotNext]_allVars
  PROVE  HearingInv'
<1> USE DEF EventInv, HearingInv, HandlersHearOnce
<1>1. ASSUME NEW e \in Event, Receive(e) PROVE HearingInv'
  BY <1>1 DEF Receive, Handlers
<1>2. ASSUME NEW p \in Plugin, Handle(p) PROVE HearingInv'
  <2>1. /\ p \in handlers /\ \A q \in handlers : p <= q
        /\ handlers' = handlers \ {p} /\ heard' = heard \cup {p}
        /\ listed' = listed /\ event' = event /\ faulty' = faulty /\ stage' = "handlers"
    BY <1>2 DEF Handle, IsNext
  <2>2. \A q \in handlers' : p < q
    BY <2>1, BotAssumption DEF EventTypeOK
  <2>3. \A q \in heard, r \in handlers' : q < r
    BY <2>1
  <2> QED
    BY <2>1, <2>2, <2>3 DEF Handlers
<1>3. ASSUME NEW p \in Plugin, HandleFails(p) PROVE HearingInv'
  BY <1>3 DEF HandleFails, IsNext, Handlers
<1>4. ASSUME Over PROVE HearingInv'
  BY <1>4 DEF Over, Handlers
<1>5. CASE RejectCommand \/ CommandFails \/ RejectEvent \/ ChatRefused \/ ChatFailed
           \/ SendAborts \/ Settle
  BY <1>4, <1>5 DEF RejectCommand, CommandFails, RejectEvent, ChatRefused, ChatFailed, SendAborts, Settle
<1>6. ASSUME UNCHANGED <<event, handlers, heard, listed>>, faulty' = faulty \/ faulty',
             stage = "free" \/ stage' # "free"
      PROVE  HearingInv'
  BY <1>6 DEF Handlers, EventTypeOK
<1>7. CASE Unknown \/ Unauthorized \/ ChatAnswered \/ \E action \in {"command", "notice"} : CommandAnswers(action)
  BY <1>6, <1>7 DEF Unknown, Unauthorized, ChatAnswered, CommandAnswers, Reaction
<1>8. CASE StartCommand \/ Ignore \/ StartChat \/ ChatSilent
  BY <1>6, <1>8 DEF StartCommand, Ignore, StartChat, ChatSilent
<1>9. CASE Send \/ SendFails
  BY <1>6, <1>9 DEF Send, SendFails
<1>10. CASE (\E p \in Plugin : SetPlugin(p)) \/ SetTools \/ UNCHANGED botVars
  BY <1>6, <1>10 DEF SetPlugin, SetTools, botVars
<1> QED
  BY <1>1, <1>2, <1>3, <1>5, <1>7, <1>8, <1>9, <1>10 DEF BotNext, BotStep, PluginChats, allVars

LEMMA DeliveryNext ==
  ASSUME EventInv, [BotNext]_allVars
  PROVE  DeliveryInv'
<1> USE DEF EventInv, DeliveryInv
<1>1. ASSUME NEW a \in Action, Makes(a), UNCHANGED <<delivered, faulty>> PROVE DeliveryInv'
  <2>1. delivered \o Append(actions, a) = Append(delivered \o actions, a)
    BY DEF EventTypeOK
  <2> QED
    BY <1>1, <2>1 DEF Makes
<1>2. ASSUME NEW p \in Plugin, Handle(p) PROVE DeliveryInv'
  <2>1. <<"plugin", p>> \in Action
    BY DEF Action
  <2>2. CASE Makes(<<"plugin", p>>)
    BY <1>1, <1>2, <2>1, <2>2 DEF Handle
  <2>3. CASE MakesNothing
    BY <1>2, <2>3 DEF Handle, MakesNothing
  <2> QED
    BY <1>2, <2>2, <2>3 DEF Handle
<1>3. ASSUME NEW p \in Plugin, HandleFails(p) PROVE DeliveryInv'
  BY <1>3 DEF HandleFails
<1>4. ASSUME Over PROVE DeliveryInv'
  BY <1>4 DEF Over
<1>5. CASE RejectCommand \/ CommandFails \/ RejectEvent \/ ChatRefused \/ ChatFailed
           \/ SendAborts \/ Settle
  BY <1>4, <1>5 DEF RejectCommand, CommandFails, RejectEvent, ChatRefused, ChatFailed, SendAborts, Settle
<1>6. <<"notice">> \in Action /\ <<"command">> \in Action /\ <<"reply">> \in Action
  BY DEF Action
<1>7. CASE Unknown \/ Unauthorized \/ ChatAnswered \/ \E action \in {"command", "notice"} : CommandAnswers(action)
  BY <1>1, <1>6, <1>7 DEF Unknown, Unauthorized, ChatAnswered, CommandAnswers, Reaction
<1>8. CASE StartCommand \/ Ignore \/ StartChat \/ ChatSilent
  BY <1>8 DEF StartCommand, Ignore, StartChat, ChatSilent
<1>9. CASE Send
  <2>1. actions # <<>> /\ actions' = Tail(actions) /\ delivered' = Append(delivered, Head(actions))
        /\ produced' = produced /\ faulty' = faulty
    BY <1>9 DEF Send
  <2>2. Append(delivered, Head(actions)) \o Tail(actions) = delivered \o actions
    BY <2>1 DEF EventTypeOK
  <2> QED
    BY <2>1, <2>2
<1>10. CASE SendFails
  BY <1>10 DEF SendFails
<1>11. CASE (\E e \in Event : Receive(e)) \/ (\E p \in Plugin : SetPlugin(p)) \/ SetTools \/ UNCHANGED botVars
  BY <1>11 DEF Receive, SetPlugin, SetTools, botVars
<1> QED
  BY <1>2, <1>3, <1>5, <1>7, <1>8, <1>9, <1>10, <1>11 DEF BotNext, BotStep, PluginChats, allVars

LEMMA ReactionNext ==
  ASSUME EventInv, [BotNext]_allVars
  PROVE  ReactionInv'
<1> USE DEF EventInv, ReactionInv
<1>1. ASSUME NEW e \in Event, Receive(e) PROVE ReactionInv'
  BY <1>1 DEF Receive, ReactsOnce, Reactions, vars, chatVars
<1>2. ASSUME NEW p \in Plugin, Handle(p) PROVE ReactionInv'
  <2>1. stage = "handlers" /\ stage' = "handlers" /\ phase' = phase
    BY <1>2 DEF Handle, vars, chatVars
  <2>2. CASE MakesNothing
    BY <2>1, <2>2 DEF MakesNothing, ReactsOnce, Reactions
  <2>3. CASE Makes(<<"plugin", p>>)
    <3>1. produced \in Seq(Action) /\ produced' = Append(produced, <<"plugin", p>>)
      BY <2>3 DEF Makes, EventTypeOK
    <3>2. \A i \in DOMAIN produced' : produced'[i] = <<"plugin", p>> \/ (i \in DOMAIN produced /\ produced'[i] = produced[i])
      BY <3>1
    <3>3. Reactions' = {}
      BY <2>1, <3>2 DEF Reactions
    <3> QED
      BY <2>1, <3>3 DEF ReactsOnce
  <2> QED
    BY <1>2, <2>2, <2>3 DEF Handle
<1>3. ASSUME NEW p \in Plugin, HandleFails(p) PROVE ReactionInv'
  BY <1>3 DEF HandleFails, ReactsOnce, Reactions, vars, chatVars
<1>4. ASSUME Over PROVE ReactionInv'
  BY <1>4 DEF Over, ReactsOnce, Reactions
<1>5. CASE RejectCommand \/ CommandFails \/ RejectEvent \/ ChatRefused \/ ChatFailed
           \/ SendAborts \/ Settle
  BY <1>4, <1>5 DEF RejectCommand, CommandFails, RejectEvent, ChatRefused, ChatFailed, SendAborts, Settle
<1>6. ASSUME NEW name \in {"notice", "command", "reply"}, Reaction(name, "sending"),
             phase' = "idle", Reactions = {}
      PROVE  ReactionInv'
  <2>1. produced \in Seq(Action) /\ produced' = Append(produced, <<name>>)
    BY <1>6 DEF Reaction, Makes, EventTypeOK
  <2>2. Len(produced) + 1 \in DOMAIN produced' /\ produced'[Len(produced) + 1] = <<name>>
    BY <2>1
  <2>3. \A i \in DOMAIN produced' :
          i = Len(produced) + 1 \/ (i \in DOMAIN produced /\ produced'[i] = produced[i])
    BY <2>1
  <2>4. name # "plugin" /\ <<name>>[1] = name
    OBVIOUS
  <2>5. Reactions' = {Len(produced) + 1}
    BY <1>6, <2>2, <2>3, <2>4 DEF Reactions
  <2> QED
    BY <1>6, <2>5 DEF ReactsOnce, Reaction
<1>7. CASE Unknown \/ Unauthorized \/ ChatAnswered \/ \E action \in {"command", "notice"} : CommandAnswers(action)
  BY <1>6, <1>7 DEF Unknown, Unauthorized, ChatAnswered, CommandAnswers, Routable, vars, chatVars
<1>8. CASE StartCommand
  BY <1>8 DEF StartCommand, Routable, ReactsOnce, Reactions, vars, chatVars
<1>9. CASE StartChat
  BY <1>9 DEF StartChat, Routable, ReactsOnce, Reactions, IsCommand
<1>10. CASE Ignore
  BY <1>10 DEF Ignore, Routable, ReactsOnce, Reactions, IsCommand, vars, chatVars
<1>11. CASE ChatSilent
  BY <1>11 DEF ChatSilent, ReactsOnce, Reactions, IsCommand, vars, chatVars
<1>12. CASE Send \/ SendFails
  BY <1>12 DEF Send, SendFails, ReactsOnce, Reactions, IsCommand, vars, chatVars
<1>13. CASE (\E p \in Plugin : SetPlugin(p)) \/ SetTools \/ UNCHANGED allVars
  BY <1>13 DEF SetPlugin, SetTools, ReactsOnce, Reactions, IsCommand, allVars, botVars, vars, chatVars
<1>14. CASE Step /\ UNCHANGED <<toolVars, botVars>>
  <2>1. phase # "idle"
    BY <1>14 DEF Step, FallBack, Answer, AskFails, Execute, ExecuteFails, Feedback, Save, SaveFails, Abandon
  <2>2. stage # "sending"
    BY <2>1
  <2> QED
    BY <1>14, <2>2 DEF ReactsOnce, Reactions, IsCommand, botVars
<1>15. CASE stage # "sending" /\ UNCHANGED botVars
  BY <1>15 DEF ReactsOnce, Reactions, botVars
<1>16. CASE \E p \in Plugin : PluginChats(p)
  BY <1>15, <1>16 DEF PluginChats, Running
<1> QED
  BY <1>1, <1>2, <1>3, <1>5, <1>7, <1>8, <1>9, <1>10, <1>11, <1>12, <1>13, <1>14, <1>15, <1>16 DEF BotNext, BotStep, PluginChats

-----------------------------------------------------------------------------
(* Commands. *)

\* A set of naturals has a least element.
LEMMA LeastNatural ==
  ASSUME NEW T, T \subseteq Nat, T # {}
  PROVE  \E x \in T : \A y \in T : x <= y
<1> DEFINE R == OpToRel(<, Nat)
<1>1. \A x, y \in Nat : y < x => <<y, x>> \in R
  BY DEF OpToRel
<1>2. \E x \in T : \A y \in T : ~ (<<y, x>> \in R)
  <2> HIDE DEF R
  <2>1. IsWellFoundedOn(R, Nat)
    BY NatLessThanWellFounded DEF R
  <2> QED
    BY <2>1, WFMin
<1> HIDE DEF R
<1>3. PICK x \in T : \A y \in T : ~ (<<y, x>> \in R)
  BY <1>2
<1>4. ASSUME NEW y \in T PROVE x <= y
  <2>1. ~ (y < x)
    BY <1>1, <1>3
  <2> QED
    BY <2>1
<1> QED
  BY <1>4

\* The command that is chosen is one that matches, and no other that matches is longer.
LEMMA ResolvedIsLongest ==
  ASSUME NEW words \in Seq(STRING), Matching(words) # {}
  PROVE  /\ Resolved(words) \in Matching(words)
         /\ \A d \in Matching(words) : Len(d.words) <= Len(Resolved(words).words)
<1> DEFINE short(c) == Len(words) - Len(c.words)
           T == {short(c) : c \in Matching(words)}
<1>1. \A c \in Matching(words) : c \in Command /\ Len(c.words) \in Nat /\ short(c) \in Nat
  BY BotAssumption DEF Matching, Known, IsPrefix
<1>2. T \subseteq Nat /\ T # {}
  BY <1>1
<1>3. PICK x \in T : \A y \in T : x <= y
  <2> HIDE DEF T
  <2> QED
    BY <1>2, LeastNatural
<1>4. PICK c \in Matching(words) : x = short(c)
  BY <1>3
<1>5. \A d \in Matching(words) : short(c) <= short(d)
  BY <1>3, <1>4
<1>6. \A d \in Matching(words) : Len(d.words) <= Len(c.words)
  BY <1>1, <1>5
<1> QED
  BY <1>6 DEF Resolved

LEMMA AdminNext ==
  ASSUME EventInv, [BotNext]_allVars
  PROVE  AdminsOnly'
<1> USE DEF EventInv
<1>1. CASE StartCommand
  <2>1. /\ command' = Resolved(event.words) /\ event' = event
        /\ Matching(event.words) # {} /\ (Resolved(event.words).admin => Admin(event))
    BY <1>1 DEF StartCommand
  <2>2. event.words \in Seq(STRING)
    BY BotAssumption DEF EventTypeOK
  <2>3. /\ command' \in Matching(event.words)
        /\ \A d \in Matching(event.words) : Len(d.words) <= Len(command'.words)
    BY <2>1, <2>2, ResolvedIsLongest
  <2>4. ASSUME NEW c \in Command, c.plugin = command'.plugin, IsPrefix(c.words, event.words)
        PROVE  ~ Len(c.words) > Len(command'.words)
    <3>1. c \in Matching(event.words)
      BY <2>3, <2>4 DEF Matching, Known
    <3>2. Len(c.words) \in Nat /\ Len(command'.words) \in Nat
      BY <2>3, BotAssumption DEF Matching, Known
    <3> QED
      BY <2>3, <3>1, <3>2
  <2> QED
    BY <2>1, <2>4 DEF AdminsOnly
<1>2. CASE stage' # "command"
  BY <1>2 DEF AdminsOnly
<1>3. CASE UNCHANGED <<stage, event, command>>
  BY <1>3 DEF AdminsOnly
<1>4. CASE (\E p \in Plugin : Handle(p) \/ HandleFails(p)) \/ \E e \in Event : Receive(e)
  BY <1>2, <1>4 DEF Handle, HandleFails, Receive
<1>5. CASE RejectCommand \/ CommandFails \/ RejectEvent \/ ChatRefused \/ ChatFailed
           \/ SendAborts \/ Settle
  BY <1>2, <1>5 DEF RejectCommand, CommandFails, RejectEvent, ChatRefused, ChatFailed, SendAborts, Settle, Over
<1>6. CASE Unknown \/ Unauthorized \/ ChatAnswered \/ \E action \in {"command", "notice"} : CommandAnswers(action)
  BY <1>2, <1>6 DEF Unknown, Unauthorized, ChatAnswered, CommandAnswers, Reaction
<1>7. CASE Ignore \/ StartChat \/ ChatSilent \/ Send \/ SendFails
  BY <1>2, <1>7 DEF Ignore, StartChat, ChatSilent, Send, SendFails
<1>8. CASE (\E p \in Plugin : SetPlugin(p)) \/ SetTools \/ UNCHANGED botVars
  BY <1>3, <1>8 DEF SetPlugin, SetTools, botVars
<1> QED
  BY <1>1, <1>4, <1>5, <1>6, <1>7, <1>8 DEF BotNext, BotStep, PluginChats, allVars

-----------------------------------------------------------------------------

LEMMA EventInvHolds == BotSpec => []EventInv
<1>1. EventInv /\ [BotNext]_allVars => EventInv'
  BY TypesNext, HearingNext, DeliveryNext, ReactionNext, AdminNext DEF EventInv
<1> QED
  BY <1>1, EventInvInit, PTL DEF BotSpec

\* The handlers of an event are those of the plugins that were enabled when it arrived,
\* each called once and in order, however plugins are enabled and disabled meanwhile.
THEOREM HandlersAreHeard == BotSpec => []HandlersHearOnce
<1>1. EventInv => HandlersHearOnce
  BY DEF EventInv, HearingInv
<1> QED
  BY <1>1, EventInvHolds, PTL

\* An event nothing failed for is over with all of its actions delivered, in order.
THEOREM ActionsAreDelivered == BotSpec => []DeliversAll
<1>1. EventInv => DeliversAll
  BY DEF EventInv, EventTypeOK, DeliveryInv, DeliversAll
<1> QED
  BY <1>1, EventInvHolds, PTL

\* No event is answered twice, and none that is to be answered is left without.
THEOREM EventsAreAnsweredOnce == BotSpec => []ReactsOnce
<1>1. EventInv => ReactsOnce
  BY DEF EventInv, ReactionInv
<1> QED
  BY <1>1, EventInvHolds, PTL

\* Whatever the commands are called, the words of an administrator's command execute
\* nothing for anyone else.
THEOREM AdminCommandsAreForAdmins == BotSpec => []AdminsOnly
<1>1. EventInv => AdminsOnly
  BY DEF EventInv
<1> QED
  BY <1>1, EventInvHolds, PTL

-----------------------------------------------------------------------------
(* The conversations of a session, and chats beside each other. *)

SessionStep ==
  \/ Touch \/ Forget \/ UNCHANGED sessionVars
  \/ \E n \in Name : CreateConversation(n) \/ UseConversation(n)
  \/ \E old, new \in Name : RenameConversation(old, new)
  \/ \E n \in Name : \E i \in DOMAIN Ensured : DeleteConversation(i, n)

SessionOK == SessionTypeOK /\ OneAnswersToEachName

LEMMA EnsuredIsList ==
  ASSUME SessionOK
  PROVE  /\ Ensured \in Seq(ConversationRef) /\ Len(Ensured) > 0
         /\ \A i, j \in DOMAIN Ensured : \A n \in Name :
              Answers(Ensured[i], n) /\ Answers(Ensured[j], n) => i = j
<1>1. NewConversation(Default) \in ConversationRef
  BY NameAssumption DEF NewConversation, ConversationRef
<1>2. CASE conversations = <<>>
  <2>1. Ensured = <<NewConversation(Default)>>  BY <1>2 DEF Ensured
  <2>. HIDE DEF NewConversation
  <2>. QED  BY <1>1, <2>1
<1>3. CASE conversations # <<>>
  <2>1. Ensured = conversations  BY <1>3 DEF Ensured
  <2>2. conversations \in Seq(ConversationRef)  BY DEF SessionOK, SessionTypeOK
  <2>3. Len(conversations) > 0  BY <1>3, <2>2
  <2>. QED  BY <2>1, <2>2, <2>3 DEF SessionOK, OneAnswersToEachName
<1>. QED  BY <1>2, <1>3

LEMMA IdIsName ==
  ASSUME NEW cs \in Seq(ConversationRef), NEW i \in DOMAIN cs
  PROVE  cs[i] \in ConversationRef /\ cs[i].id \in Name
<1>1. cs[i] \in ConversationRef  OBVIOUS
<1>. QED  BY <1>1 DEF ConversationRef

LEMMA PreferredIsListed ==
  ASSUME NEW cs \in Seq(ConversationRef), Len(cs) > 0
  PROVE  Preferred(cs) \in IdsOf(cs) /\ IdsOf(cs) \subseteq Name
<1>1. \A i \in DOMAIN cs : cs[i].id \in Name  BY IdIsName
<1>2. 1 \in DOMAIN cs  OBVIOUS
<1>. QED  BY <1>1, <1>2 DEF Preferred, IdsOf

LEMMA EnsuredActiveIsListed ==
  ASSUME SessionOK
  PROVE  EnsuredActive \in IdsOf(Ensured) /\ EnsuredActive \in Name
<1>. DEFINE E == Ensured
<1>1. E \in Seq(ConversationRef) /\ Len(E) > 0  BY EnsuredIsList
<1>2. EnsuredActive = IF activeId \in IdsOf(E) THEN activeId ELSE Preferred(E)  BY DEF EnsuredActive
<1>. HIDE DEF E
<1>3. Preferred(E) \in IdsOf(E) /\ IdsOf(E) \subseteq Name  BY <1>1, PreferredIsListed
<1>. QED  BY <1>2, <1>3 DEF E

\* The list without its i-th element is the list with the later ones moved up.
LEMMA DroppedIsShorter ==
  ASSUME SessionOK, NEW i \in DOMAIN Ensured, Len(Ensured) > 1
  PROVE  /\ Dropped(i) \in Seq(ConversationRef) /\ Len(Dropped(i)) = Len(Ensured) - 1
         /\ \A j \in DOMAIN Dropped(i) :
              Dropped(i)[j] = IF j < i THEN Ensured[j] ELSE Ensured[j + 1]
<1>. DEFINE E == Ensured
<1>1. E \in Seq(ConversationRef) /\ i \in DOMAIN E /\ Len(E) > 1  BY EnsuredIsList
<1>2. Dropped(i) = SubSeq(E, 1, i - 1) \o SubSeq(E, i + 1, Len(E))  BY DEF Dropped, RemoveAt
<1>. HIDE DEF E
<1>. DEFINE A == SubSeq(E, 1, i - 1)
            B == SubSeq(E, i + 1, Len(E))
<1>3. A \in Seq(ConversationRef) /\ Len(A) = i - 1 /\ \A j \in 1 .. i - 1 : A[j] = E[j]
  BY <1>1
<1>4. B \in Seq(ConversationRef) /\ Len(B) = Len(E) - i /\ \A j \in 1 .. Len(E) - i : B[j] = E[i + j]
  BY <1>1
<1>5. Dropped(i) = A \o B  BY <1>2
<1>. HIDE DEF A, B
<1>6. Dropped(i) \in Seq(ConversationRef) /\ Len(Dropped(i)) = Len(E) - 1
  BY <1>1, <1>3, <1>4, <1>5
<1>7. ASSUME NEW j \in DOMAIN Dropped(i)
      PROVE  Dropped(i)[j] = IF j < i THEN E[j] ELSE E[j + 1]
  <2>1. j \in 1 .. Len(E) - 1  BY <1>6, <1>1
  <2>2. CASE j < i  BY <1>1, <1>3, <1>4, <1>5, <2>1, <2>2
  <2>3. CASE ~ (j < i)
    <3>1. Dropped(i)[j] = B[j - (i - 1)]  BY <1>1, <1>3, <1>4, <1>5, <2>1, <2>3
    <3>. QED  BY <1>1, <1>4, <2>1, <2>3, <3>1
  <2>. QED  BY <2>2, <2>3
<1>. QED  BY <1>6, <1>7 DEF E

ListOK(cs) ==
  /\ cs \in Seq(ConversationRef)
  /\ \A i, j \in DOMAIN cs : \A n \in Name : Answers(cs[i], n) /\ Answers(cs[j], n) => i = j

LEMMA SessionStepOK ==
  ASSUME SessionOK, SessionStep
  PROVE  SessionOK'
<1>. DEFINE E == Ensured
            a == EnsuredActive
            Goal == ListOK(conversations') /\ activeId' \in Name \cup {None}
<1>1. ListOK(E) /\ Len(E) > 0  BY EnsuredIsList DEF ListOK
<1>2. a \in Name  BY EnsuredActiveIsListed
<1>3. ASSUME Touch  PROVE Goal
  <2>1. conversations' = E /\ activeId' = a  BY <1>3 DEF Touch
  <2>. HIDE DEF E, a
  <2>. QED  BY <1>1, <1>2, <2>1
<1>4. ASSUME Forget  PROVE Goal
  BY <1>4 DEF Forget, ListOK
<1>5. ASSUME UNCHANGED sessionVars  PROVE Goal
  BY <1>5 DEF sessionVars, SessionOK, SessionTypeOK, OneAnswersToEachName, ListOK
<1>6. ASSUME NEW n \in Name, CreateConversation(n)  PROVE Goal
  <2>. DEFINE c == NewConversation(n)
  <2>1. c \in ConversationRef /\ c.id = n /\ c.name = n  BY DEF NewConversation, ConversationRef
  <2>2. conversations' = Append(E, c) /\ activeId' = n  BY <1>6 DEF CreateConversation
  <2>3. ASSUME NEW j \in DOMAIN E  PROVE ~ Answers(E[j], n)
    <3>. DEFINE I == {k \in DOMAIN E : Answers(E[k], n)}
    <3>. SUFFICES ASSUME Answers(E[j], n)  PROVE FALSE
      OBVIOUS
    <3>1. \A k \in DOMAIN E : k < j => ~ Answers(E[k], n)
      BY <1>1, <2>3 DEF ListOK
    <3>2. Found(j, n)  BY <3>1, <2>3 DEF Found
    <3>. QED  BY <3>2, <2>3, <1>6 DEF CreateConversation, Taken
  <2>. HIDE DEF E, c
  <2>4. Append(E, c) \in Seq(ConversationRef)  BY <1>1, <2>1 DEF ListOK
  <2>5. \A i \in DOMAIN Append(E, c) :
          Append(E, c)[i] = IF i = Len(E) + 1 THEN c ELSE E[i]
    BY <1>1, <2>1 DEF ListOK
  <2>6. DOMAIN Append(E, c) = 1 .. Len(E) + 1 /\ DOMAIN E = 1 .. Len(E)
    BY <1>1, <2>1 DEF ListOK
  <2>7. \A m \in Name : Answers(c, m) => m = n
    BY <2>1 DEF Answers
  <2>8. ASSUME NEW i \in DOMAIN Append(E, c), NEW j \in DOMAIN Append(E, c), NEW m \in Name,
               Answers(Append(E, c)[i], m), Answers(Append(E, c)[j], m)
        PROVE  i = j
    <3>1. CASE i = Len(E) + 1 /\ j # Len(E) + 1  BY <2>3, <2>5, <2>6, <2>7, <2>8, <3>1
    <3>2. CASE j = Len(E) + 1 /\ i # Len(E) + 1  BY <2>3, <2>5, <2>6, <2>7, <2>8, <3>2
    <3>3. CASE i # Len(E) + 1 /\ j # Len(E) + 1
      BY <1>1, <2>5, <2>6, <2>8, <3>3 DEF ListOK
    <3>. QED  BY <3>1, <3>2, <3>3
  <2>. QED  BY <2>2, <2>4, <2>8, <1>6 DEF ListOK
<1>7. ASSUME NEW n \in Name, UseConversation(n)  PROVE Goal
  <2>1. PICK i \in DOMAIN E : conversations' = E /\ activeId' = E[i].id
    BY <1>7 DEF UseConversation
  <2>. HIDE DEF E
  <2>2. E[i].id \in Name  BY <1>1, <2>1, IdIsName DEF ListOK
  <2>. QED  BY <1>1, <2>1, <2>2
<1>8. ASSUME NEW old \in Name, NEW new \in Name, RenameConversation(old, new)  PROVE Goal
  <2>1. PICK i \in DOMAIN E :
          /\ \A j \in DOMAIN E : Found(j, new) => E[j].id = E[i].id
          /\ conversations' = [E EXCEPT ![i].name = new]
          /\ activeId' = a
    BY <1>8 DEF RenameConversation
  <2>2. ASSUME NEW j \in DOMAIN E, Answers(E[j], new)  PROVE j = i
    <3>1. \A k \in DOMAIN E : k < j => ~ Answers(E[k], new)
      BY <1>1, <2>2 DEF ListOK
    <3>2. Found(j, new)  BY <3>1, <2>2 DEF Found
    <3>3. E[j].id = E[i].id /\ E[i].id \in Name
      BY <3>2, <2>1, <1>1, IdIsName DEF ListOK
    <3>. QED  BY <3>3, <1>1 DEF ListOK, Answers
  <2>. HIDE DEF E, a
  <2>. DEFINE F == [E EXCEPT ![i].name = new]
  <2>3. /\ E \in Seq(ConversationRef) /\ E[i] \in ConversationRef /\ DOMAIN E = 1 .. Len(E)
    BY <1>1 DEF ListOK
  <2>4. DOMAIN F = DOMAIN E /\ \A j \in DOMAIN E : j # i => F[j] = E[j]
    BY <2>3
  <2>5. F[i] \in ConversationRef /\ F[i].id = E[i].id /\ F[i].name = new
    BY <2>3 DEF ConversationRef
  <2>6. F \in Seq(ConversationRef)
    BY <2>3, <2>4, <2>5
  <2>. HIDE DEF F
  <2>7. ASSUME NEW j \in DOMAIN F, NEW k \in DOMAIN F, NEW m \in Name,
               Answers(F[j], m), Answers(F[k], m)
        PROVE  j = k
    <3>1. \A l \in DOMAIN E : l # i /\ Answers(F[l], m) => Answers(E[l], m)
      BY <2>4
    <3>2. Answers(F[i], m) => m = new \/ Answers(E[i], m)
      BY <2>5 DEF Answers
    <3>3. \A l, h \in DOMAIN E : Answers(E[l], m) /\ Answers(E[h], m) => l = h
      BY <1>1 DEF ListOK
    <3>. QED  BY <2>2, <2>4, <2>7, <3>1, <3>2, <3>3
  <2>. QED  BY <1>2, <2>1, <2>6, <2>7 DEF ListOK, F
<1>9. ASSUME NEW n \in Name, NEW i \in DOMAIN E, DeleteConversation(i, n)  PROVE Goal
  <2>. DEFINE D == Dropped(i)
  <2>1. /\ Len(E) > 1 /\ conversations' = D
        /\ activeId' = IF a = E[i].id THEN Preferred(D) ELSE a
    BY <1>9 DEF DeleteConversation
  <2>2. /\ D \in Seq(ConversationRef) /\ Len(D) = Len(E) - 1
        /\ \A j \in DOMAIN D : D[j] = IF j < i THEN E[j] ELSE E[j + 1]
    BY <2>1, DroppedIsShorter
  <2>. HIDE DEF E, D, a
  <2>3. E \in Seq(ConversationRef) /\ DOMAIN E = 1 .. Len(E) /\ Len(E) \in Nat  BY <1>1 DEF ListOK
  <2>4. Len(D) > 0 /\ DOMAIN D = 1 .. Len(E) - 1
    BY <2>1, <2>2, <2>3
  <2>5. Preferred(D) \in Name
    BY <2>2, <2>4, PreferredIsListed
  <2>6. ASSUME NEW j \in DOMAIN D, NEW k \in DOMAIN D, NEW m \in Name,
               Answers(D[j], m), Answers(D[k], m)
        PROVE  j = k
    <3>. DEFINE Old(l) == IF l < i THEN l ELSE l + 1
    <3>1. \A l \in DOMAIN D : Old(l) \in DOMAIN E /\ D[l] = E[Old(l)]
      BY <2>2, <2>3, <2>4
    <3>2. \A l, h \in DOMAIN D : Old(l) = Old(h) => l = h
      BY <2>3, <2>4
    <3>. HIDE DEF Old
    <3>. QED  BY <1>1, <2>6, <3>1, <3>2 DEF ListOK
  <2>. QED  BY <1>2, <2>1, <2>2, <2>5, <2>6 DEF ListOK
<1>. QED
  <2>1. Goal  BY <1>3, <1>4, <1>5, <1>6, <1>7, <1>8, <1>9, SessionStep DEF SessionStep
  <2>. QED  BY <2>1 DEF ListOK, SessionOK, SessionTypeOK, OneAnswersToEachName, Answers

LEMMA EnsuredOfList ==
  ASSUME NEW cs, conversations' = cs, cs # <<>>
  PROVE  Ensured' = cs
BY DEF Ensured

\* The conversations an operation other than a deletion leaves are no fewer.
LEMMA IdsGrow ==
  ASSUME SessionOK,
         \/ Touch \/ UNCHANGED sessionVars
         \/ \E n \in Name : CreateConversation(n) \/ UseConversation(n)
         \/ \E old, new \in Name : RenameConversation(old, new)
  PROVE  IdsOf(Ensured) \subseteq IdsOf(Ensured')
<1>. DEFINE E == Ensured
            Goal == IdsOf(E) \subseteq IdsOf(Ensured')
<1>1. E \in Seq(ConversationRef) /\ Len(E) > 0  BY EnsuredIsList
<1>2. E # <<>>  BY <1>1
<1>3. ASSUME conversations' = E  PROVE Goal
  <2>. HIDE DEF E
  <2>1. Ensured' = E  BY <1>2, <1>3, EnsuredOfList
  <2>. QED  BY <2>1
<1>4. ASSUME UNCHANGED sessionVars  PROVE Goal
  BY <1>4 DEF sessionVars, Ensured
<1>5. ASSUME NEW n \in Name, CreateConversation(n)  PROVE Goal
  <2>. DEFINE c == NewConversation(n)
              F == Append(E, c)
  <2>1. conversations' = F  BY <1>5 DEF CreateConversation
  <2>2. c \in ConversationRef  BY DEF NewConversation, ConversationRef
  <2>. HIDE DEF E, c
  <2>3. F # <<>> /\ DOMAIN E \subseteq DOMAIN F /\ \A i \in DOMAIN E : F[i] = E[i]
    BY <1>1, <2>2
  <2>. HIDE DEF F
  <2>4. Ensured' = F  BY <2>1, <2>3, EnsuredOfList
  <2>. QED  BY <2>3, <2>4 DEF IdsOf
<1>6. ASSUME NEW old \in Name, NEW new \in Name, RenameConversation(old, new)  PROVE Goal
  <2>1. PICK i \in DOMAIN E : conversations' = [E EXCEPT ![i].name = new]
    BY <1>6 DEF RenameConversation
  <2>. HIDE DEF E
  <2>. DEFINE F == [E EXCEPT ![i].name = new]
  <2>2. E[i] \in ConversationRef  BY <1>1, IdIsName
  <2>3. DOMAIN F = DOMAIN E /\ \A j \in DOMAIN E : j # i => F[j] = E[j]  BY <1>1
  <2>4. F[i].id = E[i].id  BY <1>1, <2>2 DEF ConversationRef
  <2>5. F # <<>>  BY <1>1, <2>3
  <2>. HIDE DEF F
  <2>6. Ensured' = F  BY <2>1, <2>5, EnsuredOfList DEF F
  <2>. QED  BY <2>3, <2>4, <2>6 DEF IdsOf
<1>. QED
  BY <1>3, <1>4, <1>5, <1>6 DEF Touch, UseConversation

\* A deletion takes one id away.
LEMMA IdsAfterDelete ==
  ASSUME SessionOK, NEW n \in Name, NEW i \in DOMAIN Ensured, DeleteConversation(i, n)
  PROVE  IdsOf(Ensured) \subseteq IdsOf(Ensured') \cup {Ensured[i].id}
<1>. DEFINE E == Ensured
            D == Dropped(i)
<1>1. Len(E) > 1 /\ conversations' = D  BY DEF DeleteConversation
<1>2. /\ D \in Seq(ConversationRef) /\ Len(D) = Len(E) - 1
      /\ \A j \in DOMAIN D : D[j] = IF j < i THEN E[j] ELSE E[j + 1]
  BY <1>1, DroppedIsShorter
<1>3. E \in Seq(ConversationRef)  BY EnsuredIsList
<1>. HIDE DEF E, D
<1>4. D # <<>>  BY <1>1, <1>2, <1>3
<1>5. Ensured' = D  BY <1>1, <1>4, EnsuredOfList
<1>6. ASSUME NEW j \in DOMAIN E, j # i  PROVE \E k \in DOMAIN D : D[k] = E[j]
  <2>1. i \in DOMAIN E  BY DEF E
  <2>2. CASE j < i  BY <1>2, <1>3, <1>6, <2>1, <2>2
  <2>3. CASE j > i
    <3>1. j - 1 \in DOMAIN D /\ ~ (j - 1 < i) /\ (j - 1) + 1 = j  BY <1>2, <1>3, <1>6, <2>1, <2>3
    <3>. QED  BY <1>2, <3>1
  <2>. QED  BY <1>3, <1>6, <2>1, <2>2, <2>3
<1>. QED  BY <1>5, <1>6 DEF IdsOf, E

-----------------------------------------------------------------------------
(* Types and conversations. *)

SessionInv == TypeOK /\ OneAnswersToEachName

\* What an action of the composition does to the conversations.
LEMMA StepOnSession ==
  ASSUME SessionInv, [ChatsNext]_chatsVars
  PROVE  SessionStep
BY DEF ChatsNext, chatsVars, SessionStep, Dispatch, Read, Stamp, Commit, Fail, Manage, Clear, Delete,
       Erase, EraseFails, Crash, sessionVars

LEMMA SessionInvInit == ChatsInit => SessionInv
BY NameAssumption, ChatsAssumption
   DEF ChatsInit, SessionInit, SessionInv, TypeOK, SessionTypeOK, OneAnswersToEachName

LEMMA SessionInvNext ==
  ASSUME SessionInv, [ChatsNext]_chatsVars
  PROVE  SessionInv'
<1>1. SessionOK'  BY StepOnSession, SessionStepOK DEF SessionInv, TypeOK, SessionOK
<1>2. EnsuredActive \in Name  BY EnsuredActiveIsListed DEF SessionInv, TypeOK, SessionOK
<1>3. \A i \in DOMAIN Ensured : Ensured[i].id \in Name
  BY EnsuredIsList, IdIsName DEF SessionInv, TypeOK, SessionOK
<1>. DEFINE Goal == TypeOK'
<1>. USE DEF SessionInv, TypeOK, ghostVars, turnVars
<1>4. SUFFICES Goal  BY <1>1 DEF SessionOK
<1>5. SessionTypeOK'  BY <1>1 DEF SessionOK
<1>6. ASSUME NEW e \in Chat, Dispatch(e)  PROVE Goal  BY <1>2, <1>5, <1>6 DEF Dispatch
<1>7. ASSUME NEW e \in Chat, Read(e)  PROVE Goal
  BY <1>5, <1>7 DEF Read, Window, Rows, Beside, UnderWay
<1>8. ASSUME NEW e \in Chat, Stamp(e)  PROVE Goal  BY <1>5, <1>8 DEF Stamp
<1>9. ASSUME NEW e \in Chat, Commit(e)  PROVE Goal  BY <1>5, <1>9 DEF Commit
<1>10. ASSUME NEW e \in Chat, Fail(e)  PROVE Goal  BY <1>5, <1>10 DEF Fail
<1>11. ASSUME Manage  PROVE Goal  BY <1>5, <1>11 DEF Manage
<1>12. ASSUME NEW x \in Eraser, NEW c \in Name, Clear(x, c)  PROVE Goal
  BY <1>5, <1>12 DEF Clear
<1>13. ASSUME NEW x \in Eraser, Delete(x)  PROVE Goal  BY <1>3, <1>5, <1>13 DEF Delete
<1>14. ASSUME NEW x \in Eraser, Erase(x)  PROVE Goal
  BY <1>5, <1>14 DEF Erase, Rows, UnderWay
<1>15. ASSUME NEW x \in Eraser, EraseFails(x)  PROVE Goal  BY <1>5, <1>15 DEF EraseFails
<1>16. ASSUME Crash  PROVE Goal  BY <1>5, <1>16, ChatsAssumption DEF Crash
<1>17. ASSUME UNCHANGED chatsVars  PROVE Goal  BY <1>5, <1>17 DEF chatsVars
<1>. QED  BY <1>6, <1>7, <1>8, <1>9, <1>10, <1>11, <1>12, <1>13, <1>14, <1>15, <1>16, <1>17
          DEF ChatsNext

\* The variables keep to their types.
THEOREM TypesHold == ChatsSpec => []TypeOK
<1>1. SessionInv => TypeOK  BY DEF SessionInv
<1>. QED  BY SessionInvInit, SessionInvNext, <1>1, PTL DEF ChatsSpec

\* At most one conversation answers to a name, over every sequence of commands.
THEOREM OneConversationPerName == ChatsSpec => []OneAnswersToEachName
<1>1. SessionInv => OneAnswersToEachName  BY DEF SessionInv
<1>. QED  BY SessionInvInit, SessionInvNext, <1>1, PTL DEF ChatsSpec

-----------------------------------------------------------------------------
(* What the table holds. *)

Reading(e) == pc[e] \in {"asking", "saving", "saved"}

\* Rows belong to chats that were saved; what was erased is not among them; a date
\* is in the past; a window holds saved turns of its own context.
TableInv ==
  /\ \A e \in stored \cup erased : Saved(e)
  /\ stored \cap erased = {}
  /\ \A e \in Chat : pc[e] \in {"saving", "saved"} => at[e] < clock
  /\ \A e \in Chat : Reading(e) => \A g \in hist[e] : Saved(g) /\ ctx[g] = ctx[e]

\* Nothing the chats or the table are made of changes.
Quiet == UNCHANGED <<turnVars, erased, outlived>>

ChatStep ==
  \/ Quiet
  \/ \E e \in Chat : Dispatch(e) \/ Read(e) \/ Stamp(e) \/ Commit(e) \/ Fail(e)
  \/ \E x \in Eraser : Erase(x)
  \/ Crash

LEMMA StepOfChats ==
  ASSUME [ChatsNext]_chatsVars
  PROVE  ChatStep
BY DEF ChatsNext, chatsVars, ghostVars, ChatStep, Quiet, Manage, Clear, Delete, EraseFails

LEMMA TableInvInit == ChatsInit => TableInv
BY DEF ChatsInit, TableInv, Reading

LEMMA TableInvNext ==
  ASSUME TypeOK, TableInv, [ChatsNext]_chatsVars
  PROVE  TableInv'
<1>. DEFINE Goal == TableInv'
<1>. USE DEF TypeOK, TableInv, Reading, Saved, turnVars, ghostVars
<1>1. CASE Quiet  BY <1>1 DEF Quiet
<1>2. ASSUME NEW e \in Chat, Dispatch(e)  PROVE Goal  BY <1>2 DEF Dispatch
<1>3. ASSUME NEW e \in Chat, Read(e)  PROVE Goal
  <2>1. \A g \in hist'[e] : Saved(g) /\ ctx[g] = ctx[e]
    BY <1>3 DEF Read, Rows, Window
  <2>. QED  BY <1>3, <2>1 DEF Read
<1>4. ASSUME NEW e \in Chat, Stamp(e)  PROVE Goal  BY <1>4 DEF Stamp
<1>5. ASSUME NEW e \in Chat, Commit(e)  PROVE Goal  BY <1>5 DEF Commit
<1>6. ASSUME NEW e \in Chat, Fail(e)  PROVE Goal  BY <1>6 DEF Fail
<1>7. ASSUME NEW x \in Eraser, Erase(x)  PROVE Goal  BY <1>7 DEF Erase, Rows
<1>8. ASSUME Crash  PROVE Goal  BY <1>8 DEF Crash
<1>. QED  BY StepOfChats, <1>1, <1>2, <1>3, <1>4, <1>5, <1>6, <1>7, <1>8 DEF ChatStep

ChatInv == SessionInv /\ TableInv

LEMMA ChatInvHolds == ChatsSpec => []ChatInv
<1>1. ChatsInit => ChatInv  BY SessionInvInit, TableInvInit DEF ChatInv
<1>2. ChatInv /\ [ChatsNext]_chatsVars => ChatInv'
  BY SessionInvNext, TableInvNext DEF ChatInv, SessionInv
<1>. QED  BY <1>1, <1>2, PTL DEF ChatsSpec

\* No window mixes the turns of two conversations.
THEOREM ContextsAreIsolated == ChatsSpec => []Isolated
<1>1. ChatInv => Isolated
  BY DEF ChatInv, SessionInv, TypeOK, TableInv, Isolated, Window, Reading, Saved
<1>. QED  BY ChatInvHolds, <1>1, PTL

-----------------------------------------------------------------------------
(* What may be lost. *)

Lost(g) == \E f \in Chat : Saved(f) /\ <<g, f>> \in overlap

\* Two chats that are under way in a context at the same time are known to overlap.
MeetInv == \A e, f \in UnderWay : e # f /\ ctx[e] = ctx[f] => <<e, f>> \in overlap

\* A chat that dated its snapshot and has not committed it overlaps with every chat
\* of a later date.
DateInv == \A f, l \in Chat :
  /\ pc[f] = "saving" /\ pc[l] \in {"saving", "saved"}
  /\ f # l /\ ctx[f] = ctx[l] /\ at[f] <= at[l]
  => <<f, l>> \in overlap

\* A chat under way has read every row that it does not overlap with.
ReadInv == \A g \in stored : \A f \in UnderWay :
  ctx[f] = ctx[g] => g \in hist[f] \/ <<g, f>> \in overlap \/ Lost(g)

LossInv == MeetInv /\ DateInv /\ ReadInv /\ LossNeedsOverlap

LEMMA LossInvInit == ChatsInit => LossInv
BY DEF ChatsInit, LossInv, MeetInv, DateInv, ReadInv, LossNeedsOverlap, UnderWay, Rows

LEMMA MeetAndDateNext ==
  ASSUME ChatInv, LossInv, [ChatsNext]_chatsVars
  PROVE  MeetInv' /\ DateInv'
<1>. DEFINE Goal == MeetInv' /\ DateInv'
<1>. USE DEF ChatInv, SessionInv, TypeOK, TableInv, LossInv, MeetInv, DateInv, UnderWay, turnVars
<1>1. ASSUME Quiet  PROVE Goal  BY <1>1 DEF Quiet
<1>2. ASSUME NEW e \in Chat, Dispatch(e)  PROVE Goal  BY <1>2 DEF Dispatch
<1>3. ASSUME NEW e \in Chat, Read(e)  PROVE Goal
  <2>1. overlap' = overlap \cup ({e} \X Beside(e)) \cup (Beside(e) \X {e})  BY <1>3 DEF Read
  <2>2. \A f \in Beside(e) : <<e, f>> \in overlap' /\ <<f, e>> \in overlap'  BY <2>1
  <2>3. \A f \in UnderWay : ctx[f] = ctx[e] => f \in Beside(e)  BY DEF Beside
  <2>4. overlap \subseteq overlap'  BY <2>1
  <2>5. pc' = [pc EXCEPT ![e] = "asking"] /\ UNCHANGED <<ctx, at>> /\ pc[e] = "dispatched"
    BY <1>3 DEF Read
  <2>. QED  BY <2>2, <2>3, <2>4, <2>5
<1>4. ASSUME NEW e \in Chat, Stamp(e)  PROVE Goal  BY <1>4 DEF Stamp
<1>5. ASSUME NEW e \in Chat, Commit(e)  PROVE Goal  BY <1>5 DEF Commit
<1>6. ASSUME NEW e \in Chat, Fail(e)  PROVE Goal  BY <1>6 DEF Fail
<1>7. ASSUME NEW x \in Eraser, Erase(x)  PROVE Goal  BY <1>7 DEF Erase
<1>8. ASSUME Crash  PROVE Goal  BY <1>8 DEF Crash
<1>. QED  BY StepOfChats, <1>1, <1>2, <1>3, <1>4, <1>5, <1>6, <1>7, <1>8 DEF ChatStep

LEMMA ReadNext ==
  ASSUME ChatInv, LossInv, [ChatsNext]_chatsVars
  PROVE  ReadInv'
<1>. DEFINE Goal == ReadInv'
<1>. USE DEF ChatInv, SessionInv, TypeOK, TableInv, LossInv, ReadInv, UnderWay, Saved, turnVars
<1>1. ASSUME Quiet  PROVE Goal  BY <1>1 DEF Quiet, Lost
<1>2. ASSUME NEW e \in Chat, Dispatch(e)  PROVE Goal  BY <1>2 DEF Dispatch, Lost
<1>3. ASSUME NEW e \in Chat, Read(e)  PROVE Goal
  <2>1. overlap \subseteq overlap'  BY <1>3 DEF Read
  <2>2. pc' = [pc EXCEPT ![e] = "asking"] /\ UNCHANGED <<ctx, stored>> /\ pc[e] = "dispatched"
    BY <1>3 DEF Read
  <2>3. \A f \in Chat : f # e => hist'[f] = hist[f]  BY <1>3 DEF Read
  <2>4. \A g \in stored : Lost(g) => Lost(g)'  BY <2>1, <2>2 DEF Lost
  <2>5. \A g \in Rows(ctx[e]) : g \in hist'[e] \/ Lost(g)
    <3>1. \A g \in stored : \A l \in stored :
            ctx[l] = ctx[g] /\ Latest(l) => g \in Window(l) \/ Lost(g)
      BY DEF LossNeedsOverlap, Rows, Lost
    <3>2. Rows(ctx[e]) # {} =>
            \E l \in Rows(ctx[e]) : Latest(l) /\ hist' = [hist EXCEPT ![e] = Window(l)]
      BY <1>3 DEF Read
    <3>3. \A l \in Rows(ctx[e]) : l \in stored /\ ctx[l] = ctx[e]  BY DEF Rows
    <3>. QED  BY <3>1, <3>2, <3>3
  <2>6. \A g \in stored : ctx[g] = ctx[e] => g \in Rows(ctx[e])  BY DEF Rows
  <2>. QED  BY <2>1, <2>2, <2>3, <2>4, <2>5, <2>6
<1>4. ASSUME NEW e \in Chat, Stamp(e)  PROVE Goal  BY <1>4 DEF Stamp, Lost
<1>5. ASSUME NEW e \in Chat, Commit(e)  PROVE Goal
  <2>1. pc' = [pc EXCEPT ![e] = "saved"] /\ stored' = stored \cup {e} /\ pc[e] = "saving"
    BY <1>5 DEF Commit
  <2>2. UNCHANGED <<ctx, hist, overlap>>  BY <1>5 DEF Commit
  <2>3. \A g \in stored : Lost(g) => Lost(g)'  BY <2>1, <2>2 DEF Lost
  <2>4. \A f \in UnderWay : f # e /\ ctx[f] = ctx[e] => <<e, f>> \in overlap
    BY <2>1 DEF MeetInv
  <2>. QED  BY <2>1, <2>2, <2>3, <2>4
<1>6. ASSUME NEW e \in Chat, Fail(e)  PROVE Goal  BY <1>6 DEF Fail, Lost
<1>7. ASSUME NEW x \in Eraser, Erase(x)  PROVE Goal  BY <1>7 DEF Erase, Lost
<1>8. ASSUME Crash  PROVE Goal  BY <1>8 DEF Crash, Lost
<1>. QED  BY StepOfChats, <1>1, <1>2, <1>3, <1>4, <1>5, <1>6, <1>7, <1>8 DEF ChatStep

LEMMA LossNext ==
  ASSUME ChatInv, LossInv, [ChatsNext]_chatsVars
  PROVE  LossNeedsOverlap'
<1>. DEFINE Goal == LossNeedsOverlap'
            KeptTurn(g, l) == g \in Window(l) \/ Lost(g)
<1>. USE DEF ChatInv, SessionInv, TypeOK, TableInv, LossInv, Saved, turnVars
<1>0. SUFFICES \A g \in stored' : \A l \in stored' :
                 ctx'[l] = ctx'[g] /\ Latest(l)' => KeptTurn(g, l)'
  BY DEF LossNeedsOverlap, Lost, Rows
<1>a. \A g \in stored : \A l \in stored : ctx[l] = ctx[g] /\ Latest(l) => KeptTurn(g, l)
  BY DEF LossNeedsOverlap, Lost, Rows
<1>. DEFINE Claim == \A g \in stored' : \A l \in stored' :
                       ctx'[l] = ctx'[g] /\ Latest(l)' => KeptTurn(g, l)'
\* The rows and their windows stay as they are, or whole contexts go.
<1>b. ASSUME stored' \subseteq stored,
             \A g \in stored : /\ ctx'[g] = ctx[g] /\ hist'[g] = hist[g] /\ at'[g] = at[g]
                               /\ Lost(g) => Lost(g)',
             \A g \in stored, l \in stored' : ctx[g] = ctx[l] => g \in stored'
      PROVE  Claim
  <2>1. ASSUME NEW l \in stored', Latest(l)'  PROVE Latest(l)
    BY <1>b, <2>1 DEF Latest, Rows
  <2>2. \A g \in stored, l \in stored : KeptTurn(g, l) => KeptTurn(g, l)'
    BY <1>b DEF Window
  <2>. QED  BY <1>a, <1>b, <2>1, <2>2
<1>1. ASSUME Quiet  PROVE Claim  BY <1>b, <1>1 DEF Quiet, Lost
<1>2. ASSUME NEW e \in Chat, Dispatch(e)  PROVE Claim  BY <1>b, <1>2 DEF Dispatch, Lost
<1>3. ASSUME NEW e \in Chat, Read(e)  PROVE Claim
  <2>1. pc[e] = "dispatched" /\ pc' = [pc EXCEPT ![e] = "asking"] /\ UNCHANGED <<ctx, at, stored>>
    BY <1>3 DEF Read
  <2>2. \A f \in Chat : f # e => hist'[f] = hist[f]  BY <1>3 DEF Read
  <2>3. overlap \subseteq overlap'  BY <1>3 DEF Read
  <2>4. \A g \in Chat : Lost(g) => Lost(g)'  BY <2>1, <2>3 DEF Lost
  <2>. QED  BY <1>b, <2>1, <2>2, <2>4
<1>4. ASSUME NEW e \in Chat, Stamp(e)  PROVE Claim  BY <1>b, <1>4 DEF Stamp, Lost
<1>5. ASSUME NEW e \in Chat, Commit(e)  PROVE Claim
  <2>1. pc' = [pc EXCEPT ![e] = "saved"] /\ stored' = stored \cup {e} /\ pc[e] = "saving"
    BY <1>5 DEF Commit
  <2>2. UNCHANGED <<ctx, hist, at, overlap>>  BY <1>5 DEF Commit
  <2>3. \A g \in Chat : Lost(g) => Lost(g)'  BY <2>1, <2>2 DEF Lost
  <2>4. Saved(e)'  BY <2>1
  <2>5. SUFFICES ASSUME NEW g \in stored', NEW l \in stored', ctx[l] = ctx[g], Latest(l)'
                 PROVE  KeptTurn(g, l)'
    BY <2>2
  <2>6. l \in stored => Latest(l)
    BY <2>1, <2>2, <2>5 DEF Latest, Rows
  <2>7. CASE g \in stored /\ l \in stored
    BY <1>a, <2>2, <2>3, <2>5, <2>6, <2>7 DEF Window
  <2>8. CASE g = l
    BY <2>8 DEF Window
  <2>9. CASE g \in stored /\ l = e
    <3>1. g \in hist[e] \/ <<g, e>> \in overlap \/ Lost(g)
      BY <2>1, <2>5, <2>9 DEF ReadInv, UnderWay
    <3>2. <<g, e>> \in overlap => Lost(g)'  BY <2>2, <2>4 DEF Lost
    <3>. QED  BY <2>2, <2>3, <2>9, <3>1, <3>2 DEF Window
  <2>10. CASE g = e /\ l \in stored /\ l # e
    <3>1. at[e] <= at[l]  BY <2>1, <2>2, <2>5, <2>10 DEF Latest, Rows
    <3>2. Saved(l) /\ l \in Chat  BY <2>10
    <3>3. <<e, l>> \in overlap  BY <2>1, <2>5, <2>10, <3>1, <3>2 DEF DateInv
    <3>4. Lost(e)  BY <3>2, <3>3 DEF Lost
    <3>. QED  BY <2>3, <2>10, <3>4
  <2>. QED  BY <2>1, <2>7, <2>8, <2>9, <2>10
<1>6. ASSUME NEW e \in Chat, Fail(e)  PROVE Claim  BY <1>b, <1>6 DEF Fail, Lost
<1>7. ASSUME NEW x \in Eraser, Erase(x)  PROVE Claim  BY <1>b, <1>7 DEF Erase, Lost, Rows
<1>8. ASSUME Crash  PROVE Claim  BY <1>b, <1>8 DEF Crash, Lost
<1>. QED  BY StepOfChats, <1>1, <1>2, <1>3, <1>4, <1>5, <1>6, <1>7, <1>8 DEF ChatStep

\* A turn that was saved and not erased is lost only to a chat it overlapped with.
THEOREM TurnsAreKept == ChatsSpec => []LossNeedsOverlap
<1>1. ChatInv /\ LossInv /\ [ChatsNext]_chatsVars => LossInv'
  BY MeetAndDateNext, ReadNext, LossNext DEF LossInv
<1>2. LossInv => LossNeedsOverlap  BY DEF LossInv
<1>. QED  BY ChatInvHolds, LossInvInit, <1>1, <1>2, PTL DEF ChatsSpec

-----------------------------------------------------------------------------
(* What was erased, and what a new conversation finds. *)

Returned(g) == \E h \in Chat : Saved(h) /\ g \in hist[h] /\ <<g, h>> \in outlived

\* An erased turn that a chat still holds was erased under that chat, or had come
\* back before.
EraseInv == \A e \in Chat : \A g \in hist[e] \cap erased :
  /\ e \in UnderWay => <<g, e>> \in outlived \/ Returned(g)
  /\ e \in stored => Returned(g)

LEMMA EraseInvNext ==
  ASSUME ChatInv, EraseInv, [ChatsNext]_chatsVars
  PROVE  EraseInv'
<1>. DEFINE Goal == EraseInv'
<1>. USE DEF ChatInv, SessionInv, TypeOK, TableInv, EraseInv, UnderWay, Saved, Reading, turnVars, ghostVars
<1>1. ASSUME Quiet  PROVE Goal  BY <1>1 DEF Quiet, Returned
<1>2. ASSUME NEW e \in Chat, Dispatch(e)  PROVE Goal
  <2>1. \A g \in Chat : Returned(g) => Returned(g)'  BY <1>2 DEF Dispatch, Returned
  <2>. QED  BY <1>2, <2>1 DEF Dispatch
<1>3. ASSUME NEW e \in Chat, Read(e)  PROVE Goal
  <2>1. pc[e] = "dispatched" /\ pc' = [pc EXCEPT ![e] = "asking"] /\ UNCHANGED <<stored, erased, outlived>>
    BY <1>3 DEF Read
  <2>2. \A f \in Chat : f # e => hist'[f] = hist[f]  BY <1>3 DEF Read
  <2>3. \A g \in Chat : Returned(g) => Returned(g)'  BY <2>1, <2>2 DEF Returned
  <2>4. hist'[e] = {} \/ \E l \in stored : hist'[e] = hist[l] \cup {l}
    BY <1>3 DEF Read, Rows, Window
  <2>5. \A g \in hist'[e] \cap erased : Returned(g)  BY <2>4
  <2>6. e \notin stored  BY <2>1
  <2>. QED  BY <2>1, <2>2, <2>3, <2>5, <2>6
<1>4. ASSUME NEW e \in Chat, Stamp(e)  PROVE Goal
  <2>1. \A g \in Chat : Returned(g) => Returned(g)'  BY <1>4 DEF Stamp, Returned
  <2>. QED  BY <1>4, <2>1 DEF Stamp
<1>5. ASSUME NEW e \in Chat, Commit(e)  PROVE Goal
  <2>1. \A g \in Chat : Returned(g) => Returned(g)'  BY <1>5 DEF Commit, Returned
  <2>2. \A g \in Chat : <<g, e>> \in outlived /\ g \in hist[e] => Returned(g)'
    BY <1>5 DEF Commit, Returned
  <2>. QED  BY <1>5, <2>1, <2>2 DEF Commit
<1>6. ASSUME NEW e \in Chat, Fail(e)  PROVE Goal
  <2>1. \A g \in Chat : Returned(g) => Returned(g)'  BY <1>6 DEF Fail, Returned
  <2>. QED  BY <1>6, <2>1 DEF Fail
<1>7. ASSUME NEW x \in Eraser, Erase(x)  PROVE Goal
  <2>. DEFINE gone == Rows(erasing[x])
              beside == {f \in UnderWay : ctx[f] = erasing[x]}
  <2>1. /\ stored' = stored \ gone /\ erased' = erased \cup gone
        /\ outlived' = outlived \cup (gone \X beside)
        /\ UNCHANGED <<pc, ctx, hist>>
    BY <1>7 DEF Erase
  <2>2. \A g \in gone : g \in stored /\ ctx[g] = erasing[x]  BY DEF Rows
  <2>3. \A g \in stored : ctx[g] = erasing[x] => g \in gone  BY DEF Rows
  <2>4. \A f \in UnderWay : ctx[f] = erasing[x] => f \in beside  OBVIOUS
  <2>. HIDE DEF gone, beside
  <2>5. outlived \subseteq outlived' /\ \A g \in gone, f \in beside : <<g, f>> \in outlived'
    BY <2>1
  <2>6. \A g \in Chat : Returned(g) => Returned(g)'  BY <2>1, <2>5 DEF Returned
  <2>7. ASSUME NEW e \in Chat, NEW g \in hist[e] \cap gone
        PROVE  /\ e \in UnderWay => <<g, e>> \in outlived'
               /\ e \notin stored'
    BY <2>1, <2>2, <2>3, <2>4, <2>5
  <2>. QED  BY <2>1, <2>5, <2>6, <2>7
<1>8. ASSUME Crash  PROVE Goal  BY <1>8 DEF Crash, Returned
<1>. QED  BY StepOfChats, <1>1, <1>2, <1>3, <1>4, <1>5, <1>6, <1>7, <1>8 DEF ChatStep

\* An erased turn comes back only through a chat that was under way at the erasure.
THEOREM ErasedTurnsStayErased == ChatsSpec => []ErasedStaysErased
<1>1. ChatsInit => EraseInv  BY DEF ChatsInit, EraseInv
<1>2. ChatInv /\ EraseInv /\ [ChatsNext]_chatsVars => EraseInv'  BY EraseInvNext
<1>3. ASSUME ChatInv, EraseInv  PROVE ErasedStaysErased
  <2>1. \A e \in stored : \A g \in hist[e] \cap erased : Returned(g)
    BY <1>3 DEF ChatInv, SessionInv, TypeOK, EraseInv
  <2>2. stored \cap erased = {}  BY <1>3 DEF ChatInv, TableInv
  <2>. QED  BY <2>1, <2>2 DEF ErasedStaysErased, Returned, Window
<1>. QED  BY ChatInvHolds, <1>1, <1>2, <1>3, PTL DEF ChatsSpec

\* A chat under way keeps its conversation, or its context is known to be tainted.
PinInv == \A c \in Name : Pinned(c) # {} => c \in IdsOf(Ensured) \cup tainted

LEMMA FreshNext ==
  ASSUME ChatInv, PinInv, FreshStartsEmpty, [ChatsNext]_chatsVars
  PROVE  PinInv' /\ FreshStartsEmpty'
<1>. DEFINE Goal == PinInv' /\ FreshStartsEmpty'
<1>0. SessionOK  BY DEF ChatInv, SessionInv, TypeOK, SessionOK
<1>. USE DEF ChatInv, SessionInv, TypeOK, TableInv, PinInv, FreshStartsEmpty, Saved, Pinned, Rows,
             turnVars, ghostVars
<1>1. ASSUME Manage  PROVE Goal
  <2>1. IdsOf(Ensured) \subseteq IdsOf(Ensured')  BY <1>0, <1>1, IdsGrow DEF Manage
  <2>. QED  BY <1>1, <2>1 DEF Manage
<1>2. ASSUME NEW e \in Chat, Dispatch(e)  PROVE Goal
  <2>1. IdsOf(Ensured) \subseteq IdsOf(Ensured')  BY <1>0, <1>2, IdsGrow DEF Dispatch
  <2>2. EnsuredActive \in IdsOf(Ensured)  BY <1>0, EnsuredActiveIsListed
  <2>. QED  BY <1>2, <2>1, <2>2 DEF Dispatch
<1>. DEFINE Same == IdsOf(Ensured') = IdsOf(Ensured)
<1>3. ASSUME UNCHANGED sessionVars  PROVE Same  BY <1>3 DEF sessionVars, Ensured, IdsOf
<1>4. ASSUME NEW e \in Chat, Read(e)  PROVE Goal  BY <1>3, <1>4 DEF Read
<1>5. ASSUME NEW e \in Chat, Stamp(e)  PROVE Goal  BY <1>3, <1>5 DEF Stamp
<1>6. ASSUME NEW e \in Chat, Commit(e)  PROVE Goal  BY <1>3, <1>6 DEF Commit
<1>7. ASSUME NEW e \in Chat, Fail(e)  PROVE Goal  BY <1>3, <1>7 DEF Fail
<1>8. ASSUME NEW x \in Eraser, NEW c \in Name, Clear(x, c)  PROVE Goal
  <2>1. IdsOf(Ensured) \subseteq IdsOf(Ensured')  BY <1>0, <1>8, IdsGrow DEF Clear
  <2>2. \A y \in Eraser : erasing[y] # None => erasing'[y] = erasing[y]  BY <1>8 DEF Clear
  <2>. QED  BY <1>8, <2>1, <2>2, NameAssumption DEF Clear
<1>9. ASSUME NEW x \in Eraser, Delete(x)  PROVE Goal
  <2>1. PICK n \in Name : \E i \in DOMAIN Ensured :
          /\ DeleteConversation(i, n)
          /\ erasing' = [erasing EXCEPT ![x] = Ensured[i].id]
          /\ tainted' = tainted \cup {c \in {Ensured[i].id} : Pinned(c) # {}}
    BY <1>9 DEF Delete
  <2>2. PICK i \in DOMAIN Ensured :
          /\ DeleteConversation(i, n)
          /\ erasing' = [erasing EXCEPT ![x] = Ensured[i].id]
          /\ tainted' = tainted \cup {c \in {Ensured[i].id} : Pinned(c) # {}}
    BY <2>1
  <2>. DEFINE d == Ensured[i].id
  <2>3. IdsOf(Ensured) \subseteq IdsOf(Ensured') \cup {d}  BY <1>0, <2>2, IdsAfterDelete
  <2>4. UNCHANGED <<pc, ctx, stored>> /\ erasing[x] = None  BY <1>9 DEF Delete
  <2>5. erasing' = [erasing EXCEPT ![x] = d]  BY <2>2
  <2>6. tainted \subseteq tainted' /\ (Pinned(d) # {} => d \in tainted')  BY <2>2
  <2>. HIDE DEF d
  <2>. QED  BY <2>3, <2>4, <2>5, <2>6, NameAssumption
<1>10. ASSUME NEW x \in Eraser, Erase(x)  PROVE Goal
  <2>1. Same  BY <1>3, <1>10 DEF Erase
  <2>. QED  BY <1>10, <2>1 DEF Erase
<1>11. ASSUME NEW x \in Eraser, EraseFails(x)  PROVE Goal
  <2>1. Same  BY <1>3, <1>11 DEF EraseFails
  <2>. QED  BY <1>11, <2>1 DEF EraseFails
<1>12. ASSUME Crash  PROVE Goal  BY <1>12 DEF Crash
<1>13. ASSUME UNCHANGED chatsVars  PROVE Goal  BY <1>3, <1>13 DEF chatsVars
<1>. QED  BY <1>1, <1>2, <1>4, <1>5, <1>6, <1>7, <1>8, <1>9, <1>10, <1>11, <1>12, <1>13 DEF ChatsNext

\* A conversation created under a name that was free starts with no snapshots, but
\* for the faults the statement lists.
THEOREM NewConversationsStartEmpty == ChatsSpec => []FreshStartsEmpty
<1>1. ChatsInit => PinInv /\ FreshStartsEmpty
  BY DEF ChatsInit, PinInv, FreshStartsEmpty, Pinned, Rows
<1>2. ChatInv /\ PinInv /\ FreshStartsEmpty /\ [ChatsNext]_chatsVars => PinInv' /\ FreshStartsEmpty'
  BY FreshNext
<1>. QED  BY ChatInvHolds, <1>1, <1>2, PTL DEF ChatsSpec

=============================================================================
