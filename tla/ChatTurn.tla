-------------------------------- MODULE ChatTurn --------------------------------
(***************************************************************************)
(* The chats of one context, one after the other: ChatOrchestrator.chat,   *)
(* chat_stream and its fallback to chat, from the history they load to the *)
(* snapshot they save, with the tools of ToolUse, which plugins and the    *)
(* HTTP interface change at any time.  BotChats has chats side by side.    *)
(*                                                                         *)
(* A message is [role, turn, calls]: the turn it belongs to and the ids of *)
(* the calls it makes or answers.  What the model replies is external: any *)
(* calls, with arguments that are valid or not, with or without a text.    *)
(***************************************************************************)
EXTENDS ToolUse, Sequences, SequencesExt

CONSTANTS
  Request,   \* the requests there are
  Call,      \* the calls a model makes: records [tool, valid]
  MaxTurns,  \* bound
  MaxCalls   \* bound: calls in a reply

Policy == [allowed : SUBSET Tool, denied : SUBSET Tool, permissions : SUBSET Permission,
           maxRisk : Risk, bypass : BOOLEAN]

ASSUME ChatAssumption ==
  /\ Request # {}
  /\ Request \subseteq
       [mode : {"chat", "stream", "fallback"}, rounds : Nat, names : SUBSET Tool,
        policy : Policy, required : SUBSET Skill, triggers : [Skill -> Nat],
        maxSkills : Nat, rag : BOOLEAN, system : BOOLEAN]
  /\ Call \subseteq [tool : Tool, valid : BOOLEAN]
  /\ MaxTurns \in Nat /\ MaxCalls \in Nat

VARIABLES
  history,   \* the messages of the latest snapshot
  turn,      \* the turns begun
  phase,     \* "idle", "prepared" twice over, "asking" the provider, "calling", "answered"
  req,       \* the request of the turn
  policy,    \* its effective policy
  window,    \* the HISTORY segment of its context window
  sent,      \* the conversation as it was last sent to the provider
  offered,   \* the tools it offers
  round,     \* the rounds of calls that were fed back
  reply,     \* what the model replied last
  results,   \* the answers to its calls so far
  outcome,   \* of the last turn that ended: "none", "answered", "silent", "failed"
  ran,       \* history: the calls that were run in this turn
  completed  \* history: the turns that saved a snapshot

chatVars == <<history, turn, phase, req, policy, window, sent, offered, round,
              reply, results, outcome, ran, completed>>
vars == <<toolVars, chatVars>>

Message(role, n, calls) == [role |-> role, turn |-> n, calls |-> calls]

\* What the request brings: a plugin's may have instructions of its own in front.
Asked(r, n) ==
  (IF r.system THEN <<Message("system", n, <<>>)>> ELSE <<>>) \o <<Message("user", n, <<>>)>>

\* RAGChatOrchestrator retrieves first, and makes a segment of what it finds.
References(r, n) == IF r.rag THEN <<Message("reference", n, <<>>)>> ELSE <<>>

\* The instructions of the skills that are selected for the request.
Instructions(r, n) ==
  IF HasSkills /\ Selected(r) # {} THEN <<Message("skills", n, <<>>)>> ELSE <<>>

NoRequest == CHOOSE r \in Request : TRUE
NoReply == [calls |-> <<>>, text |-> FALSE, message |-> FALSE]
Reply ==
  {[calls |-> calls, text |-> text, message |-> text \/ message \/ calls # <<>>] :
     calls \in BoundedSeq(Call, MaxCalls), text \in BOOLEAN, message \in BOOLEAN}

CallId(i) == <<turn, round, i>>
Ids == [i \in DOMAIN reply.calls |-> CallId(i)]

Init ==
  /\ ToolInit
  /\ history = <<>> /\ turn = 0 /\ phase = "idle"
  /\ req = NoRequest /\ policy = Effective(req)
  /\ window = <<>> /\ sent = <<>> /\ offered = {} /\ round = 0
  /\ reply = NoReply /\ results = <<>> /\ outcome = "none"
  /\ ran = {} /\ completed = {}

-----------------------------------------------------------------------------
(* Preparing a turn. *)

\* _append_context_segments
Extended(w, r, n) == w \o References(r, n)

\* _build_provider_messages
Conversation(w, r, n) == Instructions(r, n) \o Extended(w, r, n)

\* _prepare_chat: the window is the history and the messages of the request.
Prepare(r) ==
  /\ req' = r
  /\ policy' = Effective(r)
  /\ window' = history \o Asked(r, turn')
  /\ sent' = Conversation(window', r, turn')
  /\ offered' = Usable(policy')
  /\ round' = 0 /\ reply' = NoReply /\ results' = <<>> /\ ran' = {}
  /\ UNCHANGED <<history, completed>>

Begin(r) ==
  /\ phase = "idle" /\ turn < MaxTurns
  /\ turn' = turn + 1
  /\ Prepare(r)
  /\ phase' = IF r.mode = "fallback" THEN "prepared" ELSE "asking"
  /\ UNCHANGED outcome

\* The provider does not stream, so chat_stream calls chat, which prepares again.
FallBack ==
  /\ phase = "prepared"
  /\ UNCHANGED <<turn, outcome>>
  /\ Prepare(req)
  /\ phase' = "asking"

\* Nothing of a turn stays but what it saved.
Ended(how) ==
  /\ phase' = "idle" /\ outcome' = how
  /\ req' = NoRequest /\ policy' = Effective(NoRequest)
  /\ window' = <<>> /\ sent' = <<>> /\ offered' = {} /\ round' = 0
  /\ reply' = NoReply /\ results' = <<>> /\ ran' = {}
  /\ UNCHANGED turn

Fails == Ended("failed") /\ UNCHANGED <<history, completed>>

\* There is no such provider, it cannot chat, or the context builder cannot keep to the
\* budget; or the history cannot be read, or retrieval fails.
Refuse(r) ==
  /\ phase = "idle" /\ turn < MaxTurns
  /\ turn' = turn + 1
  /\ outcome' = "failed"
  /\ UNCHANGED <<history, phase, req, policy, window, sent, offered, round, reply,
                 results, ran, completed>>

-----------------------------------------------------------------------------
(* The rounds. *)

Answer(p) ==
  /\ phase = "asking"
  /\ reply' = p
  /\ phase' = IF p.calls # <<>> /\ round < req.rounds THEN "calling" ELSE "answered"
  /\ UNCHANGED <<history, turn, req, policy, window, sent, offered, round, results, outcome, ran, completed>>

\* The provider, a middleware or the stream raises.
AskFails == phase = "asking" /\ Fails

\* The next call of the reply.  A tool that runs may fail or time out, which is told to
\* the model as a refusal is, or raise some other error, which ends the chat.
Execute ==
  LET call == reply.calls[Len(results) + 1]
      verdict == Verdict(policy, call)
  IN  /\ phase = "calling" /\ Len(results) < Len(reply.calls)
      /\ verdict \in {"runs", "refused"}
      /\ results' = Append(results, CallId(Len(results) + 1))
      /\ ran' = IF verdict = "refused" THEN ran
                ELSE ran \cup {[tool |-> call.tool, sandboxed |-> Sandboxed(policy, call.tool),
                                enabled |-> call.tool \in registered \ disabled]}
      /\ UNCHANGED <<history, turn, phase, req, policy, window, sent, offered, round,
                     reply, outcome, completed>>

ExecuteFails ==
  LET verdict == Verdict(policy, reply.calls[Len(results) + 1])
  IN  /\ phase = "calling" /\ Len(results) < Len(reply.calls)
      /\ verdict # "refused"
      /\ Fails

\* What the model is told of a call, whether it succeeded, failed or was refused.
Told(id) == Message("result", turn, <<id>>)

\* _append_tool_feedback_messages, and the next request to the provider
Feedback ==
  /\ phase = "calling" /\ Len(results) = Len(reply.calls)
  /\ sent' = sent \o <<Message("calls", turn, Ids)>>
                  \o [i \in DOMAIN results |-> Told(results[i])]
  /\ round' = round + 1
  /\ phase' = "asking"
  /\ reply' = NoReply /\ results' = <<>>
  /\ UNCHANGED <<history, turn, req, policy, window, offered, outcome, ran, completed>>

-----------------------------------------------------------------------------
(* The end of a turn. *)

Answered == IF reply.message /\ reply.calls = <<>> THEN <<Message("answer", turn, <<>>)>> ELSE <<>>

\* Faulty: the answer goes behind the retrieved segments.
SaveAtTheEnd ==
  /\ phase = "answered"
  /\ Ended(IF reply.text THEN "answered" ELSE "silent")
  /\ history' = window \o References(req, turn) \o Answered
  /\ completed' = completed \cup {turn}

\* _append_response_message: a message that makes calls is not kept; the answer goes to
\* the HISTORY segment, before the retrieved ones.
Save ==
  /\ phase = "answered"
  /\ Ended(IF reply.text THEN "answered" ELSE "silent")
  /\ history' = window \o Answered \o References(req, turn)
  /\ completed' = completed \cup {turn}

\* The snapshot is not saved: the store fails, or the client of a stream has gone away,
\* at any event it is given.
SaveFails == phase = "answered" /\ Fails
Abandon == phase \in {"asking", "calling"} /\ req.mode = "stream" /\ Fails

Step ==
  \/ FallBack
  \/ \E p \in Reply : Answer(p)
  \/ AskFails
  \/ Execute
  \/ ExecuteFails
  \/ Feedback
  \/ Save
  \/ SaveFails
  \/ Abandon

Next ==
  \/ (\E r \in Request : Begin(r) \/ Refuse(r)) /\ UNCHANGED toolVars
  \/ Step /\ UNCHANGED toolVars
  \/ ChangeTools /\ UNCHANGED chatVars

Spec == Init /\ [][Next]_vars

-----------------------------------------------------------------------------
(* What chats promise. *)

Permitted(r, x) ==
  /\ x.enabled
  /\ x.tool \in r.names \cap r.policy.allowed /\ x.tool \notin r.policy.denied
  /\ HasSkills => \E s \in Selected(r) : x.tool \in SkillOf[s].tools
  /\ Profile[x.tool].risk <= r.policy.maxRisk
  /\ Profile[x.tool].permissions \subseteq r.policy.permissions
  /\ Profile[x.tool].sandbox => x.sandboxed \/ r.policy.bypass

\* A tool that ran was enabled, was on every list the request, its policy and its skills
\* give, on no list of denied tools, and within the risk and the permissions of the
\* policy; one that needs a sandbox ran in it unless the policy lets it out.
RunsArePermitted == \A x \in ran : Permitted(req, x)

\* A reply whose calls nobody answers ends a turn only at the limit of rounds, and no
\* round is begun beyond it.
RoundsAreLimited ==
  /\ round <= req.rounds
  /\ phase = "calling" => round < req.rounds
  /\ phase = "answered" /\ reply.calls # <<>> => round = req.rounds

Transcript(h, turns) ==
  /\ \A i \in DOMAIN h : h[i].role \in {"system", "user", "answer", "reference"}
  /\ \A i, j \in DOMAIN h : i < j =>
       /\ h[i].turn <= h[j].turn
       /\ h[i].role = "user" /\ h[j].role = "user" => h[i].turn # h[j].turn
  /\ \A i \in DOMAIN h : h[i].role = "answer" =>
       i > 1 /\ h[i - 1] = Message("user", h[i].turn, <<>>)
  /\ {h[i].turn : i \in DOMAIN h} = turns

\* The history a chat loads is a transcript of the turns that were completed: each one's
\* message once, in order, followed by its answer if it has one, and by what was
\* retrieved for it; nothing of a turn that failed, and no call or answer to a call.
HistoryIsATranscript == Transcript(history, completed)

=============================================================================
