-------------------------------- MODULE BotTurn --------------------------------
(***************************************************************************)
(* The events of one bot session, one after the other: BotDispatcher and   *)
(* BotOrchestrator.handle take an event to the handlers of the plugins, to *)
(* a command or to a chat of ChatTurn, and send the actions of all of them *)
(* to the channel.  Handlers and commands may chat in the same context     *)
(* themselves.  Between the awaits plugins are enabled and disabled, tools *)
(* change, and HTTP requests chat in the context when no event is handled. *)
(*                                                                         *)
(* An action is named after what made it: the handler of a plugin, the     *)
(* command, the reply of the model, or a notice of the orchestrator.  What *)
(* handlers and commands do is external.                                   *)
(***************************************************************************)
EXTENDS ChatTurn

CONSTANTS
  Plugin,      \* the loaded plugins, numbered in the order of their registration
  Subscribed,  \* Subscribed[p]: the types of event that p handles
  Command,     \* the commands: records [words, plugin, admin]
  Event,       \* the events there are, with what their channel is told about answering
  Admins,      \* the users who are configured as administrators
  BotRequest,  \* the request a message is turned into
  PluginRequest,  \* the request of a plugin's own chats
  MayChat,     \* the plugins whose permissions include the model
  MaxEvents,   \* bound
  MaxChanges   \* bound: changes to plugins and tools

ASSUME BotAssumption ==
  /\ Plugin \subseteq Nat
  /\ BotRequest \in Request /\ PluginRequest \in Request
  /\ Event # {}
  /\ \A e \in Event :
       /\ e.words \in Seq(STRING) /\ {e.flagged, e.direct, e.mentioned, e.content} \subseteq BOOLEAN
       /\ e.mode \in {"always", "never", "direct", "mention", "keyword", "direct_or_mention"}
  /\ \A c \in Command : c.words \in Seq(STRING) /\ c.admin \in BOOLEAN
  /\ MaxEvents \in Nat /\ MaxChanges \in Nat

VARIABLES
  active,     \* the plugins that are enabled
  stage,      \* "free", "handlers", "command", "chat", "sending"
  event,      \* the event being handled
  events,     \* the events received
  handlers,   \* the handlers still to call
  actions,    \* the actions to send
  command,    \* the command being executed
  produced,   \* history: all actions that were made for the event
  delivered,  \* history: the actions that were sent
  heard,      \* history: the plugins whose handlers were called
  listed,     \* history: the plugins that were enabled when the event arrived
  faulty,     \* history: something failed while the event was handled
  changes

botVars == <<active, stage, event, events, handlers, actions, command,
             produced, delivered, heard, listed, faulty, changes>>
allVars == <<vars, botVars>>

Action == ({"plugin"} \X Plugin) \cup {<<"notice">>, <<"command">>, <<"reply">>}
NoEvent == CHOOSE e \in Event : TRUE
NoCommand == [words |-> <<>>, plugin |-> 0, admin |-> FALSE]

BotInit ==
  /\ Init
  /\ active = Plugin
  /\ stage = "free" /\ event = NoEvent /\ events = 0
  /\ handlers = {} /\ actions = <<>> /\ command = NoCommand
  /\ produced = <<>> /\ delivered = <<>> /\ heard = {} /\ listed = {}
  /\ faulty = FALSE /\ changes = 0

-----------------------------------------------------------------------------
(* Events and plugins. *)

\* What plugins are told of an event: a type they do not know is unknown to them.
PluginEvent(e) ==
  IF e.type \in {"message", "command", "member_joined", "member_left"} THEN e.type ELSE "unknown"

\* resolve_events, when the plugins in enabled are enabled
Handlers(enabled, e) == {p \in enabled : PluginEvent(e) \in Subscribed[p]}

Receive(e) ==
  /\ stage = "free" /\ phase = "idle" /\ events < MaxEvents /\ turn < MaxTurns
  /\ event' = e /\ events' = events + 1
  /\ stage' = "handlers"
  /\ handlers' = Handlers(active, e)
  /\ listed' = active
  /\ UNCHANGED <<active, actions, command, produced, delivered, heard, faulty, changes, vars>>

\* dispatch_event calls the handlers in the order of their plugins.
IsNext(p) == p \in handlers /\ \A q \in handlers : p <= q

Makes(action) ==
  /\ actions' = Append(actions, action)
  /\ produced' = Append(produced, action)

MakesNothing == UNCHANGED <<actions, produced>>

\* Faulty: who is called next is looked up after each call.
HandleByNow(p) ==
  /\ stage = "handlers" /\ IsNext(p) /\ phase = "idle"
  /\ handlers' = Handlers(active, event) \ (heard \cup {p})
  /\ heard' = heard \cup {p}
  /\ Makes(<<"plugin", p>>) \/ MakesNothing
  /\ UNCHANGED <<active, stage, event, events, command, delivered, listed, faulty, changes, vars>>

Handle(p) ==
  /\ stage = "handlers" /\ IsNext(p) /\ phase = "idle"
  /\ handlers' = handlers \ {p}
  /\ heard' = heard \cup {p}
  /\ Makes(<<"plugin", p>>) \/ MakesNothing
  /\ UNCHANGED <<active, stage, event, events, command, delivered, listed, faulty, changes, vars>>

\* A handler that raises ends the dispatch of the event to plugins, and what the others
\* have answered is dropped; the event itself goes on.
HandleFails(p) ==
  /\ stage = "handlers" /\ IsNext(p) /\ phase = "idle"
  /\ handlers' = {} /\ actions' = <<>>
  /\ heard' = heard \cup {p}
  /\ faulty' = TRUE
  /\ UNCHANGED <<active, stage, event, events, command, produced, delivered, listed, changes, vars>>

-----------------------------------------------------------------------------
(* Where an event goes. *)

\* The channel may say that a user is an administrator; the configuration may, too.
Admin(e) == e.flagged \/ (e.user # "nobody" /\ e.user \in Admins)

\* The platform says that a chat is direct, or of which type it is.
IsDirect(e) == e.direct \/ e.chat = "private"

\* The platform says that the bot was mentioned, or the text names it.
IsMentioned(e) == e.mentioned \/ e.names \cap e.mentions # {}

\* _should_trigger_message_response: to which messages the bot is to react
Triggered(e) ==
  \/ e.mode = "always"
  \/ e.mode \in {"direct", "direct_or_mention"} /\ IsDirect(e)
  \/ e.mode \in {"mention", "direct_or_mention"} /\ IsMentioned(e)
  \/ e.mode = "keyword" /\ e.says \cap e.keywords # {}

IsCommand(e) == e.type = "command" \/ (e.type = "message" /\ e.slash)
Routable == stage = "handlers" /\ handlers = {} /\ phase = "idle"

Reaction(action, next) == Makes(<<action>>) /\ stage' = next

\* The event is over, and nothing of it stays; if it is given up, no further action is
\* sent.
Over ==
  /\ stage' = "free" /\ event' = NoEvent
  /\ handlers' = {} /\ actions' = <<>> /\ command' = NoCommand
  /\ produced' = <<>> /\ delivered' = <<>> /\ heard' = {} /\ listed' = {}
  /\ faulty' = FALSE
  /\ UNCHANGED <<active, events, changes>>

\* _split_command_parts and resolve_command: the longest name of a command of an enabled
\* plugin that the words begin with
Known == {c \in Command : c.plugin \in active}
Matching(words) == {c \in Known : IsPrefix(c.words, words)}

\* Faulty: the first word decides.
ResolvedByFirst(words) ==
  CHOOSE c \in Matching(words) : \A d \in Matching(words) : Len(c.words) <= Len(d.words)

Resolved(words) ==
  CHOOSE c \in Matching(words) : \A d \in Matching(words) : Len(d.words) <= Len(c.words)

\* The text has no command or cannot be split.
RejectCommand ==
  /\ Routable /\ IsCommand(event) /\ event.words = <<>>
  /\ Over /\ UNCHANGED vars

\* No command of that name is known.
Unknown ==
  /\ Routable /\ IsCommand(event) /\ event.words # <<>>
  /\ Matching(event.words) = {}
  /\ Reaction("notice", "sending")
  /\ UNCHANGED <<active, event, events, handlers, command, delivered, heard, listed, faulty, changes, vars>>

Unauthorized ==
  /\ Routable /\ IsCommand(event) /\ event.words # <<>>
  /\ Matching(event.words) # {}
  /\ Resolved(event.words).admin /\ ~ Admin(event)
  /\ Reaction("notice", "sending")
  /\ UNCHANGED <<active, event, events, handlers, command, delivered, heard, listed, faulty, changes, vars>>

StartCommand ==
  /\ Routable /\ IsCommand(event) /\ event.words # <<>>
  /\ Matching(event.words) # {}
  /\ Resolved(event.words).admin => Admin(event)
  /\ command' = Resolved(event.words)
  /\ stage' = "command"
  /\ UNCHANGED <<active, event, events, handlers, actions, produced, delivered, heard, listed, faulty, changes, vars>>

\* The command answers, with a notice when its input is wrong or it fails.
CommandAnswers(action) ==
  /\ stage = "command" /\ phase = "idle"
  /\ Reaction(action, "sending")
  /\ UNCHANGED <<active, event, events, handlers, command, delivered, heard, listed, faulty, changes, vars>>

\* An error that is not a plugin's, of a provider say, passes through.
CommandFails ==
  /\ stage = "command" /\ phase = "idle"
  /\ Over /\ UNCHANGED vars

\* require_permission
Granted(p) == p \in MayChat

\* The session a plugin's chat is in: the one it names, or the platform's, whose context is
\* not that of any conversation.
ChatSession(named) == IF named = "none" THEN "platform" ELSE named

Running(p) == (stage = "handlers" /\ IsNext(p)) \/ (stage = "command" /\ command.plugin = p)

\* The handler that is running, or the command, chats in the conversation.  The bound
\* leaves the event its own turn.
PluginChats(p) ==
  /\ Running(p) /\ Granted(p) /\ turn + 1 < MaxTurns
  /\ \E named \in {"none", "conversation"} : ChatSession(named) = "conversation"
  /\ Begin(PluginRequest) \/ Refuse(PluginRequest)
  /\ UNCHANGED <<toolVars, botVars>>

RejectEvent ==
  /\ Routable /\ ~ IsCommand(event)
  /\ event.type # "message" \/ (Triggered(event) /\ ~ event.content)
  /\ Over /\ UNCHANGED vars

Ignore ==
  /\ Routable /\ ~ IsCommand(event)
  /\ event.type = "message" /\ ~ Triggered(event)
  /\ stage' = "sending"
  /\ UNCHANGED <<active, event, events, handlers, actions, command, produced,
                 delivered, heard, listed, faulty, changes, vars>>

StartChat ==
  /\ Routable /\ ~ IsCommand(event)
  /\ event.type = "message" /\ Triggered(event) /\ event.content
  /\ stage' = "chat"
  /\ Begin(BotRequest) /\ UNCHANGED toolVars
  /\ UNCHANGED <<active, event, events, handlers, actions, command, produced,
                 delivered, heard, listed, faulty, changes>>

ChatRefused ==
  /\ Routable /\ ~ IsCommand(event)
  /\ event.type = "message" /\ Triggered(event) /\ event.content
  /\ Refuse(BotRequest) /\ UNCHANGED toolVars
  /\ Over

\* Faulty: the reply takes the place of what the plugins made.
ChatAnsweredAlone ==
  /\ stage = "chat" /\ phase = "idle" /\ outcome = "answered"
  /\ actions' = <<<<"reply">>>> /\ produced' = Append(produced, <<"reply">>)
  /\ stage' = "sending"
  /\ UNCHANGED <<active, event, events, handlers, command, delivered, heard, listed, faulty, changes, vars>>

ChatAnswered ==
  /\ stage = "chat" /\ phase = "idle" /\ outcome = "answered"
  /\ Reaction("reply", "sending")
  /\ UNCHANGED <<active, event, events, handlers, command, delivered, heard, listed, faulty, changes, vars>>

ChatSilent ==
  /\ stage = "chat" /\ phase = "idle" /\ outcome = "silent"
  /\ stage' = "sending"
  /\ UNCHANGED <<active, event, events, handlers, actions, command, produced,
                 delivered, heard, listed, faulty, changes, vars>>

ChatFailed ==
  /\ stage = "chat" /\ phase = "idle" /\ outcome = "failed"
  /\ Over /\ UNCHANGED vars

-----------------------------------------------------------------------------
(* Sending, and the end of the event. *)

Send ==
  /\ stage = "sending" /\ actions # <<>>
  /\ actions' = Tail(actions)
  /\ delivered' = Append(delivered, Head(actions))
  /\ UNCHANGED <<active, stage, event, events, handlers, command, produced, heard, listed, faulty, changes, vars>>

\* Faulty: an action that could not be sent is tried again after the others.
SendFailsRequeueing ==
  /\ stage = "sending" /\ actions # <<>>
  /\ actions' = Append(Tail(actions), Head(actions))
  /\ faulty' = TRUE
  /\ UNCHANGED <<active, stage, event, events, handlers, command, produced, delivered, heard, listed, changes, vars>>

\* An error of the channel costs this action.
SendFails ==
  /\ stage = "sending" /\ actions # <<>>
  /\ actions' = Tail(actions)
  /\ faulty' = TRUE
  /\ UNCHANGED <<active, stage, event, events, handlers, command, produced, delivered, heard, listed, changes, vars>>

\* There is no such channel any more, or some other exception: the rest is not sent.
SendAborts ==
  /\ stage = "sending" /\ actions # <<>>
  /\ Over /\ UNCHANGED vars

Settle ==
  /\ stage = "sending" /\ actions = <<>>
  /\ Over /\ UNCHANGED vars

SetPlugin(p) ==
  /\ changes < MaxChanges
  /\ changes' = changes + 1
  /\ active' = IF p \in active THEN active \ {p} ELSE active \cup {p}
  /\ UNCHANGED <<stage, event, events, handlers, actions, command, produced,
                 delivered, heard, listed, faulty, vars>>

SetTools ==
  /\ changes < MaxChanges
  /\ changes' = changes + 1
  /\ ChangeTools
  /\ UNCHANGED <<active, stage, event, events, handlers, actions, command, produced,
                 delivered, heard, listed, faulty, chatVars>>

BotStep ==
  \/ \E p \in Plugin : Handle(p)
  \/ \E p \in Plugin : HandleFails(p)
  \/ RejectCommand
  \/ Unknown
  \/ Unauthorized
  \/ StartCommand
  \/ \E action \in {"command", "notice"} : CommandAnswers(action)
  \/ CommandFails
  \/ RejectEvent
  \/ Ignore
  \/ StartChat
  \/ ChatRefused
  \/ ChatAnswered
  \/ ChatSilent
  \/ ChatFailed
  \/ Send
  \/ SendFails
  \/ SendAborts
  \/ Settle

BotNext ==
  \/ \E e \in Event : Receive(e)
  \/ BotStep
  \/ \E p \in Plugin : PluginChats(p)
  \/ \E p \in Plugin : SetPlugin(p)
  \/ Step /\ UNCHANGED <<toolVars, botVars>>
  \/ SetTools
  \/ stage = "free" /\ (\E r \in Request : Begin(r) \/ Refuse(r)) /\ UNCHANGED <<toolVars, botVars>>

\* Handlers, commands and channels return or raise; so do providers, tools and the store,
\* whose clients have timeouts.
BotSpec == BotInit /\ [][BotNext]_allVars
BotFairSpec ==
  BotSpec /\ WF_allVars(BotStep) /\ WF_allVars(Step /\ UNCHANGED <<toolVars, botVars>>)

-----------------------------------------------------------------------------
(* What the bot promises. *)

\* An event that nothing failed for is over only with every action delivered that was made for
\* it, once and in order: the plugins' first, then the reaction to the event.
DeliversAll ==
  stage = "sending" /\ actions = <<>> /\ ~ faulty => delivered = produced

Reactions == {i \in DOMAIN produced : produced[i][1] # "plugin"}

\* No event gets two reactions; a command, and a message the bot was to answer, get one
\* before anything is sent, unless the model had nothing to say.
ReactsOnce ==
  /\ \A i, j \in Reactions : i = j
  /\ stage = "sending" /\ (IsCommand(event) \/ (Triggered(event) /\ outcome # "silent"))
       => Reactions # {}

\* What an administrator's command says is not executed for anyone else, not even as the
\* arguments of a more general command of the same plugin.
AdminsOnly ==
  stage = "command" /\ ~ Admin(event) =>
    /\ ~ command.admin
    /\ ~ \E c \in Command : /\ c.admin /\ c.plugin = command.plugin
                           /\ IsPrefix(c.words, event.words) /\ Len(c.words) > Len(command.words)

\* A handler is called once for an event, in the order of registration, and only if its
\* plugin was enabled when the event arrived: enabling and disabling plugins meanwhile
\* neither loses nor repeats a call.
HandlersHearOnce ==
  /\ heard \cup handlers \subseteq Handlers(listed, event)
  /\ ~ faulty => heard \cup handlers = Handlers(listed, event)
  /\ \A p \in heard, q \in handlers : p < q

\* Every event is settled, whatever fails.
Settles == stage # "free" ~> stage = "free"

=============================================================================
