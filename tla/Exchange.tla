-------------------------------- MODULE Exchange --------------------------------
(***************************************************************************)
(* Chats of one session with its providers: the messages of a chat as the  *)
(* mappers of the four adapters put them on the wire, the reply that comes *)
(* back as a stream (StreamedReply) or whole, and what of it the next      *)
(* request holds.  A session may change its provider between chats, so an  *)
(* adapter sends what others have received.                                *)
(*                                                                         *)
(* A text is a sequence of pieces, an image is one piece; what joins texts *)
(* is left out.  A tool's message answers a call by the id of it, where    *)
(* Gemini's goes by its name.  The last request also offers tools and may  *)
(* oblige the model to call them.  Left out are the parameters that are    *)
(* passed on as they are, the descriptions of tools, and usage.            *)
(***************************************************************************)
EXTENDS StreamedReply

CONSTANTS
  Openings,  \* bound: the windows a session may have
  MaxAsks,   \* bound: requests to providers; nothing is replied to the last one
  Tools,     \* bound: the tools that the last request may offer
  Names      \* bound: the tools that a caller may want called

VARIABLES
  window,  \* the messages of the session
  thread,  \* request.messages of the chat
  asks,
  at,      \* "ready" to ask or "replying"
  wire,    \* the messages of the payload
  offered, \* request.tools
  wanted,  \* the tool_choice of the caller
  options  \* the tools and the choice of the payload

chatVars == <<window, thread, asks, at, wire, offered, wanted, options>>

OpenAI == {"openai", "deepseek", "tagged"}

ASSUME BoundsAssumption == MaxBlocks \in Nat
ASSUME DialectsAssumption == Dialects \subseteq {"anthropic", "responses", "gemini"} \cup OpenAI

-----------------------------------------------------------------------------
(* Messages and what goes over the wire; an image of nothing has no source. *)

TextPart(t) == [type |-> "text", of |-> t]
ImagePart(i) == [type |-> "image", of |-> i]
Message(role, parts) ==
  [role |-> role, parts |-> parts, calls |-> <<>>, answers |-> <<>>, reasoning |-> <<>>]

Item(type, of) == [type |-> type, of |-> of]
Envelope(role, items) == [role |-> role, items |-> items]

\* Those of s that pass, as a list of lists.
Where(s, Passes(_)) == FlattenSeq([i \in DOMAIN s |-> IF Passes(s[i]) THEN <<s[i]>> ELSE <<>>])

Full(parts) == Where(parts, LAMBDA p : p.of # <<>>)
TextsOf(parts) ==
  FlattenSeq([i \in DOMAIN parts |-> IF parts[i].type = "text" THEN parts[i].of ELSE <<>>])

\* map_content_parts and map_text_content_blocks: the texts, joined
Joined(parts) == IF TextsOf(parts) = <<>> THEN <<>> ELSE <<Item("text", TextsOf(parts))>>

\* map_message_content and its like: joined unless there is an image
Blocks(parts) ==
  IF \E i \in DOMAIN parts : parts[i].type = "image" /\ parts[i].of # <<>>
  THEN [i \in DOMAIN Full(parts) |-> Item(Full(parts)[i].type, Full(parts)[i].of)]
  ELSE Joined(parts)

Uses(m) == [i \in DOMAIN m.calls |-> Item("call", <<m.calls[i]>>)]
Result(m) == <<Item("result", m.answers \o TextsOf(m.parts))>>

-----------------------------------------------------------------------------
(* The messages there are. *)

Spoken == Seq(Nat \X Nat \X Nat)
Messages ==
  [role : {"system", "user", "assistant", "tool"},
   parts : Seq([type : {"text", "image"}, of : Spoken]),
   calls : Seq(Nat \X Nat), answers : Seq(Nat \X Nat), reasoning : Spoken]

\* Only replies make calls.  They are made by the mappers, and have no images.
WellFormed(m) ==
  m.calls # <<>> =>
    /\ m.role = "assistant"
    /\ \A i \in DOMAIN m.parts : m.parts[i].type = "image" => m.parts[i].of = <<>>

ASSUME OpeningsAssumption ==
  \A messages \in Openings :
    messages \in Seq(Messages) /\ \A i \in DOMAIN messages : WellFormed(messages[i])

-----------------------------------------------------------------------------
(* What each adapter sends. *)

AnthropicMessage(m) ==
  CASE m.role = "tool" -> Envelope("user", Result(m))
    [] m.role = "assistant" /\ m.calls # <<>> -> Envelope("assistant", Joined(m.parts) \o Uses(m))
    [] OTHER -> Envelope(m.role, Blocks(m.parts))

\* map_anthropic_request: the texts of system messages are a parameter of their own.
AnthropicWire(messages) ==
  LET IsSystem(m) == m.role = "system"
      system == FlattenSeq([i \in DOMAIN Where(messages, IsSystem) |->
                              TextsOf(Where(messages, IsSystem)[i].parts)])
      others == Where(messages, LAMBDA m : ~ IsSystem(m))
  IN  (IF system = <<>> THEN <<>> ELSE <<Envelope("system", <<Item("text", system)>>)>>)
        \o [i \in DOMAIN others |-> AnthropicMessage(others[i])]

\* An assistant's message with nothing in it is dropped; DeepSeek gets its thoughts back.
OpenAIMessage(m, thoughtful) ==
  LET thoughts == IF thoughtful /\ m.reasoning # <<>> THEN <<Item("thought", m.reasoning)>> ELSE <<>>
      items == thoughts \o (IF m.role = "tool" THEN Result(m) ELSE Blocks(m.parts)) \o Uses(m)
  IN  IF m.role = "assistant" /\ items = <<>> THEN <<>> ELSE <<Envelope(m.role, items)>>

OpenAIWire(messages, thoughtful) ==
  FlattenSeq([i \in DOMAIN messages |-> OpenAIMessage(messages[i], thoughtful)])

\* map_input_message; each call is an item of its own.
ResponsesItems(m) ==
  LET content == Blocks(m.parts)
      calls == IF m.role = "assistant" THEN Uses(m) ELSE <<>>
  IN  IF m.role = "tool" THEN <<Envelope("tool", Result(m))>>
      ELSE (IF content = <<>> /\ calls # <<>> THEN <<>> ELSE <<Envelope(m.role, content)>>)
             \o [i \in DOMAIN calls |-> Envelope("assistant", <<calls[i]>>)]

\* Faulty: calls are sent although nothing answers them.
ResponsesWireAsIs(messages) ==
  FlattenSeq([i \in DOMAIN messages |-> ResponsesItems(messages[i])])

\* drop_unanswered_function_calls
ResponsesWire(messages) ==
  LET items == FlattenSeq([i \in DOMAIN messages |-> ResponsesItems(messages[i])])
      answered == UNION {Range(messages[i].answers) : i \in DOMAIN messages}
      IsCall(e) == e.items # <<>> /\ e.items[1].type = "call"
  IN  Where(items, LAMBDA e : IsCall(e) => e.items[1].of[1] \in answered)

\* Gemini is told of no system: its messages are the user's.
GeminiContent(m) ==
  CASE m.role = "tool" -> Envelope("user", Result(m))
    [] m.role = "assistant" /\ m.calls # <<>> -> Envelope("assistant", Joined(m.parts) \o Uses(m))
    [] OTHER -> Envelope(IF m.role = "assistant" THEN m.role ELSE "user", Blocks(m.parts))

GeminiWire(messages) == [i \in DOMAIN messages |-> GeminiContent(messages[i])]

WireOf(d, messages) ==
  CASE d = "anthropic" -> AnthropicWire(messages)
    [] d = "responses" -> ResponsesWire(messages)
    [] d = "gemini" -> GeminiWire(messages)
    [] d \in OpenAI -> OpenAIWire(messages, d = "deepseek")

-----------------------------------------------------------------------------
(* The tools a request offers, and what of them it leaves to the model. *)

Choice(mode, name) == [mode |-> mode, name |-> name]
Nameless == "-"
NoChoice == Choice("absent", Nameless)

ASSUME ToolsAssumption == Nameless \notin Tools

ToolChoices ==
  {NoChoice} \cup {Choice(mode, Nameless) : mode \in {"auto", "none", "required"}}
    \cup {Choice("tool", name) : name \in Names \cup {Nameless}}

\* _filter_tool_choice
Filtered(choice, tools) ==
  IF tools = {} \/ (choice.mode = "tool" /\ choice.name \notin tools) THEN NoChoice ELSE choice

Options(tools, mode, names) == [tools |-> tools, mode |-> mode, names |-> names]

\* map_tools and map_tool_choice; a tool without a name is no choice.
OpenAIOptions(tools, choice) ==
  IF choice.mode # "tool" THEN Options(tools, choice.mode, {})
  ELSE IF choice.name = Nameless THEN Options(tools, "absent", {})
  ELSE Options(tools, "function", {choice.name})

\* The Responses API has mappers of its own, which do the same.
ResponsesOptions(tools, choice) == OpenAIOptions(tools, choice)

\* What others require is any for Anthropic.
AnthropicOptions(tools, choice) ==
  CASE choice.mode \in {"absent", "auto", "none"} -> Options(tools, choice.mode, {})
    [] choice.mode = "required" -> Options(tools, "any", {})
    [] choice.mode = "tool" ->
         IF choice.name = Nameless THEN Options(tools, "absent", {})
         ELSE Options(tools, "tool", {choice.name})

\* map_tool_config: ANY may be narrowed to a tool; without a name it is not.
GeminiOptions(tools, choice) ==
  CASE choice.mode = "absent" -> Options(tools, "absent", {})
    [] choice.mode = "auto" -> Options(tools, "AUTO", {})
    [] choice.mode = "none" -> Options(tools, "NONE", {})
    [] choice.mode \in {"required", "tool"} -> Options(tools, "ANY", {choice.name} \ {Nameless})

OptionsOf(d, tools, choice) ==
  CASE d = "anthropic" -> AnthropicOptions(tools, choice)
    [] d = "responses" -> ResponsesOptions(tools, choice)
    [] d = "gemini" -> GeminiOptions(tools, choice)
    [] d \in OpenAI -> OpenAIOptions(tools, choice)

-----------------------------------------------------------------------------
(* What comes back; its pieces and calls are those of the request. *)

Mine(t) == [i \in DOMAIN t |-> <<asks>> \o t[i]]

Reply(text, reasoning, calls) ==
  [role |-> "assistant", answers |-> <<>>, reasoning |-> Mine(reasoning),
   parts |-> IF text = <<>> THEN <<>> ELSE <<TextPart(Mine(text))>>,
   calls |-> [i \in DOMAIN calls |-> <<asks, calls[i].id>>]]

\* finalize
StreamedMessage == <<Reply(acc.text, acc.reasoning, ToolCalls)>>

\* map_chat_response and its like.  Gemini's does not tell thoughts from the text, OpenAI's
\* takes them out and keeps them, the others drop them; OpenAI's returns a message always.
WholeMessage(blocks) ==
  LET text == Said(blocks, IF dialect = "gemini" THEN {"text", "thought"} ELSE {"text"}) IN
  IF dialect \in OpenAI THEN <<Reply(text, Said(blocks, {"thought"}), Called(blocks))>>
  ELSE IF text = <<>> /\ Called(blocks) = <<>> THEN <<>>
  ELSE <<Reply(text, <<>>, Called(blocks))>>

-----------------------------------------------------------------------------
(* The chats.  A chat keeps to the adapter it began with. *)

Question == Message("user", <<TextPart(<<<<asks, 0, 0>>>>)>>)

ExchangeInit ==
  /\ Init
  /\ window \in Openings /\ thread = window
  /\ asks = 0 /\ at = "ready" /\ wire = <<>>
  /\ offered = {} /\ wanted = NoChoice /\ options = Options({}, "absent", {})

Ask ==
  /\ at = "ready" /\ asks < MaxAsks
  /\ dialect' \in IF thread = window THEN Dialects ELSE {dialect}
  /\ wire' = WireOf(dialect', thread)
  /\ IF asks + 1 = MaxAsks THEN offered' \in SUBSET Tools /\ wanted' \in ToolChoices
                           ELSE UNCHANGED <<offered, wanted>>
  /\ options' = OptionsOf(dialect', offered', Filtered(wanted', offered'))
  /\ at' = "replying" /\ asks' = asks + 1
  /\ made' = <<>> /\ ending' = "none" /\ acc' = Fresh /\ announced' = <<>> /\ misplaced' = FALSE
  /\ UNCHANGED <<window, thread>>

Replying == at = "replying" /\ asks < MaxAsks

StreamStep == Replying /\ Next /\ UNCHANGED chatVars

\* A stream that failed ends its chat, and the next one begins where it did.
GiveUp ==
  /\ Replying /\ ending = "failed"
  /\ thread' = window /\ at' = "ready"
  /\ UNCHANGED <<vars, window, asks, wire, offered, wanted, options>>

\* The tools answer the calls of the reply, and the provider is asked again.
Feedback(reply) ==
  /\ reply # <<>> /\ reply[1].calls # <<>>
  /\ thread' = thread \o reply \o
       [i \in DOMAIN reply[1].calls |->
          [Message("tool", <<TextPart(<<<<asks, i, 0>>>>)>>) EXCEPT !.answers = <<reply[1].calls[i]>>]]
  /\ UNCHANGED window

\* The chat ends; a message that makes calls, at the limit of rounds, is not kept.
Conclude(reply) ==
  LET answer == Where(reply, LAMBDA m : m.calls = <<>>)
  IN  /\ window' = window \o answer \o <<Question>>
      /\ thread' = window'

Take(reply) ==
  /\ at' = "ready"
  /\ UNCHANGED <<asks, wire, offered, wanted, options>>
  /\ Feedback(reply) \/ Conclude(reply)

TakeStream ==
  /\ Replying /\ ending \in {"whole", "cut", "broken"}
  /\ Take(StreamedMessage)
  /\ UNCHANGED vars

TakeWhole ==
  /\ Replying /\ ending = "none" /\ made = <<>> /\ acc = Fresh
  /\ \E blocks \in BoundedSeq(Part, MaxBlocks) : Take(WholeMessage(blocks))
  /\ UNCHANGED vars

ExchangeNext == Ask \/ StreamStep \/ GiveUp \/ TakeStream \/ TakeWhole

ExchangeSpec == ExchangeInit /\ [][ExchangeNext]_<<vars, chatVars>>

-----------------------------------------------------------------------------
(* What a request is to say. *)

\* Who speaks in a message of a role.
Speaker(role) == IF role = "assistant" THEN "model" ELSE "caller"

\* All that items say, piece by piece.
Utterances(role, items) ==
  FlattenSeq([i \in DOMAIN items |->
    [k \in DOMAIN items[i].of |-> <<Speaker(role), items[i].type, items[i].of[k]>>]])

OnTheWire == FlattenSeq([i \in DOMAIN wire |-> Utterances(wire[i].role, wire[i].items)])

Answered == UNION {Range(thread[i].answers) : i \in DOMAIN thread}

\* A tool is quoted, and Anthropic knows no images of the system.
Content(d, m) ==
  CASE m.role = "tool" -> Result(m)
    [] m.role = "system" /\ d = "anthropic" -> <<Item("text", TextsOf(m.parts))>>
    [] OTHER -> m.parts

\* The thoughts are for DeepSeek, and a call without an answer is not for Responses.
Meant(m) ==
  LET calls == Where(m.calls, LAMBDA c : dialect # "responses" \/ c \in Answered)
  IN  (IF dialect = "deepseek" THEN Utterances(m.role, <<Item("thought", m.reasoning)>>) ELSE <<>>)
      \o Utterances(m.role, Content(dialect, m))
      \o Utterances(m.role, <<Item("call", calls)>>)

Silent(m) == m.calls = <<>> /\ \A i \in DOMAIN m.parts : m.parts[i].of = <<>>

\* What the words of the four protocols oblige a model to: a tool, none, or nothing.
Obliges(mode) == mode \in {"required", "any", "ANY", "function", "tool"}
Forbids(mode) == mode \in {"none", "NONE"}

\* The model is obliged to call a tool if the caller wants that and the tool is offered, to
\* call that tool if it is one, and none if it is forbidden; no payload obliges it to what
\* it does not offer, which providers refuse.
ChoiceIsHeld ==
  LET named == {wanted.name} \cap offered
  IN  /\ options.tools = offered
      /\ options.names = IF wanted.mode = "tool" THEN named ELSE {}
      /\ Obliges(options.mode) <=>
           \/ wanted.mode = "required" /\ offered # {}
           \/ wanted.mode = "tool" /\ named # {}
      /\ Forbids(options.mode) <=> (wanted.mode = "none" /\ offered # {})

\* A request says what the messages of its chat say, in their order and by the same
\* speaker, whichever adapters their parts came from; only Anthropic's has what the system
\* says first, and its texts alone.  A message with nothing in it is sent only for one that has nothing in it,
\* and OpenAI is sent none for an assistant.  What a request says of tools is what the
\* caller wants of those it offers.
SentAsMeant ==
  at = "replying" =>
    LET IsSystem(m) == m.role = "system"
        ordered == IF dialect # "anthropic" THEN thread
                   ELSE Where(thread, IsSystem) \o Where(thread, LAMBDA m : ~ IsSystem(m))
    IN  /\ OnTheWire = FlattenSeq([i \in DOMAIN ordered |-> Meant(ordered[i])])
        /\ (\E i \in DOMAIN wire : wire[i].items = <<>>) =>
             \E i \in DOMAIN thread :
               Silent(thread[i]) /\ (dialect \in OpenAI => thread[i].role # "assistant")
        /\ ChoiceIsHeld

=============================================================================
