----------------------------- MODULE StreamedReply -----------------------------
(***************************************************************************)
(* One reply of a model that arrives as a stream: the chat_stream mappers  *)
(* of the four provider adapters, and _ChatStreamAccumulator, which folds  *)
(* their chunks into the response that a chat without streaming would have *)
(* had, and announces its tool calls to the client.                        *)
(*                                                                         *)
(* The model makes a reply of blocks, texts, thoughts or tool calls; how   *)
(* the wire protocols deliver them is external.  A piece of a text or of   *)
(* arguments is <<b, k>>, the k-th of block b, and the id and the name of  *)
(* a call are abstracted to its block.                                     *)
(***************************************************************************)
EXTENDS Integers, Sequences, SequencesExt, TLC

CONSTANTS
  Dialects,   \* the adapters at work: "anthropic", "responses", "gemini", and OpenAI's for
              \* "openai", for "deepseek" and for models that tag thoughts in their text, "tagged"
  MaxBlocks,  \* bound
  MaxPieces   \* bound: pieces of a block

VARIABLES
  dialect,
  made,       \* what the model has made so far: blocks [kind, pieces, open]
  ending,     \* how the stream ended: "none" as yet, "whole", "cut", "broken", "failed"
  acc,        \* the accumulator
  announced,  \* the TOOL_CALL events
  misplaced   \* history: a call came under an index that is not beyond those before it

vars == <<dialect, made, ending, acc, announced, misplaced>>

Unknown == 0  \* a delta without an id

Pieces(b, n) == [k \in 1 .. n |-> <<b, k>>]
Kinds == {"text", "thought", "call"}
CallsBefore(b) == Cardinality({c \in 1 .. b - 1 : made[c].kind = "call"})
HasCalls == \E b \in DOMAIN made : made[b].kind = "call"

\* What is said in blocks of some kinds, and the calls that are made.
Said(blocks, kinds) ==
  FlattenSeq([b \in DOMAIN blocks |->
    IF blocks[b].kind \in kinds THEN Pieces(b, blocks[b].pieces) ELSE <<>>])
Called(blocks) ==
  FlattenSeq([b \in DOMAIN blocks |->
    IF blocks[b].kind = "call" THEN <<[id |-> b, args |-> Pieces(b, blocks[b].pieces)]>> ELSE <<>>])

-----------------------------------------------------------------------------
(* ChatStreamChunk, and what each adapter makes of an event of its protocol. *)

Nothing == [text |-> <<>>, reasoning |-> <<>>, deltas |-> <<>>, finish |-> "none"]
Text(t) == [Nothing EXCEPT !.text = t]
Reasoning(t) == [Nothing EXCEPT !.reasoning = t]
Delta(index, id, args) == [index |-> index, id |-> id, args |-> args]
Deltas(d) == [Nothing EXCEPT !.deltas = d]

\* Block b begins, grows by a piece or closes, and is m then.  Anthropic numbers the
\* blocks; OpenAI numbers the calls.
AnthropicChunk(event, b, m) ==
  CASE event = "begin" /\ m.kind = "call" -> Deltas(<<Delta(b - 1, b, <<>>)>>)
    [] event = "grow" /\ m.kind = "call" -> Deltas(<<Delta(b - 1, Unknown, <<<<b, m.pieces>>>>)>>)
    [] event = "grow" /\ m.kind = "text" -> Text(<<<<b, m.pieces>>>>)
    [] event = "grow" /\ m.kind = "thought" -> Reasoning(<<<<b, m.pieces>>>>)
    [] OTHER -> Nothing

OpenAIChunk(event, b, m) ==
  LET index == CallsBefore(b)
      tagged == dialect = "tagged" /\ m.kind = "thought" IN
  CASE event = "begin" /\ m.kind = "call" -> Deltas(<<Delta(index, b, <<>>)>>)
    [] event = "grow" /\ m.kind = "call" -> Deltas(<<Delta(index, Unknown, <<<<b, m.pieces>>>>)>>)
    [] event = "grow" /\ (m.kind = "text" \/ tagged) -> Text(<<<<b, m.pieces>>>>)
    [] event = "grow" /\ m.kind = "thought" /\ ~ tagged -> Reasoning(<<<<b, m.pieces>>>>)
    [] OTHER -> Nothing

\* The deltas of arguments are ignored; the item that is done has them all.
ResponsesChunk(event, b, m) ==
  CASE event = "begin" /\ m.kind = "call" -> Deltas(<<Delta(b - 1, b, <<>>)>>)
    [] event = "close" /\ m.kind = "call" -> Deltas(<<Delta(b - 1, b, Pieces(b, m.pieces))>>)
    [] event = "grow" /\ m.kind = "text" -> Text(<<<<b, m.pieces>>>>)
    [] event = "grow" /\ m.kind = "thought" -> Reasoning(<<<<b, m.pieces>>>>)
    [] OTHER -> Nothing

\* A chunk of Gemini holds complete parts, here the blocks after the first n; the index
\* of a call is its place in the chunk.
GeminiChunk(n, parts) ==
  LET Told(kind) == FlattenSeq([i \in DOMAIN parts |->
                      IF parts[i].kind = kind THEN Pieces(n + i, parts[i].pieces) ELSE <<>>])
  IN  [Nothing EXCEPT
        !.text = Told("text"),
        !.reasoning = Told("thought"),
        !.deltas = FlattenSeq([i \in DOMAIN parts |->
                     IF parts[i].kind # "call" THEN <<>>
                     ELSE <<Delta(i - 1, n + i, Pieces(n + i, parts[i].pieces))>>])]

ChunkOf(event, b, m) ==
  CASE dialect = "anthropic" -> AnthropicChunk(event, b, m)
    [] dialect = "responses" -> ResponsesChunk(event, b, m)
    [] OTHER -> OpenAIChunk(event, b, m)

\* map_finish_reason: what the protocol says, but Responses looks at the output first,
\* and Gemini at the calls of the last chunk.
FinishOf(how, chunk) ==
  LET told == IF how = "cut" THEN "length" ELSE "stop" IN
  CASE dialect = "responses" -> IF HasCalls THEN "tool_calls" ELSE told
    [] dialect = "gemini" -> IF chunk.deltas # <<>> THEN "tool_calls" ELSE told
    [] OTHER -> IF how = "whole" /\ HasCalls THEN "tool_calls" ELSE told

-----------------------------------------------------------------------------
(* _ChatStreamAccumulator *)

Fresh == [text |-> <<>>, reasoning |-> <<>>, buffers |-> <<>>, finish |-> "none", told |-> FALSE]

Put(buffers, d) ==
  LET old == IF d.index \in DOMAIN buffers THEN buffers[d.index] ELSE [id |-> Unknown, args |-> <<>>]
      new == [id |-> IF d.id = Unknown THEN old.id ELSE d.id, args |-> old.args \o d.args]
  IN  [i \in DOMAIN buffers \cup {d.index} |-> IF i = d.index THEN new ELSE buffers[i]]

PutAll(buffers, deltas) ==
  LET put[n \in 0 .. Len(deltas)] == IF n = 0 THEN buffers ELSE Put(put[n - 1], deltas[n])
  IN  put[Len(deltas)]

BuildToolCalls(buffers) ==
  LET known == {i \in DOMAIN buffers : buffers[i].id # Unknown}
      order == CHOOSE o \in [1 .. Cardinality(known) -> known] :
                 \A i, j \in DOMAIN o : i < j => o[i] < o[j]
  IN  [i \in DOMAIN order |-> buffers[order[i]]]

\* Faulty: announces before the deltas of the chunk are taken in.
ConsumeAnnouncingFirst(c) ==
  LET buffers == PutAll(acc.buffers, c.deltas)
      finish == IF c.finish = "none" THEN acc.finish ELSE c.finish
      announce == finish = "tool_calls" /\ DOMAIN buffers # {} /\ ~ acc.told
  IN  /\ acc' = [text |-> acc.text \o c.text, reasoning |-> acc.reasoning \o c.reasoning,
                 buffers |-> buffers, finish |-> finish, told |-> acc.told \/ announce]
      /\ announced' = IF announce THEN Append(announced, BuildToolCalls(acc.buffers)) ELSE announced

Consume(c) ==
  LET buffers == PutAll(acc.buffers, c.deltas)
      finish == IF c.finish = "none" THEN acc.finish ELSE c.finish
      announce == finish = "tool_calls" /\ DOMAIN buffers # {} /\ ~ acc.told
  IN  /\ acc' = [text |-> acc.text \o c.text, reasoning |-> acc.reasoning \o c.reasoning,
                 buffers |-> buffers, finish |-> finish, told |-> acc.told \/ announce]
      /\ announced' = IF announce THEN Append(announced, BuildToolCalls(buffers)) ELSE announced

\* finalize
ToolCalls == BuildToolCalls(acc.buffers)

-----------------------------------------------------------------------------
(* The stream. *)

Init ==
  /\ dialect \in Dialects
  /\ made = <<>> /\ ending = "none"
  /\ acc = Fresh
  /\ announced = <<>> /\ misplaced = FALSE

Streaming == ending = "none" /\ UNCHANGED dialect
Closed == \A b \in DOMAIN made : ~ made[b].open

Begin(kind) ==
  /\ Streaming /\ Closed
  /\ dialect # "gemini" /\ Len(made) < MaxBlocks
  /\ made' = Append(made, [kind |-> kind, pieces |-> 0, open |-> TRUE])
  /\ Consume(ChunkOf("begin", Len(made'), Last(made')))
  /\ UNCHANGED <<ending, misplaced>>

Grow ==
  /\ Streaming /\ ~ Closed
  /\ Last(made).pieces < MaxPieces
  /\ made' = [made EXCEPT ![Len(made)].pieces = @ + 1]
  /\ Consume(ChunkOf("grow", Len(made), Last(made')))
  /\ UNCHANGED <<ending, misplaced>>

Close ==
  /\ Streaming /\ ~ Closed
  /\ made' = [made EXCEPT ![Len(made)].open = FALSE]
  /\ Consume(ChunkOf("close", Len(made), Last(made')))
  /\ UNCHANGED <<ending, misplaced>>

\* A chunk of Gemini with some parts, the last chunk perhaps.
Parts(parts, how) ==
  LET chunk == GeminiChunk(Len(made), parts)
      finish == IF how = "none" THEN "none" ELSE FinishOf(how, chunk)
  IN  /\ Streaming /\ dialect = "gemini"
      /\ Len(made) + Len(parts) <= MaxBlocks
      /\ made' = made \o parts
      /\ Consume([chunk EXCEPT !.finish = finish])
      /\ misplaced' = (misplaced \/ \E d \in Range(chunk.deltas), i \in DOMAIN acc.buffers :
                          d.index <= i)
      /\ ending' = how

\* The event that carries the finish reason; a block is left open when the reply was cut.
Finish(how) ==
  /\ Streaming
  /\ how = "whole" => Closed
  /\ Consume([Nothing EXCEPT !.finish = FinishOf(how, Nothing)])
  /\ ending' = how
  /\ UNCHANGED <<made, misplaced>>

\* The stream ends without a finish reason, or with an exception, which ends the chat.
Break(how) ==
  /\ Streaming
  /\ ending' = how
  /\ UNCHANGED <<made, acc, announced, misplaced>>

Part == [kind : Kinds, pieces : 0 .. 1, open : {FALSE}]

Next ==
  \/ \E kind \in Kinds : Begin(kind)
  \/ Grow
  \/ Close
  \/ \E n \in 1 .. 2 : \E parts \in [1 .. n -> Part], how \in {"none", "whole", "cut"} :
       Parts(parts, how)
  \/ \E how \in {"whole", "cut"} : Finish(how)
  \/ \E how \in {"broken", "failed"} : Break(how)

Spec == Init /\ [][Next]_vars

-----------------------------------------------------------------------------
(* What the fold promises. *)

\* The text folded so far is the text the model has made, without its thoughts, which are
\* kept apart unless it wrote them into the text, and the calls folded are the calls it has
\* made, in its order, each under its own id and with its own arguments: all of them for a
\* call that is complete, the first ones for a call that is being made or was cut off.
\* Only calls that came under indices out of order are excepted.
FoldKeepsUp ==
  /\ acc.text = IF dialect = "tagged" THEN Said(made, {"text", "thought"}) ELSE Said(made, {"text"})
  /\ acc.reasoning = IF dialect = "tagged" THEN <<>> ELSE Said(made, {"thought"})
  /\ ~ misplaced =>
       LET called == Called(made) IN
       /\ Len(ToolCalls) = Len(called)
       /\ \A i \in DOMAIN called :
            /\ ToolCalls[i].id = called[i].id
            /\ IsPrefix(ToolCalls[i].args, called[i].args)
            /\ ~ made[called[i].id].open => ToolCalls[i].args = called[i].args

\* The calls that will be run have been announced to the client once, and exactly those,
\* when the reply is whole; a reply of Gemini has to end in the chunk of a call for that.
AnnouncedOnce ==
  /\ ending \in {"whole", "cut", "broken"}
  /\ ToolCalls # <<>>
  /\ acc.finish = "tool_calls" \/ (ending = "whole" /\ dialect # "gemini")
  => announced = <<ToolCalls>>

\* What the client is told of a reply, and what is folded from it, is what the model said.
StreamIsFaithful == FoldKeepsUp /\ AnnouncedOnce

\* The response folded from a whole reply is the response without streaming.
EqualsWhole ==
  ending = "whole" => acc.text = Said(made, {"text"}) /\ ToolCalls = Called(made)

=============================================================================
