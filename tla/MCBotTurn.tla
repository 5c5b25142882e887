------------------------------- MODULE MCBotTurn -------------------------------
(* Instances of BotTurn for model checking. *)
EXTENDS BotTurn

\* look is harmless; shell wants a sandbox and a permission.
MCProfile ==
  "look" :> [risk |-> 1, sandbox |-> FALSE, permissions |-> {}] @@
  "shell" :> [risk |-> 4, sandbox |-> TRUE, permissions |-> {"process"}]

MCSkillOf ==
  1 :> [enabled |-> TRUE, priority |-> 2, tools |-> {"look"}] @@
  2 :> [enabled |-> TRUE, priority |-> 0, tools |-> {"look", "shell"}]

MCBuiltin == {Tool, {"shell"}}
MCCall == [tool : Tool, valid : {TRUE}] \cup [tool : {"look"}, valid : {FALSE}]

Open == [allowed |-> Tool, denied |-> {}, permissions |-> Permission, maxRisk |-> 4, bypass |-> FALSE]

\* The skill that allows shell is required, and has to displace the other one.
Plain ==
  [mode |-> "chat", rounds |-> 1, names |-> Tool, policy |-> Open, required |-> {2},
   triggers |-> [s \in Skill |-> 1], maxSkills |-> 1, rag |-> FALSE,
   system |-> FALSE]

\* A plugin asks for no skill, and has instructions of its own.
OfPlugin == [Plain EXCEPT !.required = {}, !.system = TRUE]

MCRequest ==
  {Plain, OfPlugin,
   [Plain EXCEPT !.mode = "stream", !.policy.permissions = {}, !.rag = TRUE],
   [Plain EXCEPT !.mode = "fallback", !.names = {"look"}, !.policy.allowed = {"shell"}, !.required = {}]}

\* Commands have the second plugin.
MCSubscribed == 1 :> {"message", "member_joined", "command"} @@ 2 :> {"member_joined", "command"}
MCCommand ==
  {[words |-> <<"task">>, plugin |-> 2, admin |-> FALSE],
   [words |-> <<"task", "drop">>, plugin |-> 2, admin |-> TRUE]}

Text ==
  [type |-> "message", slash |-> FALSE, words |-> <<>>, content |-> TRUE,
   user |-> "nobody", flagged |-> FALSE, mode |-> "always", direct |-> FALSE, chat |-> "group",
   mentioned |-> FALSE, names |-> {"bot"}, mentions |-> {"bot"}, says |-> {"hello"}, keywords |-> {"help"}]
Drop == [Text EXCEPT !.slash = TRUE, !.words = <<"task", "drop">>, !.user = "ann"]

MCEvent ==
  {[Text EXCEPT !.mode = "mention"],
   [Text EXCEPT !.mode = "keyword"],
   [Text EXCEPT !.mode = "direct", !.chat = "private", !.content = FALSE],
   [Text EXCEPT !.type = "member_joined"],
   [Text EXCEPT !.type = "command", !.slash = TRUE],
   [Text EXCEPT !.slash = TRUE, !.words = <<"task", "list">>],
   Drop,
   [Drop EXCEPT !.user = "root"],
   [Drop EXCEPT !.words = <<"stop">>]}

=============================================================================
