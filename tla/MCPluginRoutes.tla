---------------------------- MODULE MCPluginRoutes ----------------------------
(* PluginRoutes on small instances. *)
EXTENDS PluginRoutes

Text(text) == [text |-> text, option |-> "", like |-> FALSE, inline |-> NoInline]
Dashed(text, option, inline) == [text |-> text, option |-> option, like |-> TRUE, inline |-> inline]

\* A name, a negative number, and the ways to write options and flags.
MCWord ==
  {Text("ann"), Text("-7"),
   Dashed("--to", "to", NoInline), Dashed("--to=ann", "to", "ann"), Dashed("--to=", "to", ""),
   Dashed("--dry", "dry", NoInline), Dashed("--dry=no", "dry", "no"), Dashed("--dry=ann", "dry", "ann"),
   Dashed("--tp", "tp", NoInline)}

All == {w.text : w \in MCWord} \cup {w.inline : w \in {v \in MCWord : v.inline # NoInline}} \cup {"true"}
MCReads == "str" :> All @@ "int" :> {"-7"} @@ "bool" :> {"true", "no"}

P(name, markers, base, default) ==
  [name |-> name, markers |-> markers, base |-> base, choices |-> {}, default |-> default]
Choosing(q, choices) == [q EXCEPT !.choices = choices]

Handler(name, parameters) == [name |-> name, parameters |-> parameters]
D(router, kind, name, handler) ==
  [router |-> router, kind |-> kind, name |-> name, aliases |-> <<>>, usage |-> Nil,
   admin |-> FALSE, enabled |-> TRUE, metadata |-> <<>>, handler |-> handler, schema |-> Nil]

\* Three routers: the root, one for admins with a prefix, and a disabled one.
MCConfig ==
  "root" :> [prefix |-> <<>>, admin |-> FALSE, enabled |-> TRUE, metadata |-> "k" :> "root"] @@
  "admin" :> [prefix |-> <<"adm">>, admin |-> TRUE, enabled |-> TRUE, metadata |-> <<>>] @@
  "part" :> [prefix |-> <<"a", "b">>, admin |-> FALSE, enabled |-> FALSE, metadata |-> "k" :> "part"]

\* What is declared on them together with inclusions.
Plain0 == Handler(<<"run">>, <<>>)
Routed ==
  {[D("part", "command", Nil, Plain0) EXCEPT !.aliases = <<<<"r">>, <<>>>>, !.usage = "text"],
   [D("admin", "command", <<"x">>, Plain0) EXCEPT !.aliases = <<<<>>>>, !.usage = "text"],
   [D("root", "command", <<>>, Handler(<<"y">>, <<>>)) EXCEPT !.admin = TRUE],
   [D("admin", "task", <<"t">>, Plain0) EXCEPT !.metadata = "k" :> "own"],
   D("part", "tool", Nil, Plain0),
   [D("part", "event", <<"message">>, Plain0) EXCEPT !.enabled = FALSE],
   D("admin", "middleware", <<"llm">>, Plain0)}

\* Plugins of one handler, for its signature: all signatures of up to three parameters for
\* handlers that are injected, telling ones for commands and tools.
Shape ==
  LET one == {P(n, {}, "none", "none") : n \in {"request", "ctx", "event", "next", "x", "v"}} \cup
             {P("y", {}, "none", "int"), P("z", {}, "llm", "dependency"), P("w", {}, "image", "dependency")}
  IN {s \in BoundedSeq(one, 3) : \A i, j \in DOMAIN s : i # j => s[i].name # s[j].name}

\* Values of each type, and arrays of objects that have what a schema of its own asks for, or
\* have it of another type, or have more.
V(type, parts) == [type |-> type, parts |-> parts]
MCValue ==
  {V(type, <<>>) : type \in {"str", "int", "float", "bool", "null", "object"}}
  \cup {V("array", <<V("object", parts)>>) :
          parts \in {"n" :> V("int", <<>>), "n" :> V("null", <<>>),
                    "n" :> V("int", <<>>) @@ "m" :> V("int", <<>>)}}

Typed(types) == [AnySchema EXCEPT !.types = types]
Own ==
  [Typed({"object"}) EXCEPT
     !.required = {"a"},
     !.properties =
       "a" :> [Typed({"array", "string"}) EXCEPT
                 !.items = [AnySchema EXCEPT !.required = {"n"}, !.open = FALSE,
                                             !.properties = "n" :> Typed({"integer"})]] @@
       "b" :> [AnySchema EXCEPT !.enum = {V("str", <<>>), V("null", <<>>)}]]

Called ==
  {D("root", "command", Nil, Handler(<<"c">>, s)) : s \in
    {<<P("ctx", {}, "none", "none"), P("who", {}, "str", "none"), P("to", {"option"}, "str", "str"),
       P("n", {}, "none", "int"), P("dry", {"flag"}, "bool", "bool")>>,
     <<P("who", {}, "none", "none"), P("z", {}, "llm", "dependency"), P("text", {"rest"}, "str", "none")>>,
     <<P("dry", {"flag"}, "bool", "none"), P("text", {"rest"}, "str", "str"),
       P("to", {"option"}, "int", "none")>>,
     <<Choosing(P("to", {"option"}, "str", "str"), {[value |-> "ann", type |-> "str"]})>>,
     <<P("who", {}, "str", "none"), P("next", {}, "none", "none"), P("request", {}, "none", "none")>>,
     <<P("text", {"rest"}, "str", "none"), P("who", {}, "str", "str")>>,
     <<P("n", {"rest"}, "int", "none")>>,
     <<P("n", {}, "other", "none"), P("w", {}, "image", "dependency")>>}} \cup
  {D("root", "event", <<"unheard">>, Plain0),
   [D("root", "command", Nil, Plain0) EXCEPT !.aliases = <<<<>>, <<"r">>>>]} \cup
  {D("root", kind, <<"llm">>, Handler(<<"h">>, s)) : s \in Shape, kind \in {"event", "middleware"}} \cup
  {D("root", "task", Nil, Handler(<<"h">>, s)) : s \in Shape} \cup
  {D("root", "task", Nil, Handler(<<"h">>, <<P("a", {}, x, "dependency"), P("b", {}, y, "dependency")>>)) :
     x \in {"ctx", "agent", "providers", "list_provider_models", "generate_image", "nothing"},
     y \in {"scheduler", "outbox", "storage", "assets"}} \cup
  {D("root", "tool", Nil, Handler(<<"h">>, s)) : s \in
    {<<P("call", {}, "none", "none"), P("a", {}, "float", "none"), P("b", {}, "str", "str")>>,
     <<P("a", {}, "int", "int"), P("b", {}, "other", "str"), P("runtime", {}, "none", "str")>>,
     <<P("x", {}, "dict", "none"), P("y", {}, "list", "none"), P("call", {}, "ToolCall", "none")>>}} \cup
  {[D("root", "tool", Nil, Handler(<<"h">>, <<P("a", {}, "list", "none"), P("b", {}, "str", "str")>>))
      EXCEPT !.schema = Own]}

MCKnownTypes == {<<"message">>, <<"llm">>}
AllKinds == {"command", "task", "event", "middleware", "tool"}
Written(declares, manifest, capabilities, steps) ==
  [declares |-> declares, manifest |-> manifest, capabilities |-> capabilities, steps |-> steps]

\* A manifest that knows better than the decorators, and one that agrees with none.
Says(kind, name, aliases, enabled) ==
  [kind |-> kind, name |-> name, aliases |-> aliases, usage |-> Nil, admin |-> FALSE,
   enabled |-> enabled, metadata |-> <<>>, handler |-> Nil, schema |-> Nil]
Better ==
  <<Says("command", <<"adm", "x">>, <<<<"adm">>, <<"k">>>>, TRUE), Says("event", <<"message">>, <<>>, TRUE),
    Says("event", <<"message">>, <<>>, FALSE),
    Says("task", <<"adm", "t">>, <<>>, FALSE)>>
Other == <<Says("command", <<"a", "b", "r">>, <<>>, TRUE)>>

MCBundle ==
  {Written(Routed, <<>>, AllKinds, 4),
   Written({d \in Routed : d.router # "root"}, Better, AllKinds \ {"middleware"}, 5),
   Written({d \in Routed : d.kind = "command"}, Other, AllKinds, 3)}
  \cup {Written({d}, <<>>, AllKinds, 1) : d \in Called}

=============================================================================
