------------------------------ MODULE PluginRoutes ------------------------------
(***************************************************************************)
(* What a plugin written with CyreneBot and CyreneRouter puts before the   *)
(* host, and how its handlers are called.  Decorators add routes to        *)
(* routers; include_router copies the routes a router has at that time to  *)
(* another one; setup registers the routes of the root.  A registered      *)
(* command is called with words (CommandArguments); the handlers of tasks, *)
(* events, middlewares and tools get what their parameters ask for.        *)
(*                                                                         *)
(* The host joins them with the definitions of the manifest.               *)
(*                                                                         *)
(* Names of commands, tasks and tools are paths: sequences of words, which *)
(* the code joins by blanks or, for tools, by underscores.                 *)
(***************************************************************************)
EXTENDS CommandArguments, TLC

CONSTANTS
  Router, Root,
  Config,       \* Config[r]: the prefix, admin, enabled and metadata of a router
  Bundle,       \* plugins: the decorators in them, each on a router, the capabilities and the
                \*   definitions of their manifests, and a bound on the steps
  Granted,      \* the plugin's permissions
  Service,      \* what the runtime was configured with, of storage, assets, tasks and messages
  Value,        \* the values in the arguments of a tool call
  KnownTypes,   \* of events and middlewares
  Nil

Kinds == <<"command", "task", "event", "middleware", "tool">>  \* in the order of setup

IsPath(p) == p \in Seq(Range(p))

ASSUME RoutesAssumption ==
  /\ Root \in Router
  /\ \A r \in Router :
       /\ IsPath(Config[r].prefix)
       /\ Config[r].admin \in BOOLEAN /\ Config[r].enabled \in BOOLEAN
  /\ \A x \in Bundle :
       /\ x.steps \in Nat /\ x.capabilities \subseteq Range(Kinds)
       /\ x.manifest \in Seq(Range(x.manifest)) /\ Nil \notin x.declares
  /\ \A x \in Bundle : \A d \in x.declares :
       /\ d.router \in Router /\ d.kind \in Range(Kinds)
       /\ IsPath(d.handler.name) /\ (d.name # Nil => IsPath(d.name))
       /\ d.aliases \in Seq(Range(d.aliases)) /\ \A a \in Range(d.aliases) : IsPath(a)
       /\ d.admin \in BOOLEAN /\ d.enabled \in BOOLEAN
       /\ d.handler.parameters \in Seq(Range(d.handler.parameters))
       /\ \A i, j \in DOMAIN d.handler.parameters :
            d.handler.parameters[i].name = d.handler.parameters[j].name => i = j

VARIABLES
  plugin,
  stage,       \* "building", "mounting", "mounted", "failed"
  routes,      \* routes[r][k]: the routes of kind k of router r
  registered,  \* what the host has been given, in order
  called,      \* the call that is followed: its route, what the handler gets, and how it ends
  history      \* history: the decorators and inclusions, in order

routeVars == <<plugin, stage, routes, registered, called, history>>

-----------------------------------------------------------------------------
(* What a signature says about arguments.  A declared parameter has a name, *)
(* the markers of its annotation, the type that it annotates, choices with *)
(* their types, and the type of its default.                               *)

Primitive == {"str", "int", "float", "bool"}
Injected == {"request", "ctx", "context"}

ChoiceType(choices) ==
  LET types == {c.type : c \in choices} IN
  IF Cardinality(types) = 1 /\ types \subseteq Primitive THEN CHOOSE t \in types : TRUE ELSE "str"

Marked(q) == q.markers # {} \/ q.choices # {}

\* _annotation_metadata: the type that markers give, of which choices have the last word
MarkedType(q) ==
  IF q.choices # {} THEN ChoiceType(q.choices)
  ELSE IF "flag" \in q.markers THEN "bool" ELSE q.base

Invalid(q) ==
  /\ Marked(q)
  /\ \/ "rest" \in q.markers /\ MarkedType(q) # "str"
     \/ "flag" \in q.markers /\ MarkedType(q) # "bool"

ArgumentType(q) ==
  IF Marked(q) THEN MarkedType(q)
  ELSE IF q.base \in Primitive THEN q.base
  ELSE IF q.default \in Primitive THEN q.default ELSE "str"

ArgumentKind(q) ==
  IF "rest" \in q.markers THEN "rest"
  ELSE IF "option" \in q.markers THEN "option"
  ELSE IF "flag" \in q.markers THEN "flag" ELSE "positional"

\* What the name of a dependency stands for
Dependency(name) ==
  CASE name \in {"ctx", "context", "runtime"} -> "context"
    [] name \in {"image", "generate_image"} -> "image"
    [] name \in {"providers", "list_providers"} -> "providers"
    [] name \in {"provider_models", "list_provider_models"} -> "provider_models"
    [] name \in {"task", "tasks", "scheduler"} -> "tasks"
    [] name \in {"message", "messages", "outbox"} -> "messages"
    [] name \in {"llm", "agent", "storage", "assets"} -> name
    [] OTHER -> Nil

\* require_permission, for what the runtime context hands out
Permitted(dependency) ==
  \/ dependency = "context"
  \/ dependency \in {"llm", "agent"} /\ "llm" \in Granted
  \/ dependency \in {"providers", "provider_models"} /\ "provider_read" \in Granted
  \/ dependency = "tasks" /\ "task" \in Granted
  \/ dependency = "messages" /\ "message_send" \in Granted
  \/ dependency \in {"image", "storage", "assets"} /\ dependency \in Granted

\* _resolve_dependency returns.
Resolves(name) ==
  /\ Permitted(Dependency(name))
  /\ Dependency(name) \in {"storage", "assets", "tasks", "messages"} => Dependency(name) \in Service

IsArgument(q) == q.name \notin Injected /\ q.default # "dependency"

\* _command_arguments_metadata accepts the signature.
Declarable(parameters) ==
  /\ \A i \in DOMAIN parameters : IsArgument(parameters[i]) => ~ Invalid(parameters[i])
  /\ \A i, j \in DOMAIN parameters :
       i < j /\ IsArgument(parameters[i]) /\ IsArgument(parameters[j])
         /\ ArgumentKind(parameters[i]) = "rest"
       => ArgumentKind(parameters[j]) \in {"option", "flag"}

\* The parameters as CommandArguments has them, by the order of _resolve_handler_parameter.
AsParameter(q) ==
  LET whole(kind, what) ==
        [name |-> q.name, kind |-> kind, type |-> ArgumentType(q), what |-> what,
         required |-> q.default = "none", choices |-> {c.value : c \in q.choices}]
  IN IF q.default = "dependency" THEN whole("injected", Dependency(q.base))
     ELSE IF q.name = "request" THEN whole("injected", "request")
     ELSE IF q.name \in {"ctx", "context"} THEN whole("injected", "context")
     ELSE IF q.name \in {"next", "call_next"} THEN whole("next", Nil)
     ELSE whole(ArgumentKind(q), Nil)

AsSignature(parameters) == [i \in DOMAIN parameters |-> AsParameter(parameters[i])]

-----------------------------------------------------------------------------
(* What a schema says about the arguments of a tool call.  A value has a    *)
(* type and, if it is an object or an array, its parts.                     *)

\* The parameters that no schema asks for
FromContext(q) ==
  q.name \in {"call", "tool_call", "ctx", "context", "runtime"} \/ q.base = "ToolCall"

AnySchema == [types |-> {}, enum |-> Nil, properties |-> Nil, required |-> {}, open |-> TRUE, items |-> Nil]

\* _json_schema_for_annotation
SchemaType(base) ==
  CASE base = "int" -> "integer"
    [] base = "float" -> "number"
    [] base = "bool" -> "boolean"
    [] base = "dict" -> "object"
    [] base = "list" -> "array"
    [] OTHER -> "string"

\* _parameters_schema_from_handler
SchemaOf(parameters) ==
  LET asked == {parameters[i] : i \in {j \in DOMAIN parameters : ~ FromContext(parameters[j])}}
      of(n) == CHOOSE q \in asked : q.name = n
  IN [AnySchema EXCEPT
        !.types = {"object"}, !.open = FALSE,
        !.properties = [n \in {q.name : q \in asked} |-> [AnySchema EXCEPT !.types = {SchemaType(of(n).base)}]],
        !.required = {q.name : q \in {x \in asked : x.default = "none"}}]

\* _matches_type
Matches(value, type) ==
  \/ type = "string" /\ value.type = "str"
  \/ type \in {"integer", "number"} /\ value.type = "int"
  \/ type = "number" /\ value.type = "float"
  \/ type = "boolean" /\ value.type = "bool"
  \/ type = value.type /\ type \in {"object", "array", "null"}

\* _validate_json_schema_value, of which part validates the parts.  What may have properties
\* must be an object, and what may have items an array, also where its types admit others.
\* A list of one type counts as the type.
AdmitsBy(schema, value, part(_, _)) ==
  /\ schema.types = {} \/ \E type \in schema.types : Matches(value, type)
  /\ schema.enum = Nil \/ value \in schema.enum
  /\ IF schema.types = {"object"} \/ schema.properties # Nil \/ schema.required # {} THEN
       LET properties == IF schema.properties = Nil THEN <<>> ELSE schema.properties IN
       /\ value.type = "object" /\ schema.required \subseteq DOMAIN value.parts
       /\ schema.open \/ DOMAIN value.parts \subseteq DOMAIN properties
       /\ \A key \in DOMAIN properties \cap DOMAIN value.parts :
            part(properties[key], value.parts[key])
     ELSE schema.types = {"array"} \/ schema.items # Nil =>
       /\ value.type = "array"
       /\ schema.items # Nil => \A i \in DOMAIN value.parts : part(schema.items, value.parts[i])

\* bound: values are nested four deep, the object of the arguments included.
Admits4(schema, value) == AdmitsBy(schema, value, LAMBDA s, v : FALSE)
Admits3(schema, value) == AdmitsBy(schema, value, Admits4)
Admits2(schema, value) == AdmitsBy(schema, value, Admits3)
Admits(schema, value) == AdmitsBy(schema, value, Admits2)

-----------------------------------------------------------------------------
(* Declaring and including. *)

\* {**settings, **own}
Under(own, settings) ==
  [k \in DOMAIN own \cup DOMAIN settings |-> IF k \in DOMAIN own THEN own[k] ELSE settings[k]]

NonBlank(aliases) ==
  LET kept[n \in 0 .. Len(aliases)] ==
        IF n = 0 THEN <<>>
        ELSE IF aliases[n] = <<>> THEN kept[n - 1] ELSE Append(kept[n - 1], aliases[n])
  IN kept[Len(aliases)]

\* What the settings of router c add to a route: prefixes in front, admin_required if
\* either has it, enabled only if both are, metadata of the route before the router's.
Merged(d, c) ==
  [d EXCEPT !.name = IF d.kind \in {"command", "task", "tool"} THEN c.prefix \o @ ELSE @,
            !.aliases = [i \in DOMAIN @ |-> c.prefix \o @[i]],
            !.admin = @ \/ (d.kind = "command" /\ c.admin),
            !.enabled = @ /\ (d.kind = "tool" \/ c.enabled),
            !.metadata = Under(@, c.metadata)]

\* A usage text of its own, or Nil; the generated one says the name.
Definition(d) ==
  LET c == Config[d.router]
      own == [kind |-> d.kind, name |-> IF d.name = Nil THEN d.handler.name ELSE d.name,
              aliases |-> d.aliases, usage |-> d.usage, admin |-> d.admin, enabled |-> d.enabled,
              metadata |-> d.metadata, handler |-> d.handler,
              schema |-> IF d.kind = "tool" /\ d.schema = Nil THEN SchemaOf(d.handler.parameters)
                         ELSE d.schema]
      definition == Merged(own, c)
  IN [definition EXCEPT !.aliases = NonBlank(@)]

Building == stage = "building" /\ Len(history) < plugin.steps
Declares(d, kind) == Building /\ d.kind = kind /\ ~ \E n \in DOMAIN history : history[n].declared = d

Declare(d) ==
  /\ routes' = [routes EXCEPT ![d.router][d.kind] = Append(@, Definition(d))]
  /\ history' = Append(history, [declared |-> d, from |-> Nil, to |-> d.router])
  /\ UNCHANGED <<plugin, stage, registered, called, argumentVars>>

Command(d) ==
  /\ Declares(d, "command")
  /\ Definition(d).name # <<>> /\ Declarable(d.handler.parameters)
  /\ Declare(d)

Scheduled(d) == Declares(d, "task") /\ Definition(d).name # <<>> /\ Declare(d)

Event(d) == Declares(d, "event") /\ Definition(d).name \in KnownTypes /\ Declare(d)

Middleware(d) == Declares(d, "middleware") /\ Definition(d).name \in KnownTypes /\ Declare(d)

Tool(d) == Declares(d, "tool") /\ Definition(d).name # <<>> /\ Declare(d)

\* PluginConfigurationError while the plugin is loaded
DeclareRefused(d) ==
  /\ Declares(d, d.kind)
  /\ CASE d.kind = "command" -> Definition(d).name = <<>> \/ ~ Declarable(d.handler.parameters)
       [] d.kind \in {"task", "tool"} -> Definition(d).name = <<>>
       [] OTHER -> Definition(d).name \notin KnownTypes
  /\ stage' = "failed"
  /\ UNCHANGED <<plugin, routes, registered, called, history, argumentVars>>

\* Faulty: the definition stays as it is.
IncludedAsIs(d, c) == d

\* _merge_router_definition and the like; a usage text of its own survives no prefix.
Included(d, c) ==
  [Merged(d, c) EXCEPT !.usage = IF d.kind = "command" /\ c.prefix # <<>> THEN Nil ELSE @]

Include(r, child) ==
  /\ Building /\ r # child /\ child # Root
  /\ routes' = [routes EXCEPT ![r] = [k \in DOMAIN @ |->
       @[k] \o [i \in DOMAIN routes[child][k] |-> Included(routes[child][k][i], Config[r])]]]
  /\ history' = Append(history, [declared |-> Nil, from |-> child, to |-> r])
  /\ UNCHANGED <<plugin, stage, registered, called, argumentVars>>

-----------------------------------------------------------------------------
(* Setting up. *)

\* Faulty: the context does not use up the slots.
ValidateLoosely(s, q, kind) ==
  IF q.default = "dependency" THEN [s EXCEPT !.ok = @ /\ Resolves(q.base)]
  ELSE IF kind = "command" /\ q.name \notin Injected THEN [s EXCEPT !.ok = @ /\ ~ Invalid(q)]
  ELSE IF q.default # "none" THEN s
  ELSE IF q.name \in {"request", "ctx", "context"} THEN [s EXCEPT !.slot = IF @ < 1 THEN 1 ELSE @]
  ELSE IF kind = "middleware" /\ q.name \in {"next", "call_next"} THEN s
  ELSE IF s.slot < 2 THEN [s EXCEPT !.slot = @ + 1]
  ELSE [s EXCEPT !.ok = FALSE]

\* The parameters that the slots request and context are dealt out to, in order: state
\* [slot, ok] before parameter q.
ValidateOne(s, q, kind) ==
  IF q.default = "dependency" THEN [s EXCEPT !.ok = @ /\ Resolves(q.base)]
  ELSE IF kind = "command" /\ q.name \notin Injected THEN [s EXCEPT !.ok = @ /\ ~ Invalid(q)]
  ELSE IF q.default # "none" THEN s
  ELSE IF q.name = "request" THEN [s EXCEPT !.slot = IF @ < 1 THEN 1 ELSE @]
  ELSE IF q.name \in {"ctx", "context"} THEN [s EXCEPT !.slot = 2]
  ELSE IF kind = "middleware" /\ q.name \in {"next", "call_next"} THEN s
  ELSE IF s.slot < 2 THEN [s EXCEPT !.slot = @ + 1]
  ELSE [s EXCEPT !.ok = FALSE]

Servable(route) ==
  \/ route.kind = "tool"
  \/ LET parameters == route.handler.parameters
         validated[n \in 0 .. Len(parameters)] ==
           IF n = 0 THEN [slot |-> 0, ok |-> TRUE]
           ELSE ValidateOne(validated[n - 1], parameters[n], route.kind)
     IN validated[Len(parameters)].ok

RootRoutes == FlattenSeq([k \in DOMAIN Kinds |-> routes[Root][Kinds[k]]])

SetUp ==
  /\ stage = "building" /\ stage' = "mounting"
  /\ UNCHANGED <<plugin, routes, registered, called, history, argumentVars>>

(* The host's side: the setup context of ApplicationPluginSetupContext, which      *)
(* begins with what the manifest defines.  A definition has no handler.            *)

\* _command_names
CommandNames(d) == ({d.name} \cup Range(d.aliases)) \ {<<>>}

Names(d) == IF d.kind = "command" THEN CommandNames(d) ELSE {d.name}

NamesOf(definitions, kind) ==
  UNION {Names(d) : d \in {x \in Range(definitions) : x.kind = kind}}

\* _register_task_definition and its like: what is defined by its names stays as it is.
Joined(definitions, route) ==
  IF Names(route) \subseteq NamesOf(definitions, route.kind) THEN definitions
  ELSE Append(definitions, route)

AllJoined(definitions, list) ==
  LET joined[n \in 0 .. Len(list)] == IF n = 0 THEN definitions ELSE Joined(joined[n - 1], list[n])
  IN joined[Len(list)]

Definitions == AllJoined(plugin.manifest, registered)

\* _register_command_definition: all the names of a command are new, or none is.
Defines(route) ==
  LET taken == NamesOf(Definitions, "command")
  IN  CommandNames(route) \subseteq taken \/ CommandNames(route) \cap taken = {}

\* register_command and its like
Takes(route) ==
  /\ route.kind \in plugin.capabilities
  /\ route.kind = "command" => Defines(route)
  /\ Names(route) \cap NamesOf(registered, route.kind) = {}

\* build_definition and build_executors: of a command one name needs a handler.
Handled(d) == Names(d) \cap NamesOf(registered, d.kind) # {}

NextRoute == RootRoutes[Len(registered) + 1]

Register ==
  /\ stage = "mounting" /\ Len(registered) < Len(RootRoutes)
  /\ Servable(NextRoute) /\ Takes(NextRoute)
  /\ registered' = Append(registered, NextRoute)
  /\ UNCHANGED <<plugin, stage, routes, called, history, argumentVars>>

\* The signature cannot be served, or the host refuses the definition.
RegisterFails ==
  /\ stage = "mounting" /\ Len(registered) < Len(RootRoutes)
  /\ ~ (Servable(NextRoute) /\ Takes(NextRoute))
  /\ stage' = "failed"
  /\ UNCHANGED <<plugin, routes, registered, called, history, argumentVars>>

Mounted ==
  /\ stage = "mounting" /\ Len(registered) = Len(RootRoutes)
  /\ stage' = IF \A d \in Range(Definitions) : Handled(d) THEN "mounted" ELSE "failed"
  /\ UNCHANGED <<plugin, routes, registered, called, history, argumentVars>>

-----------------------------------------------------------------------------
(* Calling.  One call is followed.  For a command it is read on by          *)
(* CommandArguments; as the routes cannot change any more, they are         *)
(* forgotten then (a bound: it keeps the states few).                       *)

Empty == [r \in Router |-> [k \in Range(Kinds) |-> <<>>]]

\* The scheduler and the tool registry have the definitions of the handlers, the plugin
\* registry those of the manifest first.
Enabled(kind, name) ==
  \E d \in Range(IF kind \in {"task", "tool"} THEN registered ELSE Definitions) :
    d.kind = kind /\ name \in Names(d) /\ d.enabled

\* Routers of the host find the handler by the name that is called.
Callable(route) ==
  /\ stage = "mounted" /\ called = Nil /\ route \in Range(registered)
  /\ \E name \in Names(route) : Enabled(route.kind, name)

\* A name that the manifest gives to a command and no decorator does
CallNobody(d) ==
  /\ stage = "mounted" /\ called = Nil /\ d \in Range(Definitions) /\ d.enabled
  /\ \E name \in Names(d) \ NamesOf(registered, d.kind) :
       called' = [route |-> d, given |-> <<>>, ending |-> "missing"]
  /\ UNCHANGED <<plugin, stage, routes, registered, history, argumentVars>>

CallCommand(route) ==
  /\ Callable(route) /\ route.kind = "command"
  /\ Receive(AsSignature(route.handler.parameters))
  /\ stage' = "calling" /\ routes' = Empty /\ registered' = <<>> /\ history' = <<>>
  /\ plugin' = [declares |-> {}, manifest |-> <<>>, capabilities |-> {}, steps |-> 0]
  /\ UNCHANGED called

Slot == <<"request", "context">>

\* _advance_slot_index
Advanced(slot, x) ==
  CASE x = "request" -> IF slot < 1 THEN 1 ELSE slot
    [] x = "context" -> 2
    [] OTHER -> slot + 1

\* _resolve_handler_parameter for parameter i, in state [slot, given, rejected]; next_call is
\* added by the executor of middlewares.
InjectOne(s, i, q, kind) ==
  LET give(x) == [s EXCEPT !.given = With(@, i, x),
                           !.slot = IF q.default # "none" THEN @ ELSE Advanced(@, x)]
  IN IF s.rejected THEN s
     ELSE IF q.default = "dependency" THEN give(Dependency(q.base))
     ELSE IF q.name = "request" THEN give("request")
     ELSE IF q.name = "event" /\ kind = "event" THEN give("event")
     ELSE IF q.name \in {"ctx", "context"} THEN give("context")
     ELSE IF q.name \in {"next", "call_next"} THEN
       IF kind = "middleware" THEN [s EXCEPT !.given = With(@, i, "next")] ELSE s
     ELSE IF q.default # "none" THEN s
     ELSE IF s.slot >= 2 THEN [s EXCEPT !.rejected = TRUE]
     ELSE give(Slot[s.slot + 1])

Ending(parameters, s) ==
  IF s.rejected THEN "rejected"
  ELSE IF \E i \in DOMAIN parameters : parameters[i].default = "none" /\ i \notin DOMAIN s.given
  THEN "failed" ELSE "called"

CallInjected(route) ==
  /\ Callable(route) /\ route.kind \in {"task", "event", "middleware"}
  /\ LET parameters == route.handler.parameters
         injected[n \in 0 .. Len(parameters)] ==
           IF n = 0 THEN [slot |-> 0, given |-> <<>>, rejected |-> FALSE]
           ELSE InjectOne(injected[n - 1], n, parameters[n], route.kind)
         s == injected[Len(parameters)]
     IN called' = [route |-> route, given |-> s.given, ending |-> Ending(parameters, s)]
  /\ UNCHANGED <<plugin, stage, routes, registered, history, argumentVars>>

\* _coerce_tool_argument
Coerces(type, base) ==
  base \in Primitive => type = base \/ (base = "float" /\ type = "int")

\* _build_tool_handler_arguments for one parameter, in state [args, rejected]
ToolOne(s, q, arguments) ==
  LET give(x) == [s EXCEPT !.args = Append(@, x)] IN
  IF s.rejected THEN s
  ELSE IF q.name \in {"call", "tool_call"} \/ q.base = "ToolCall" THEN give("call")
  ELSE IF q.name \in {"ctx", "context", "runtime"} THEN give("context")
  ELSE IF q.name \in DOMAIN arguments THEN
    IF Coerces(arguments[q.name].type, q.base) THEN give(q.name) ELSE [s EXCEPT !.rejected = TRUE]
  ELSE IF q.default # "none" THEN s
  ELSE [s EXCEPT !.rejected = TRUE]

\* The arguments of calls: any, also under a name that no parameter has
Arguments(parameters) ==
  UNION {[given -> Value] :
           given \in SUBSET ({parameters[i].name : i \in DOMAIN parameters} \cup {"other"})}

\* validate_tool_call_arguments
Validated(schema, wellFormed, arguments) ==
  wellFormed /\ Admits(schema, [type |-> "object", parts |-> arguments])

\* ToolManager.execute refuses what is no JSON object or what the schema does not admit.  The
\* rest is handed over by position (keyword-only parameters are left out).
CallTool(route) ==
  /\ Callable(route) /\ route.kind = "tool"
  /\ LET parameters == route.handler.parameters IN
     \E wellFormed \in BOOLEAN, arguments \in Arguments(parameters) :
       LET taken[n \in 0 .. Len(parameters)] ==
             IF n = 0 THEN [args |-> <<>>, rejected |-> FALSE]
             ELSE ToolOne(taken[n - 1], parameters[n], arguments)
           s == taken[Len(parameters)]
           valid == Validated(route.schema, wellFormed, arguments)
       IN called' = [route |-> route, given |-> IF valid THEN s.args ELSE <<>>,
                     ending |-> IF ~ valid THEN "refused" ELSE IF s.rejected THEN "rejected" ELSE "called"]
  /\ UNCHANGED <<plugin, stage, routes, registered, history, argumentVars>>

RoutesInit ==
  /\ plugin \in Bundle
  /\ stage = "building" /\ routes = Empty /\ registered = <<>> /\ called = Nil /\ history = <<>>
  /\ ArgumentsInit

RoutesNext ==
  \/ \E d \in plugin.declares : Command(d)
  \/ \E d \in plugin.declares : Scheduled(d)
  \/ \E d \in plugin.declares : Event(d)
  \/ \E d \in plugin.declares : Middleware(d)
  \/ \E d \in plugin.declares : Tool(d)
  \/ \E d \in plugin.declares : DeclareRefused(d)
  \/ \E r, child \in Router : Include(r, child)
  \/ SetUp
  \/ Register
  \/ RegisterFails
  \/ Mounted
  \/ \E route \in Range(registered) : CallCommand(route)
  \/ \E route \in Range(registered) : CallInjected(route)
  \/ \E route \in Range(registered) : CallTool(route)
  \/ \E d \in Range(plugin.manifest) : CallNobody(d)
  \/ ReadAndBind /\ UNCHANGED routeVars

RoutesSpec == RoutesInit /\ [][RoutesNext]_<<routeVars, argumentVars>>

-----------------------------------------------------------------------------

\* In a history h: the ways of the declaration at step n to router r, sets of later
\* inclusions, each from the router where the one before it ended.
Ways(h, n, r) ==
  {way \in SUBSET (n + 1 .. Len(h)) :
     /\ \A i \in way : h[i].declared = Nil
     /\ \A i \in way \cup {n}, j \in way :
          i < j /\ ~ (\E m \in way : i < m /\ m < j) => h[j].from = h[i].to
     /\ \A i \in way \cup {n} : (\A j \in way : j <= i) => h[i].to = r}

\* The prefixes of the routers at some steps, the outermost one first
PrefixOf(h, steps) ==
  LET within[i \in 0 .. Len(h)] ==
        IF i = 0 THEN <<>>
        ELSE IF i \in steps THEN Config[h[i].to].prefix \o within[i - 1] ELSE within[i - 1]
  IN within[Len(h)]

\* What d says of metadata, or else the innermost of the routers that does
MetadataBy(h, d, steps) ==
  LET saying(k) == {i \in steps : k \in DOMAIN Config[h[i].to].metadata} IN
  [k \in DOMAIN d.metadata \cup UNION {DOMAIN Config[h[i].to].metadata : i \in steps} |->
     IF k \in DOMAIN d.metadata THEN d.metadata[k] ELSE Config[h[Min(saying(k))].to].metadata[k]]

AdminBy(h, steps) == \E i \in steps : Config[h[i].to].admin
EnabledBy(h, steps) == \A i \in steps : Config[h[i].to].enabled

\* What is to be registered for the declaration at step n by one of its ways, from the
\* routers on it.  An alias that is blank with the prefix of its own router is none.
MountedBy(h, n, way) ==
  LET d == h[n].declared
      on == way \cup {n}
      name == IF d.name = Nil THEN d.handler.name ELSE d.name
      aliases == NonBlank([i \in DOMAIN d.aliases |-> Config[d.router].prefix \o d.aliases[i]])
  IN [kind |-> d.kind,
      name |-> IF d.kind \in {"command", "task", "tool"} THEN PrefixOf(h, on) \o name ELSE name,
      aliases |-> [i \in DOMAIN aliases |-> PrefixOf(h, way) \o aliases[i]],
      usage |-> IF d.kind = "command" /\ PrefixOf(h, way) # <<>> THEN Nil ELSE d.usage,
      admin |-> d.admin \/ (d.kind = "command" /\ AdminBy(h, on)),
      enabled |-> d.enabled /\ (d.kind = "tool" \/ EnabledBy(h, on)),
      metadata |-> MetadataBy(h, d, on),
      handler |-> d.handler,
      schema |-> IF d.kind = "tool" /\ d.schema = Nil THEN SchemaOf(d.handler.parameters) ELSE d.schema]

\* What the plugin is for the host: each name has one handler and is defined once, or as
\* often as the manifest says it; what is defined has a handler; and what the manifest says
\* of a name goes before what decorators and routers say.
HostHasThem ==
  LET manifest == Range(plugin.manifest)
      defined(definitions, kind, name) ==
        {i \in DOMAIN definitions : definitions[i].kind = kind /\ name \in Names(definitions[i])}
  IN /\ \A i, j \in DOMAIN registered :
          i # j /\ registered[i].kind = registered[j].kind
            => Names(registered[i]) \cap Names(registered[j]) = {}
     /\ \A route \in Range(registered) : \A name \in Names(route) :
          LET said == defined(plugin.manifest, route.kind, name) IN
          Cardinality(defined(Definitions, route.kind, name)) =
            IF said = {} THEN 1 ELSE Cardinality(said)
     /\ \A d \in manifest : \E route \in Range(registered) :
          route.kind = d.kind /\ Names(route) \cap Names(d) # {}
     /\ Range(Definitions) = manifest \cup
          {route \in Range(registered) :
             \A d \in manifest : d.kind = route.kind => Names(d) \cap Names(route) = {}}

\* The host is given every handler once for each way on which it was included up to the
\* root after it was declared, with all that the routers on that way ask for: a command
\* asks for an admin if any of them does and is enabled only if all of them are, however
\* deep it was declared, and nothing is mounted that was declared too late.  The host has
\* it under names that nothing else in the plugin has.
MountedAsDeclared ==
  stage = "mounted" =>
    LET mounted == {m \in (DOMAIN history) \X (SUBSET DOMAIN history) :
                      history[m[1]].declared # Nil /\ m[2] \in Ways(history, m[1], Root)}
        expected == [m \in mounted |-> MountedBy(history, m[1], m[2])]
    IN
    /\ \A x \in Range(registered) \cup Range(expected) :
         Cardinality({i \in DOMAIN registered : registered[i] = x}) =
           Cardinality({m \in mounted : expected[m] = x})
    /\ \A i, j \in DOMAIN registered : i < j =>
         \E a, b \in DOMAIN Kinds :
           a <= b /\ Kinds[a] = registered[i].kind /\ Kinds[b] = registered[j].kind
    /\ HostHasThem

\* A handler that setup accepted can be called: no parameter is left without a value but
\* one named next where there is none, what is asked for by name is what is given, a
\* dependency only to a plugin with the permission for it, and of
\* the other required parameters the first one gets the request and a later one the
\* context.  What the schema made from a tool's handler admits, the handler can take; it gets
\* the arguments of a call under their own names, up to the first parameter that is left to
\* its default: behind it arguments move forward.
HandlersAreCallable ==
  called # Nil =>
    LET parameters == called.route.handler.parameters
        kind == called.route.kind
        given == called.given
        next(i) == parameters[i].name \in {"next", "call_next"}
        takes(i) == parameters[i].default = "none" /\ ~ next(i)
        named(name) == IF name = "request" THEN "request" ELSE "context"
    IN
    IF called.ending = "missing" THEN kind = "command" /\ called.route \in Range(plugin.manifest)
    ELSE IF kind = "tool" THEN
      /\ called.ending = "rejected" => called.route.schema # SchemaOf(parameters)
      /\ called.ending = "called" => \A i \in DOMAIN given :
        (\A j \in 1 .. i : parameters[j].default = "none") =>
          given[i] \in {parameters[i].name, "call", "context"}
    ELSE
      /\ called.ending # "rejected"
      /\ called.ending = "failed" =>
           kind # "middleware" /\ \E i \in DOMAIN parameters : next(i) /\ parameters[i].default = "none"
      /\ \A i \in DOMAIN given :
           IF parameters[i].default = "dependency" THEN
             given[i] = Dependency(parameters[i].base) /\ Permitted(given[i])
           ELSE IF parameters[i].name \in Injected THEN given[i] = named(parameters[i].name)
           ELSE IF next(i) THEN given[i] = "next"
           ELSE IF kind = "event" /\ parameters[i].name = "event" THEN given[i] = "event"
           ELSE given[i] = IF \E j \in 1 .. i - 1 : takes(j) THEN "context" ELSE "request"

=============================================================================
