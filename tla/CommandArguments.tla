---------------------------- MODULE CommandArguments ----------------------------
(***************************************************************************)
(* How the words behind a command become the arguments of a handler:       *)
(* _parse_command_arguments and _build_handler_arguments, one word and one *)
(* parameter at a time, and what they are to mean.  PluginRoutes says which *)
(* signature the words are read for.                                       *)
(*                                                                         *)
(* A word is a record                                                      *)
(*   text    the word as a value,                                          *)
(*   option  the name its part before "=" gives, or an alias of it,        *)
(*   like    it looks like an option and not like a number,                *)
(*   inline  the value behind "=", or NoInline.                            *)
(* An injected parameter (the request, the context, a dependency) takes no *)
(* words, nor does one named next; positional-only ones are left out.      *)
(***************************************************************************)
EXTENDS Naturals, FiniteSets, Sequences, SequencesExt

CONSTANTS
  Word,
  Reads,      \* Reads[t]: the texts that can be read as a value of type t
  MaxWords,   \* bound
  NoInline

ASSUME ArgumentsAssumption == MaxWords \in Nat

VARIABLES
  signature,    \* of the handler: a sequence of parameters
  words,
  index,        \* the next word
  positionals, options,
  parameter,    \* the next parameter
  used,         \* command_arg_index
  anyBound,     \* has_command_arguments
  bound,        \* kwargs
  outcome       \* "idle", "reading", "binding", "refused", "called", "failed"

argumentVars == <<signature, words, index, positionals, options, parameter, used, anyBound, bound, outcome>>

ByName == {i \in DOMAIN signature : signature[i].kind \in {"option", "flag"}}
NamedBy(w) == {i \in ByName : signature[i].name = w.option}

ArgumentsInit ==
  /\ signature = <<>> /\ words = <<>>
  /\ index = 1 /\ positionals = <<>> /\ options = <<>>
  /\ parameter = 1 /\ used = 0 /\ anyBound = FALSE /\ bound = <<>>
  /\ outcome = "idle"

\* A command with some words is for the handler with this signature.
Receive(s) ==
  /\ outcome = "idle"
  /\ signature' = s /\ words' \in BoundedSeq(Word, MaxWords)
  /\ outcome' = "reading"
  /\ UNCHANGED <<index, positionals, options, parameter, used, anyBound, bound>>

Refuse ==
  /\ outcome' = "refused"
  /\ UNCHANGED <<signature, words, index, positionals, options, parameter, used, anyBound, bound>>

-----------------------------------------------------------------------------
(* Reading the words.  options and bound are functions of parameters.      *)

Reading == outcome = "reading" /\ index <= Len(words)
With(f, i, x) == [j \in DOMAIN f \cup {i} |-> IF j = i THEN x ELSE f[j]]

ReadPositional ==
  /\ Reading /\ NamedBy(words[index]) = {}
  /\ ByName = {} \/ ~ words[index].like
  /\ positionals' = Append(positionals, words[index].text)
  /\ index' = index + 1
  /\ UNCHANGED <<signature, words, options, parameter, used, anyBound, bound, outcome>>

RefuseUnknown ==
  /\ Reading /\ NamedBy(words[index]) = {}
  /\ ByName # {} /\ words[index].like
  /\ Refuse

RefuseRepeated ==
  /\ Reading /\ \E i \in NamedBy(words[index]) : i \in DOMAIN options
  /\ Refuse

ReadNamed(i, x, next) ==
  /\ Reading /\ i \in NamedBy(words[index]) /\ i \notin DOMAIN options
  /\ options' = With(options, i, x)
  /\ index' = next
  /\ UNCHANGED <<signature, words, positionals, parameter, used, anyBound, bound, outcome>>

ReadFlag(i) ==
  /\ Reading /\ signature[i].kind = "flag"
  /\ ReadNamed(i, IF words[index].inline = NoInline THEN "true" ELSE words[index].inline, index + 1)

ReadInline(i) ==
  /\ Reading /\ signature[i].kind = "option"
  /\ words[index].inline \notin {NoInline, ""}
  /\ ReadNamed(i, words[index].inline, index + 1)

\* The next word may be the value of this option.
ValueFollows == index < Len(words) /\ ~ words[index + 1].like

\* Faulty: the value is not passed over.
ReadNextTwice(i) ==
  /\ Reading /\ signature[i].kind = "option"
  /\ words[index].inline = NoInline /\ ValueFollows
  /\ ReadNamed(i, words[index + 1].text, index + 1)

ReadNext(i) ==
  /\ Reading /\ signature[i].kind = "option"
  /\ words[index].inline = NoInline /\ ValueFollows
  /\ ReadNamed(i, words[index + 1].text, index + 2)

RefuseMissing ==
  /\ Reading
  /\ \E i \in NamedBy(words[index]) :
       /\ signature[i].kind = "option" /\ i \notin DOMAIN options
       /\ words[index].inline = "" \/ (words[index].inline = NoInline /\ ~ ValueFollows)
  /\ Refuse

Read ==
  /\ outcome = "reading" /\ index > Len(words)
  /\ outcome' = "binding"
  /\ UNCHANGED <<signature, words, index, positionals, options, parameter, used, anyBound, bound>>

-----------------------------------------------------------------------------
(* Binding the parameters, in the order of the signature. *)

Binding(kinds) ==
  /\ outcome = "binding" /\ parameter <= Len(signature)
  /\ signature[parameter].kind \in kinds

current == signature[parameter]
Left == SubSeq(positionals, used + 1, Len(positionals))
Valid(x) == x \in Reads[current.type] /\ (current.kind = "flag" \/ current.choices = {} \/ x \in current.choices)

Bind(x, taken) ==
  /\ bound' = With(bound, parameter, x)
  /\ used' = taken /\ anyBound' = TRUE
  /\ parameter' = parameter + 1
  /\ UNCHANGED <<signature, words, index, positionals, options, outcome>>

Unset ==
  /\ parameter' = parameter + 1
  /\ UNCHANGED <<signature, words, index, positionals, options, used, anyBound, bound, outcome>>

\* _resolve_handler_parameter, for what is not read from words
BindInjected ==
  /\ Binding({"injected"})
  /\ bound' = With(bound, parameter, current.what)
  /\ parameter' = parameter + 1
  /\ UNCHANGED <<signature, words, index, positionals, options, used, anyBound, outcome>>

SkipNext == Binding({"next"}) /\ Unset

BindPositional ==
  /\ Binding({"positional"}) /\ Left # <<>> /\ Valid(Head(Left))
  /\ Bind(Head(Left), used + 1)

BindRest ==
  /\ Binding({"rest"}) /\ Left # <<>>
  /\ Bind(Left, Len(positionals))

BindNamed ==
  /\ Binding({"option", "flag"}) /\ parameter \in DOMAIN options /\ Valid(options[parameter])
  /\ Bind(options[parameter], used)

RefuseValue ==
  /\ \/ Binding({"positional"}) /\ Left # <<>> /\ ~ Valid(Head(Left))
     \/ Binding({"option", "flag"}) /\ parameter \in DOMAIN options /\ ~ Valid(options[parameter])
  /\ Refuse

\* A parameter without a word keeps its default; a flag is left out even if it has none.
Absent ==
  \/ Binding({"positional", "rest"}) /\ Left = <<>>
  \/ Binding({"option", "flag"}) /\ parameter \notin DOMAIN options

LeaveUnset == Absent /\ (~ current.required \/ current.kind = "flag") /\ Unset

RefuseAbsent == Absent /\ current.required /\ current.kind # "flag" /\ Refuse

Bound == outcome = "binding" /\ parameter > Len(signature)

RefuseSurplus == Bound /\ anyBound /\ Left # <<>> /\ Refuse

Call ==
  /\ Bound /\ (~ anyBound \/ Left = <<>>)
  /\ outcome' = IF \E i \in DOMAIN signature : signature[i].required /\ i \notin DOMAIN bound
                THEN "failed" ELSE "called"
  /\ UNCHANGED <<signature, words, index, positionals, options, parameter, used, anyBound, bound>>

ReadAndBind ==
  \/ ReadPositional
  \/ RefuseUnknown
  \/ RefuseRepeated
  \/ \E i \in DOMAIN signature : ReadFlag(i)
  \/ \E i \in DOMAIN signature : ReadInline(i)
  \/ \E i \in DOMAIN signature : ReadNext(i)
  \/ RefuseMissing
  \/ Read
  \/ BindInjected
  \/ SkipNext
  \/ BindPositional
  \/ BindRest
  \/ BindNamed
  \/ RefuseValue
  \/ LeaveUnset
  \/ RefuseAbsent
  \/ RefuseSurplus
  \/ Call

\* A signature that a command can have: names of parameters differ, and nothing that takes
\* words by position stands behind the rest.
Usable(s) ==
  /\ Len(s) \in Nat /\ DOMAIN s = 1 .. Len(s)
  /\ \A i \in DOMAIN s : s[i].kind \in {"injected", "next", "positional", "rest", "option", "flag"}
  /\ \A i, j \in DOMAIN s : s[i].name = s[j].name => i = j
  /\ \A i, j \in DOMAIN s : i < j /\ s[i].kind = "rest" => s[j].kind \notin {"positional", "rest"}

ArgumentsSpec ==
  ArgumentsInit /\ [][(\E s : Usable(s) /\ Receive(s)) \/ ReadAndBind]_argumentVars

-----------------------------------------------------------------------------
(* What the words mean, without reading them in order. *)

\* A word is the value of the one before it if that one names an option, carries no value
\* itself, and is not a value in its turn.
Opens(w) == w.inline = NoInline /\ \E i \in NamedBy(w) : signature[i].kind = "option"

IsValue ==
  LET value[k \in DOMAIN words] == k > 1 /\ Opens(words[k - 1]) /\ ~ value[k - 1] IN value

\* The words that name parameter i, and the positions that name none.
Naming(i) == {k \in DOMAIN words : ~ IsValue[k] /\ i \in NamedBy(words[k])}
Plain == {k \in DOMAIN words : ~ IsValue[k] /\ NamedBy(words[k]) = {}}

Given(i) ==
  LET w == words[CHOOSE k \in Naming(i) : TRUE] IN
  IF w.inline # NoInline THEN w.inline
  ELSE IF signature[i].kind = "flag" THEN "true"
  ELSE words[1 + CHOOSE k \in Naming(i) : TRUE].text

\* The rank of a positional parameter: the one of the plain word it takes.
Rank(i) == Cardinality({j \in 1 .. i : signature[j].kind \in {"positional", "rest"}})
PlainAt(n) == words[CHOOSE k \in Plain : Cardinality({j \in Plain : j <= k}) = n].text

BoundByMeaning ==
  outcome \in {"called", "failed"} =>
    /\ \A i \in DOMAIN signature :
         CASE signature[i].kind = "injected" -> i \in DOMAIN bound /\ bound[i] = signature[i].what
           [] signature[i].kind = "next" -> i \notin DOMAIN bound
           [] i \in ByName -> IF Naming(i) = {} THEN i \notin DOMAIN bound
                             ELSE i \in DOMAIN bound /\ bound[i] = Given(i)
           [] signature[i].kind = "positional" ->
                IF Rank(i) > Cardinality(Plain) THEN i \notin DOMAIN bound
                ELSE i \in DOMAIN bound /\ bound[i] = PlainAt(Rank(i))
           [] signature[i].kind = "rest" ->
                IF Rank(i) > Cardinality(Plain) THEN i \notin DOMAIN bound
                ELSE bound[i] = [n \in 1 .. Cardinality(Plain) - Rank(i) + 1 |-> PlainAt(Rank(i) + n - 1)]
    /\ \A i \in ByName : Cardinality(Naming(i)) <= 1
    /\ (\E i \in DOMAIN bound : signature[i].kind # "injected") =>
         \/ \E i \in DOMAIN signature : signature[i].kind = "rest"
         \/ Cardinality(Plain) <= Cardinality({i \in DOMAIN signature : signature[i].kind = "positional"})

\* What is refused is wrong by the meaning of the words: a word that names nothing, an
\* option named twice or without its value, a value that cannot be read, a parameter left
\* out or a plain word too many.
Wrong ==
  \/ ByName # {} /\ \E k \in Plain : words[k].like
  \/ \E i \in ByName : Cardinality(Naming(i)) > 1
  \/ \E i \in ByName : \E k \in Naming(i) :
       /\ signature[i].kind = "option"
       /\ words[k].inline = "" \/ (Opens(words[k]) /\ (k = Len(words) \/ words[k + 1].like))
  \/ \E i \in DOMAIN signature :
       /\ signature[i].kind \in {"positional", "option", "flag"}
       /\ LET q == signature[i]
              good == IF q.kind = "flag" \/ q.choices = {} THEN Reads[q.type]
                      ELSE Reads[q.type] \cap q.choices IN
          \/ i \in ByName /\ Naming(i) # {} /\ Given(i) \notin good
          \/ i \notin ByName /\ Rank(i) <= Cardinality(Plain) /\ PlainAt(Rank(i)) \notin good
  \/ \E i \in DOMAIN signature :
       /\ signature[i].required /\ signature[i].kind \notin {"injected", "next"}
       /\ IF i \in ByName THEN signature[i].kind = "option" /\ Naming(i) = {}
                         ELSE Rank(i) > Cardinality(Plain)
  \/ /\ ~ \E i \in DOMAIN signature : signature[i].kind = "rest"
     /\ Cardinality(Plain) > Cardinality({i \in DOMAIN signature : signature[i].kind = "positional"})

\* A handler that is called gets, for each of its parameters, the value that the words
\* give it: an option or a flag the one named, wherever it stands, and a positional the
\* plain word of its rank, whatever options and injected parameters stand in between; it
\* gets nothing else.  And no word is dropped: an option is not named twice, and if the
\* handler gets an argument at all then every plain word is in one.  A command is refused
\* only if its words are wrong, and the handler is called without an argument that it
\* requires only if that is a flag, which has to have a default, or is named next.
BoundAsMeant ==
  /\ BoundByMeaning
  /\ outcome = "refused" => Wrong
  /\ outcome = "failed" =>
       \E i \in DOMAIN signature :
         /\ signature[i].required
         /\ \/ signature[i].kind = "flag" /\ Naming(i) = {}
            \/ signature[i].kind = "next"

=============================================================================
