----------------------------- MODULE PluginHost -----------------------------
(***************************************************************************)
(* The plugin host (application/plugins/host.py) over the registries it    *)
(* keeps in step: the plugin registry with its command index               *)
(* (core/plugin/registry.py), the tool registry (core/tool/registry.py)    *)
(* and the task definitions of the scheduler (application/plugins/         *)
(* tasks.py).                                                              *)
(*                                                                         *)
(* Every operation of the host is synchronous, so it is one step here; but *)
(* it is a sequence of calls any of which can raise, and what earlier      *)
(* calls registered stays unless a handler takes it back.  The operators   *)
(* below are those calls: they map the record of all registries to the     *)
(* record afterwards, or to the set of outcomes that are possible, and     *)
(* reload is their composition in the order of the code.                   *)
(*                                                                         *)
(* A module, as a plugin's author wrote it, is a record: enabled in its    *)
(* manifest, the tools and the commands it declares and registers, whether *)
(* it has a task, and whether its setup raises ("setup"), returns but      *)
(* leaves a declaration without an executor ("build"), or works ("no").    *)
(* Skills go through host and registry the way tools do, events and        *)
(* middlewares the way commands do but without conflicts: neither is       *)
(* repeated here.                                                          *)
(***************************************************************************)
EXTENDS FiniteSets

CONSTANTS
  Plugin, Tool, Command,
  Namespace,       \* Namespace[c]: the first word of a command's name
  Module,          \* the modules that plugin projects may contain
  ConfigDisabled,  \* disabled_plugin_ids
  None

ASSUME PluginHostAssumption ==
  /\ DOMAIN Namespace = Command
  /\ Module \subseteq
       [enabled : BOOLEAN, tools : SUBSET Tool, commands : SUBSET Command,
        task : BOOLEAN, breaks : {"no", "setup", "build"}]
  /\ ConfigDisabled \subseteq Plugin
  /\ None \notin Plugin \cup Module

VARIABLE state
(* state.def     _definitions[p].enabled, or "absent"                      *)
(* state.module  _modules[p], the definition's content as well             *)
(* state.ready   the plugins whose executors the registry holds            *)
(* state.index   _command_to_plugin                                        *)
(* state.status  _statuses[p].status                                       *)
(* state.owner   who registered a tool that the tool registry holds        *)
(* state.names   _plugin_tool_names[p]                                     *)
(* state.tasks   the plugins with a task definition in the scheduler       *)
(* state.leaky   kept by the model only: the plugins of which a setup was  *)
(*               cut short, or that were loaded while installed            *)

Register == [
  def    : [Plugin -> {"absent", "enabled", "disabled"}],
  module : [Plugin -> Module \cup {None}],
  ready  : SUBSET Plugin,
  index  : [Command -> Plugin \cup {None}],
  status : [Plugin -> {"none", "loaded", "enabled", "disabled", "failed"}],
  owner  : [Tool -> Plugin \cup {None}],
  names  : [Plugin -> SUBSET Tool],
  tasks  : SUBSET Plugin,
  leaky  : SUBSET Plugin ]

TypeOK ==
  /\ state \in Register
  /\ \A p \in Plugin : state.def[p] = "absent" <=> state.module[p] = None

Init ==
  state = [
    def    |-> [p \in Plugin |-> "absent"],
    module |-> [p \in Plugin |-> None],
    ready  |-> {},
    index  |-> [c \in Command |-> None],
    status |-> [p \in Plugin |-> "none"],
    owner  |-> [t \in Tool |-> None],
    names  |-> [p \in Plugin |-> {}],
    tasks  |-> {},
    leaky  |-> {} ]

Installed(s, p) == s.def[p] # "absent"

Owned(s, p) == {t \in Tool : s.owner[t] = p}

-----------------------------------------------------------------------------
(* The plugin registry. *)

\* _enabled_command_names of the definition that is registered.
EnabledNames(s, p) == IF s.def[p] = "enabled" THEN s.module[p].commands ELSE {}

\* Faulty: only equal names conflict.
SameName(s, p, names) == \E c \in names : s.index[c] \notin {None, p}

\* _find_command_conflict: some name's namespace belongs to another plugin.
Conflicts(s, p, names) ==
  \E c \in names, d \in Command :
     s.index[d] \notin {None, p} /\ Namespace[c] = Namespace[d]

Indexed(s, p, names) == [c \in Command |-> IF c \in names THEN p ELSE s.index[c]]

Unindexed(s, p) == [c \in Command |-> IF c \in EnabledNames(s, p) THEN None ELSE s.index[c]]

\* register, where nothing is in the way; only a module that was set up comes
\* with executors, and only such a module is registered enabled.
Entered(s, p, m, def) ==
  [s EXCEPT !.def[p] = def, !.module[p] = m, !.status[p] = def,
            !.ready = IF def = "enabled" THEN @ \cup {p} ELSE @,
            !.index = Indexed(s, p, IF def = "enabled" THEN m.commands ELSE {})]

\* unregister; the host forgets the module together with it.
Dropped(s, p) ==
  [s EXCEPT !.index = Unindexed(s, p), !.def[p] = "absent", !.module[p] = None,
            !.ready = @ \ {p}, !.status[p] = "none"]

\* set_enabled(plugin_id, False).
Disabled(s, p) ==
  IF s.def[p] # "enabled" THEN s
  ELSE [s EXCEPT !.index = Unindexed(s, p), !.def[p] = "disabled", !.status[p] = "disabled"]

\* set_enabled(plugin_id, True), which raises without an executor for the
\* plugin's commands and when another plugin has taken a namespace of them.
MayEnable(s, p) ==
  LET m == s.module[p]
  IN  /\ m.commands # {} => p \in s.ready
      /\ ~Conflicts(s, p, m.commands)

-----------------------------------------------------------------------------
(* The host. *)

\* _unregister_runtime_resources.
Reclaimed(s, p) ==
  [s EXCEPT !.tasks = @ \ {p}, !.names[p] = {},
            !.owner = [t \in Tool |-> IF t \in s.names[p] THEN None ELSE @[t]]]

\* _unregister_plugin.
Unregistered(s, p) ==
  LET r == Reclaimed(s, p) IN IF Installed(s, p) THEN Dropped(r, p) ELSE r

Raised(s) == [ok |-> FALSE, s |-> s]
Returned(s) == [ok |-> TRUE, s |-> s]

\* What module.setup can register before it meets something that raises: a
\* tool name or a task that is registered already, or its own fault.
Clashes(s, p, m) == {t \in m.tools : s.owner[t] # None}

SetupRaises(s, p, m) ==
  m.breaks = "setup" \/ Clashes(s, p, m) # {} \/ (m.task /\ p \in s.tasks)

SetUp(s, p, tools, task) ==
  [s EXCEPT !.owner = [t \in Tool |-> IF t \in tools THEN p ELSE @[t]],
            !.tasks = IF task THEN @ \cup {p} ELSE @]

CutShort(s, p, m) ==
  { [SetUp(s, p, done.tools, done.task) EXCEPT !.status[p] = "failed", !.leaky = @ \cup {p}] :
      done \in [tools : SUBSET (m.tools \ Clashes(s, p, m)), task : {FALSE, m.task}] }

\* register from build_definition on: the names are remembered, then the
\* registry accepts the definition or the conflict's handler cleans up.
Concluded(s, p, m) ==
  LET remembered == [s EXCEPT !.names[p] = m.tools]
  IN  IF Installed(s, p) \/ Conflicts(s, p, m.commands)
      THEN Raised([Reclaimed(remembered, p) EXCEPT
                     !.status[p] = "failed",
                     !.leaky = IF Installed(s, p) THEN @ \cup {p} ELSE @])
      ELSE Returned(Entered(remembered, p, m, "enabled"))

Shelved(m, p) == ~m.enabled \/ p \in ConfigDisabled

\* PluginHost.register: its possible outcomes.
Registrations(s, p, m) ==
  LET done == SetUp(s, p, m.tools, m.task)
  IN  CASE Shelved(m, p) ->
             { IF Installed(s, p) THEN Raised(s) ELSE Returned(Entered(s, p, m, "disabled")) }
        [] ~Shelved(m, p) /\ SetupRaises(s, p, m) ->
             { Raised(t) : t \in CutShort(s, p, m) }
        [] ~Shelved(m, p) /\ ~SetupRaises(s, p, m) /\ m.breaks = "build" ->
             { Raised([done EXCEPT !.status[p] = "loaded", !.leaky = @ \cup {p}]) }
        [] OTHER ->
             { Concluded(done, p, m) }

\* A plugin that was disabled stays disabled, whichever module it gets.
AsBefore(old, s, p) == IF old.def[p] = "disabled" THEN Disabled(s, p) ELSE s

\* Faulty: a failed reload removes the plugin and leaves it at that.
NoRollback(old, s, p) == {Unregistered(s, p)}

\* The rollback of a failed reload: the old module is registered again, and
\* what that raises is logged.
Rollbacks(old, s, p) ==
  { IF b.ok THEN AsBefore(old, b.s, p) ELSE b.s :
      b \in Registrations(Unregistered(s, p), p, old.module[p]) }

\* PluginHost.reload with module m found at the plugin's source.
Reloads(s, p, m) ==
  UNION { IF a.ok THEN {AsBefore(s, a.s, p)} ELSE Rollbacks(s, a.s, p) :
            a \in Registrations(Unregistered(s, p), p, m) }

-----------------------------------------------------------------------------
\* load of one module.  Two configured paths may hold the same plugin id, and
\* only install_path of the administration asks whether it is installed.
Load(p, m) == \E a \in Registrations(state, p, m) : state' = a.s

Reload(p, m) == Installed(state, p) /\ state' \in Reloads(state, p, m)

Enable(p) ==
  /\ state.def[p] = "disabled" /\ MayEnable(state, p)
  /\ state' = [state EXCEPT !.index = Indexed(state, p, state.module[p].commands),
                            !.def[p] = "enabled", !.status[p] = "enabled"]

Disable(p) == state.def[p] = "enabled" /\ state' = Disabled(state, p)

Next ==
  \E p \in Plugin :
    \/ \E m \in Module : Load(p, m) \/ Reload(p, m)
    \/ Enable(p)
    \/ Disable(p)

Spec == Init /\ [][Next]_state

-----------------------------------------------------------------------------
(* Properties. *)

\* The command index holds exactly the names of the enabled plugins, no two of
\* which share a namespace, and resolve_command finds an executor behind every
\* entry: enabling, disabling, reloading and rolling back, several steps of
\* several plugins apart, never leave a name behind or drop one.
CommandsResolve ==
  /\ \A c \in Command, p \in Plugin :
       state.index[c] = p <=> c \in EnabledNames(state, p)
  /\ \A p \in Plugin : EnabledNames(state, p) # {} => p \in state.ready
  /\ \A c, d \in Command :
       state.index[c] # None /\ state.index[d] # None /\ Namespace[c] = Namespace[d]
         => state.index[c] = state.index[d]

\* Of a plugin whose setups were never cut short and that was never loaded on
\* top of itself, the tool registry and the scheduler hold exactly what the
\* installed module registered: nothing of a plugin that failed to register,
\* was replaced or is gone, and all of one whose reload was rolled back.
Accounted ==
  \A p \in Plugin \ state.leaky :
     LET up == p \in state.ready
     IN  /\ Owned(state, p) = IF up THEN state.module[p].tools ELSE {}
         /\ state.names[p] = Owned(state, p)
         /\ p \in state.tasks <=> up /\ state.module[p].task

\* The registries hold what the installed plugins registered, no more and no less.
RegistriesAgree == CommandsResolve /\ Accounted

\* The host never forgets tools into the hands of another plugin: a name that
\* it would unregister for a plugin is held by that plugin, also after leaks.
NamesAreOwn == \A p \in Plugin : state.names[p] \subseteq Owned(state, p)

\* A status that says enabled or disabled is that of an installed plugin, even
\* where the record of a failure was overwritten or taken back by a rollback.
StatusIsTrue ==
  \A p \in Plugin :
     state.status[p] \in {"enabled", "disabled"} => state.def[p] = state.status[p]

\* What one plugin has in all the registries.
Share(s, p) ==
  <<s.def[p], s.module[p], p \in s.ready, EnabledNames(s, p), s.status[p],
    Owned(s, p), s.names[p], p \in s.tasks>>

\* Whatever fails in the registration or the reload of a plugin, and however
\* it is cleaned up, no other plugin loses or gains anything by it.
OthersUntouched ==
  [][\E p \in Plugin : \A q \in Plugin \ {p} : Share(state, q)' = Share(state, q)]_state

\* A reload never turns a disabled plugin on, neither by the new module nor by
\* the rollback to the old one.
ReloadKeepsDisabled ==
  [][\A p \in Plugin :
       state.def[p] = "disabled" /\ state'.def[p] = "enabled"
         => ~\E m \in Module : Reload(p, m)]_state

\* The names that keep a plugin's module from being registered.
Blocked(s, p, m) ==
  m.enabled /\ p \notin ConfigDisabled
            /\ (Clashes(s, p, m) # {} \/ Conflicts(s, p, m.commands))

\* A plugin vanishes in a reload only when one of its old module's names is
\* taken afterwards, by another plugin or by what its own new module leaked.
LostToAConflict ==
  [][\A p \in Plugin :
       Installed(state, p) /\ ~Installed(state', p) => Blocked(state', p, state.module[p])]_state

\* host.py:308: a reload restores the old plugin on failure "as far as
\* possible".  Were no other plugin in the way of the old module, it would be
\* possible; the tools that the new module's setup left behind are in the way.
RollbackRestores ==
  [][\A p \in Plugin :
       /\ Installed(state, p)
       /\ ~Blocked(Unregistered(state, p), p, state.module[p])
       => Installed(state', p)]_state
=============================================================================
