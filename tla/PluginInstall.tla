--------------------------- MODULE PluginInstall ---------------------------
(***************************************************************************)
(* Where the plugin host's modules come from: projects in directories,     *)
(* read by the filesystem loader (infra/adapters/plugins/filesystem/       *)
(* loader.py), installed through the administration                        *)
(* (server/plugin_admin.py) under the install policy                       *)
(* (core/plugin/install_policy.py), with Python environments for their     *)
(* dependencies (infra/adapters/plugins/python_env.py).                    *)
(*                                                                         *)
(* Nothing here awaits, so every operation is one step; what is hard is    *)
(* that loading a project changes the asset table and the environments     *)
(* before anybody has decided whether the plugin may be installed or       *)
(* replaced, and that decision is made against what was recorded when the  *)
(* installed one was loaded, while its directory may hold something else   *)
(* by now.  Authors replace what a directory holds at any time: a step     *)
(* reads any project at a path.                                            *)
(*                                                                         *)
(* A project is a record: the plugin it says it is, its version, the       *)
(* module of PluginHost that its entry point defines, whether it declares  *)
(* dependencies and whether it asks for an isolation that is supported,    *)
(* and where reading it fails: at its manifest, at its entry point or      *)
(* signature ("source"), when the entry point is imported, or nowhere.     *)
(* Projects with equal content hashes are equal records.                   *)
(***************************************************************************)
EXTENDS PluginHost, Naturals

CONSTANTS
  Path,        \* directories that hold a project
  Project,     \* what may be found in them
  AutoInstall  \* auto_install of the environment manager

ASSUME InstallAssumption ==
  /\ Project \subseteq
       [id : Plugin, version : Nat, module : Module, needs : BOOLEAN, supported : BOOLEAN,
        fault : {"none", "manifest", "source", "import"}]
  /\ None \notin Path \cup [path : Path, project : Project]
  /\ None \notin Project
  /\ AutoInstall \in BOOLEAN

VARIABLES
  source,   \* _sources[p]: the path and the project that was loaded from it
  assets,   \* _asset_roots[p]
  env       \* for which project the environment at a key is marked; none if
            \* there is no marker, whatever is left of an environment
installVars == <<state, source, assets, env>>

At(path, project) == [path |-> path, project |-> project]

InstallTypeOK ==
  /\ TypeOK
  /\ source \in [Plugin -> [path : Path, project : Project] \cup {None}]
  /\ assets \in [Plugin -> Path \cup {None}]
  /\ env \in [Project -> Project \cup {None}]

\* Faulty: one environment per plugin.
KeyOfPlugin(project) == CHOOSE q \in Project : q.id = project.id

\* environment_key, a hash of id, version, content and dependencies.
Key(project) == project

\* Environments outlive the process, also one that died while making them.
InstallInit ==
  /\ Init
  /\ source = [p \in Plugin |-> None]
  /\ assets = [p \in Plugin |-> None]
  /\ \E made \in SUBSET {k \in Project : k.needs /\ Key(k) = k} :
       env = [k \in Project |-> IF k \in made THEN k ELSE None]

-----------------------------------------------------------------------------
(* Loading a project. *)

\* resolve_plugin_project_path and load_plugin_manifest
Readable(project) == project.fault # "manifest"

\* resolve_plugin_entrypoint, and validate_plugin_project_signature over the content's
\* hash: a signature is absent, valid, of an unknown algorithm or of another content.
Sound(project) == project.fault # "source"

\* FileSystemPluginAssets.register
Rooted(path, project) == [assets EXCEPT ![project.id] = path]

Loaded(roots, envs) == [ok |-> TRUE, assets |-> roots, env |-> envs]
LoadRaised(roots, envs) == [ok |-> FALSE, assets |-> roots, env |-> envs]

Marked(project) == env[Key(project)] = project

\* _create_environment: the old directory is removed, venv and pip may fail or
\* run out of time, and the marker is written when all is done.
Creations(project) ==
  {[env EXCEPT ![Key(project)] = project], [env EXCEPT ![Key(project)] = None]}

\* _site_paths asks the environment's own python, which may fail.
Asked(roots, envs) == {Loaded(roots, envs), LoadRaised(roots, envs)}

\* PluginPythonEnvironmentManager.ensure
Ensured(roots, project) ==
  CASE ~project.needs                     -> {Loaded(roots, env)}
    [] project.needs /\ Marked(project)   -> Asked(roots, env)
    [] project.needs /\ ~Marked(project)  ->
         IF AutoInstall
         THEN UNION {IF e[Key(project)] = project THEN Asked(roots, e) ELSE {LoadRaised(roots, e)} :
                       e \in Creations(project)}
         ELSE {LoadRaised(roots, env)}

Imported(project, outcome) == [outcome EXCEPT !.ok = @ /\ project.fault # "import"]

\* _load_plugin_project: its possible outcomes.
Loads(path, project) ==
  IF ~Readable(project) THEN {LoadRaised(assets, env)}
  ELSE IF ~Sound(project) THEN {LoadRaised(Rooted(path, project), env)}
  ELSE {Imported(project, o) : o \in Ensured(Rooted(path, project), project)}

\* PluginHost.load of one project, whose source _remember_module_metadata records.
RegisterLoaded(path, project) ==
  \E a \in Registrations(state, project.id, project.module) :
    /\ state' = a.s
    /\ source' = IF a.ok THEN [source EXCEPT ![project.id] = At(path, project)] ELSE source

-----------------------------------------------------------------------------
(* The install policy. *)

\* _inspect_plugin_project_path
Inspected(project) == Readable(project) /\ Sound(project)

\* _validate_source_allowed; unsigned projects are allowed by default.
Allowed(project) == Sound(project) /\ project.supported

\* compare_plugin_versions
NotOlder(new, old) == new.version >= old.version

\* Faulty: an installed plugin is not looked for.
MayInstallAny(project) == Inspected(project) /\ Allowed(project)

\* validate_install: whatever is installed under the id, older, newer or equal, an
\* install is refused.
MayInstall(project) ==
  Inspected(project) /\ Allowed(project) /\ ~Installed(state, project.id)

\* Faulty: one version, any content.
MayReplaceContent(p, project) ==
  project.id = p /\ Allowed(project) /\ NotOlder(project, source[p].project)

\* validate_reload; type and path of the source cannot differ here.
MayReplace(p, project) ==
  LET old == source[p].project
  IN  /\ Allowed(project)
      /\ project.id = p
      /\ NotOlder(project, old)
      /\ project.version = old.version => project = old

-----------------------------------------------------------------------------
\* load_filesystem_plugins, at startup or from a program: no policy is asked.
LoadPath(path, project) ==
  \E o \in Loads(path, project) :
    /\ assets' = o.assets /\ env' = o.env
    /\ IF o.ok THEN RegisterLoaded(path, project) ELSE UNCHANGED <<state, source>>

\* install_path of the administration.
Install(path, project) == MayInstall(project) /\ LoadPath(path, project)

\* PluginHost.reload once the new project may replace the old one.
Replace(p, project) ==
  \E a \in Registrations(Unregistered(state, p), p, project.module) :
    IF a.ok
    THEN /\ state' = AsBefore(state, a.s, p)
         /\ source' = [source EXCEPT ![p].project = project]
    ELSE /\ state' \in Rollbacks(state, a.s, p)
         /\ source' = IF Installed(state', p) THEN source ELSE [source EXCEPT ![p] = None]

\* PluginHost.reload: whatever is found where the plugin was loaded from is
\* loaded, and only then compared.
ReloadFrom(p, project) ==
  /\ Installed(state, p)
  /\ \E o \in Loads(source[p].path, project) :
       /\ assets' = o.assets /\ env' = o.env
       /\ IF o.ok /\ MayReplace(p, project) THEN Replace(p, project)
                                            ELSE UNCHANGED <<state, source>>

Switch(p) == (Enable(p) \/ Disable(p)) /\ UNCHANGED <<source, assets, env>>

InstallNext ==
  \/ \E path \in Path, project \in Project : LoadPath(path, project) \/ Install(path, project)
  \/ \E p \in Plugin : Switch(p) \/ \E project \in Project : ReloadFrom(p, project)

InstallSpec == InstallInit /\ [][InstallNext]_installVars

-----------------------------------------------------------------------------
(* Properties. *)

\* What the sources say is what is installed, with a complete environment of its
\* own, although projects are loaded, and environments made for them, before they
\* are refused or rolled back, and a process may have died over them.
InstalledAsRecorded ==
  \A p \in Plugin :
    /\ Installed(state, p) <=> source[p] # None
    /\ Installed(state, p) =>
         /\ source[p].project.id = p
         /\ source[p].project.module = state.module[p]
         /\ source[p].project.needs => env[Key(source[p].project)] = source[p].project
         /\ assets[p] # None

\* While a plugin stays installed, whatever is found in its directory, wherever
\* else projects claim its id, and however reloads fail, it is never downgraded, its
\* content changes with its version only, and it stays where it was loaded from; and
\* installing something never takes anything from what is installed.
UpgradesOnly ==
  [][ /\ \A p \in Plugin :
           source[p] # None /\ source'[p] # None =>
             /\ source'[p].path = source[p].path
             /\ \/ source'[p].project = source[p].project
                \/ source'[p].project.version > source[p].project.version
      /\ (\E path \in Path, project \in Project : Install(path, project)) =>
           \A p \in Plugin : Installed(state, p) => Share(state, p)' = Share(state, p)
    ]_installVars
=============================================================================
