------------------------------- MODULE Providers -------------------------------
(***************************************************************************)
(* The running instance and the saved configuration of one provider:       *)
(* ProviderManager, the operations of ProviderAdminService, the commands   *)
(* /provider start, stop and reload, which do the same, and the start and  *)
(* the shutdown of the runtime.  Different providers share no state.       *)
(*                                                                         *)
(* The builders of the factory and the file store of configurations never  *)
(* suspend, so an operation runs without interruption up to the close() of *)
(* the instance it has taken out of service, and again after it.  What an  *)
(* operation still has to do after that close is kept in op.               *)
(***************************************************************************)
EXTENDS Integers

CONSTANTS
  Operation,    \* bound: operations under way at the same time
  Version,      \* what a configuration says, apart from enabled
  MaxInstances, \* bound: instances that are ever created
  MaxRestarts,  \* bound
  None

ASSUME ProvidersAssumption ==
  /\ MaxInstances \in Nat /\ MaxRestarts \in Nat
  /\ None \notin [version : Version, enabled : BOOLEAN] /\ None \notin Nat

VARIABLES
  up,        \* the runtime accepts operations
  running,   \* _instances: the instance in service
  created,   \* instances 1 .. created have been built
  state,     \* of an instance: "open", "closed", "failed" to close, "dead" with its process
  config,    \* the configuration an instance was built from
  saved,     \* the configuration in the store
  op,        \* an operation under way: the instance it closes and what it does then
  restarts,
  disturbed  \* history: since the last start something happened after which the
             \*   instance and the store need not agree

providerVars == <<up, running, created, state, config, saved, op, restarts, disturbed>>

Config == [version : Version, enabled : BOOLEAN]
Instance == 1 .. MaxInstances

\* save: the configuration to store when the close has succeeded; pop: close_all
\* takes the instance out of the table only now
Idle == [closes |-> 0, save |-> None, pop |-> FALSE]
Closing(i, c, p) == [closes |-> i, save |-> c, pop |-> p]
Pending == [closes : 0 .. MaxInstances, save : Config \cup {None}, pop : BOOLEAN]

ProvidersTypeOK ==
  /\ up \in BOOLEAN /\ disturbed \in BOOLEAN
  /\ created \in 0 .. MaxInstances
  /\ running \in (1 .. created) \cup {None}
  /\ state \in [Instance -> {"none", "open", "closed", "failed", "dead"}]
  /\ config \in [Instance -> Config \cup {None}]
  /\ \A i \in 1 .. created : config[i] \in Config
  /\ saved \in Config \cup {None}
  /\ op \in [Operation -> Pending]
  /\ restarts \in 0 .. MaxRestarts

Saving == \E o \in Operation : op[o].save # None

ProvidersInit ==
  /\ up = FALSE /\ running = None /\ created = 0
  /\ state = [i \in Instance |-> "none"]
  /\ config = [i \in Instance |-> None]
  /\ saved \in Config \cup {None}
  /\ op = [o \in Operation |-> Idle]
  /\ restarts = 0 /\ disturbed = FALSE

-----------------------------------------------------------------------------
(* Steps that operations are made of. *)

\* ProviderFactory.create and the assignment to _instances
Serve(c) ==
  /\ created < MaxInstances
  /\ created' = created + 1
  /\ running' = created + 1
  /\ state' = [state EXCEPT ![created + 1] = "open"]
  /\ config' = [config EXCEPT ![created + 1] = c]

Untouched == UNCHANGED <<running, created, state, config>>

\* An operation starts; beginning one while another has yet to save what it did
\* disturbs them.
Enter(o) ==
  /\ up /\ op[o] = Idle
  /\ disturbed' = (disturbed \/ Saving)
  /\ UNCHANGED <<up, restarts>>

\* reload_or_add and the upsert of the enabled configuration: at once when nothing
\* ran, else after the old instance is closed
ReloadOrAdd(o, c) ==
  IF running = None
  THEN /\ Serve(c)
       /\ saved' = c
       /\ UNCHANGED op
  ELSE /\ Serve(c)
       /\ op' = [op EXCEPT ![o] = Closing(running, c, FALSE)]
       /\ UNCHANGED saved

\* ProviderManager.remove, and what is saved after it, if anything
Remove(o, c) ==
  /\ running # None
  /\ running' = None
  /\ op' = [op EXCEPT ![o] = Closing(running, c, FALSE)]
  /\ UNCHANGED <<created, state, config>>

-----------------------------------------------------------------------------
(* Operations. *)

UpsertEnabled(o, c) ==
  /\ c.enabled /\ Enter(o)
  /\ ReloadOrAdd(o, c)

UpsertDisabled(o, c) ==
  /\ ~ c.enabled /\ Enter(o)
  /\ \/ Remove(o, c) /\ UNCHANGED saved
     \/ running = None /\ saved' = c /\ Untouched /\ UNCHANGED op

DeleteConfig(o) ==
  /\ saved # None /\ Enter(o)
  /\ saved' = None
  /\ \/ Remove(o, None)
     \/ running = None /\ Untouched /\ UNCHANGED op

StartProvider(o) ==
  /\ saved # None /\ Enter(o)
  /\ ReloadOrAdd(o, [saved EXCEPT !.enabled = TRUE])

\* Faulty: the configuration is not touched.
StopWithoutSaving(o) ==
  /\ Enter(o)
  /\ UNCHANGED saved
  /\ \/ Remove(o, None)
     \/ running = None /\ saved # None /\ Untouched /\ UNCHANGED op

StopProvider(o) ==
  /\ Enter(o)
  /\ saved' = IF saved = None THEN None ELSE [saved EXCEPT !.enabled = FALSE]
  /\ \/ Remove(o, None)
     \/ running = None /\ saved # None /\ Untouched /\ UNCHANGED op

\* Faulty: the old instance is forgotten.
ReloadLeavingOld(o) ==
  LET c == IF saved # None THEN saved ELSE config[running]
  IN  /\ up /\ op[o] = Idle
      /\ saved # None \/ running # None
      /\ Serve(c)
      /\ disturbed' = (disturbed \/ Saving \/ ~ c.enabled)
      /\ UNCHANGED <<up, saved, op, restarts>>

\* reload of the saved configuration or, without one, of the running instance's;
\* a disabled configuration is started, which disturbs what it says
Reload(o) ==
  LET c == IF saved # None THEN saved ELSE config[running]
  IN  /\ up /\ op[o] = Idle
      /\ saved # None \/ running # None
      /\ Serve(c)
      /\ op' = IF running = None THEN op
               ELSE [op EXCEPT ![o] = Closing(running, None, FALSE)]
      /\ disturbed' = (disturbed \/ Saving \/ ~ c.enabled)
      /\ UNCHANGED <<up, saved, restarts>>

\* The factory or the first write to the store raises: the operation ends before it
\* changed anything.
Refused(o) == Enter(o) /\ UNCHANGED <<running, created, state, config, saved, op>>

\* The write that would have followed Serve at once raises: the instance runs, the
\* store does not know.
AddedNotSaved(o) == \E c \in Config :
  /\ up /\ op[o] = Idle
  /\ running = None /\ c.enabled
  /\ Serve(c)
  /\ disturbed' = TRUE
  /\ UNCHANGED <<up, saved, op, restarts>>

-----------------------------------------------------------------------------
(* The end of a close. *)

\* The close succeeds: the operation saves what it has to save.
Closed(o) ==
  /\ op[o].closes # 0
  /\ state' = [state EXCEPT ![op[o].closes] = "closed"]
  /\ saved' = IF op[o].save = None THEN saved ELSE op[o].save
  /\ running' = IF op[o].pop THEN None ELSE running
  /\ op' = [op EXCEPT ![o] = Idle]
  /\ UNCHANGED <<up, created, config, restarts, disturbed>>

\* The close raises, or the write after it does: the operation ends there, and
\* close_all collects the error and goes on.
CloseFails(o) ==
  /\ op[o].closes # 0
  /\ \E s \in {"closed", "failed"} : state' = [state EXCEPT ![op[o].closes] = s]
  /\ running' = IF op[o].pop THEN None ELSE running
  /\ disturbed' = (disturbed \/ op[o].save # None)
  /\ op' = [op EXCEPT ![o] = Idle]
  /\ UNCHANGED <<up, created, config, saved, restarts>>

-----------------------------------------------------------------------------
(* The process. *)

\* runtime.close at the end of the server's lifespan, when no request is left; the
\* instance stays in the table while close_all awaits its close
Shutdown(o) ==
  /\ up /\ \A p \in Operation : op[p] = Idle
  /\ up' = FALSE
  /\ op' = IF running = None THEN op ELSE [op EXCEPT ![o] = Closing(running, None, TRUE)]
  /\ UNCHANGED <<running, created, state, config, saved, restarts, disturbed>>

Dead == [i \in Instance |-> IF state[i] = "open" THEN "dead" ELSE state[i]]

\* The process ends, by itself or not, and is started again: what was enabled is
\* built from the store.
Restart ==
  /\ restarts < MaxRestarts
  /\ restarts' = restarts + 1
  /\ up' = TRUE /\ disturbed' = FALSE
  /\ op' = [o \in Operation |-> Idle]
  /\ IF saved # None /\ saved.enabled
     THEN /\ created < MaxInstances
          /\ created' = created + 1
          /\ running' = created + 1
          /\ state' = [Dead EXCEPT ![created + 1] = "open"]
          /\ config' = [config EXCEPT ![created + 1] = saved]
     ELSE running' = None /\ state' = Dead /\ UNCHANGED <<created, config>>
  /\ UNCHANGED saved

ProvidersNext ==
  \/ \E o \in Operation :
       \/ \E c \in Config : UpsertEnabled(o, c) \/ UpsertDisabled(o, c)
       \/ DeleteConfig(o) \/ StartProvider(o) \/ StopProvider(o) \/ Reload(o) \/ Refused(o)
       \/ AddedNotSaved(o) \/ Closed(o) \/ CloseFails(o) \/ Shutdown(o)
  \/ Restart

ProvidersSpec == ProvidersInit /\ [][ProvidersNext]_providerVars

-----------------------------------------------------------------------------
(* Properties. *)

Closers(i) == {o \in Operation : op[o].closes = i}

\* Every instance that was built is in service, or is being closed by exactly one
\* operation, or has been closed: however operations overlap and fail, no client is
\* leaked, none is closed twice, and none is in service after its close has begun,
\* except while close_all empties the table.
OwnedOnce == \A i \in 1 .. created :
  IF state[i] = "open"
  THEN /\ running = i \/ Closers(i) # {}
       /\ \A o, p \in Closers(i) : o = p
       /\ \A o \in Closers(i) : running = i <=> op[o].pop
  ELSE running # i /\ Closers(i) = {}

\* The table is as configuration c demands.
Fits(c) == IF c # None /\ c.enabled THEN running # None /\ config[running] = c ELSE running = None

\* When no operation has a configuration left to save, the provider runs exactly if
\* the saved configuration is enabled, and was built from it.  A factory or a store
\* that fails before the table is touched does no harm, nor does a failed close of an
\* operation with nothing to save; what does harm is listed by disturbed: an
\* operation that begins while another has to save, one that is cut off before it
\* could, and a reload of a disabled provider.
InStep == up /\ ~ disturbed /\ ~ Saving => Fits(saved)

=============================================================================
