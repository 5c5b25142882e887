----------------------------- MODULE ManagedTasks -----------------------------
(***************************************************************************)
(* The table _managed_tasks of the plugin task scheduler                   *)
(* (application/plugins/tasks.py) inside one process: which coroutine runs *)
(* a task id, and who cancels it when a plugin is reloaded, a task is      *)
(* canceled or retried, or the scheduler is shut down.                     *)
(*                                                                         *)
(* A table entry is written when a coroutine is created and removed, by    *)
(* id, when any coroutine of that id is done.  The removal is a callback   *)
(* that the event loop runs later, so it can meet an entry that has been   *)
(* replaced in the meantime.  A step here is the code between two awaits.  *)
(*                                                                         *)
(* One plugin with one definition that has a declared loop and one-shot    *)
(* tasks.  Leases, semaphores and outcomes are left to module TaskLeases.  *)
(***************************************************************************)
EXTENDS Naturals, FiniteSets

CONSTANTS
  Task,        \* one-shot task instances
  Coro,        \* bound: a pool of coroutine identities
  MaxReloads,  \* bound: plugin reloads
  MaxRetries,  \* bound: failed executions that have attempts left
  None

VARIABLES
  phase,       \* "new", "started" or "stopped"
  managed,     \* _managed_tasks: the coroutine tracked under an id
  id, pc,      \* the id a coroutine was tracked under, and where it stands
  read,        \* the rows a restore coroutine has read
  parent,      \* the run that created a retry coroutine
  scanned,     \* the rows the scan loop has read and not looked at yet
  cancelling,  \* coroutines cancel() has taken from the table and not stopped yet
  row,         \* the status of a task's row
  reloads, retries

vars == <<phase, managed, id, pc, read, parent, scanned, cancelling, row, reloads, retries>>

Loop == [kind |-> "loop", task |-> None]
Restore == [kind |-> "restore", task |-> None]
Run(t) == [kind |-> "run", task |-> t]
Retry(t) == [kind |-> "retry", task |-> t]

Ids == {Loop, Restore} \cup {Run(t) : t \in Task} \cup {Retry(t) : t \in Task}

ASSUME ManagedAssumption ==
  MaxReloads \in Nat /\ MaxRetries \in Nat /\ None \notin Coro \cup Task \cup Ids

Active == {"sleeping", "executing", "retrying", "reading", "adopting"}

TypeOK ==
  /\ phase \in {"new", "started", "stopped"}
  /\ managed \in [Ids -> Coro \cup {None}]
  /\ id \in [Coro -> Ids \cup {None}]
  /\ pc \in [Coro -> Active \cup {"free", "unwinding", "done"}]
  /\ read \in [Coro -> SUBSET Task]
  /\ parent \in [Coro -> Coro \cup {None}]
  /\ scanned \subseteq Task
  /\ cancelling \in [Task -> SUBSET Coro]
  /\ row \in [Task -> {"absent", "pending", "running", "closed"}]
  /\ reloads \in 0 .. MaxReloads /\ retries \in 0 .. MaxRetries

Init ==
  /\ phase = "new"
  /\ managed = [i \in Ids |-> None]
  /\ id = [c \in Coro |-> None]
  /\ pc = [c \in Coro |-> "free"]
  /\ read = [c \in Coro |-> {}]
  /\ parent = [c \in Coro |-> None]
  /\ scanned = {}
  /\ cancelling = [t \in Task |-> {}]
  /\ row = [t \in Task |-> "absent"]
  /\ reloads = 0 /\ retries = 0

\* Identities nothing refers to any more.
Free ==
  {c \in Coro : /\ pc[c] = "free"
               /\ \A t \in Task : c \notin cancelling[t]
               /\ \A d \in Coro : parent[d] # c}

-----------------------------------------------------------------------------
(* Creating, tracking and cancelling coroutines. *)

Beginning(i) == IF i.kind = "restore" THEN "reading" ELSE "sleeping"

\* create_task and _track_managed_task for the coroutines f[i], i \in DOMAIN f,
\* over the program counters p and the table m
Created(f, p) ==
  [c \in Coro |-> IF \E i \in DOMAIN f : f[i] = c
                  THEN Beginning(CHOOSE i \in DOMAIN f : f[i] = c) ELSE p[c]]
Named(f) ==
  [c \in Coro |-> IF \E i \in DOMAIN f : f[i] = c
                  THEN CHOOSE i \in DOMAIN f : f[i] = c ELSE id[c]]
Tracked(f, m) == [i \in Ids |-> IF i \in DOMAIN f THEN f[i] ELSE m[i]]

\* Distinct fresh coroutines for the ids in I, as a set of one function, or of none
\* when the pool is used up; which coroutines they are makes no difference.
Injections(I) == {f \in [I -> Free] : \A i, j \in I : f[i] = f[j] => i = j}
Fresh(I) == IF Injections(I) = {} THEN {} ELSE {CHOOSE f \in Injections(I) : TRUE}

Handles == {managed[i] : i \in Ids} \ {None}
NoEntries == [i \in Ids |-> None]

\* Faulty: unregister_plugin forgets the coroutines and cancels none.
NotCancelled(C) == pc

\* task.cancel() for each c in C; a coroutine that is done stays done
Cancelled(C) == [c \in Coro |-> IF c \in C /\ pc[c] \in Active THEN "unwinding" ELSE pc[c]]

-----------------------------------------------------------------------------
(* The life of the scheduler. *)

\* start: the declared loop and the restore of unfinished rows
Start ==
  /\ phase = "new"
  /\ phase' = "started"
  /\ \E f \in Fresh({i \in {Loop, Restore} : managed[i] = None}) :
       /\ managed' = Tracked(f, managed)
       /\ id' = Named(f) /\ pc' = Created(f, pc)
  /\ UNCHANGED <<read, parent, scanned, cancelling, row, reloads, retries>>

\* shutdown, up to the gather that waits for the cancelled coroutines
Shutdown ==
  /\ phase = "started"
  /\ phase' = "stopped"
  /\ managed' = NoEntries
  /\ pc' = Cancelled(Handles)
  /\ scanned' = {}
  /\ UNCHANGED <<id, read, parent, cancelling, row, reloads, retries>>

\* PluginHost.reload: unregister_plugin, then register_task, with no await
Reload ==
  /\ phase = "started"
  /\ reloads < MaxReloads
  /\ reloads' = reloads + 1
  /\ \E f \in Fresh({Loop, Restore}) :
       /\ managed' = Tracked(f, NoEntries)
       /\ id' = Named(f)
       /\ pc' = Created(f, Cancelled(Handles))
  /\ UNCHANGED <<phase, read, parent, scanned, cancelling, row, retries>>

-----------------------------------------------------------------------------
(* Scheduling one-shot tasks. *)

\* _schedule_task_record for each task of S that has no entry
Adopted(S) == {Run(t) : t \in {u \in S : managed[Run(u)] = None}}

\* schedule_once, which does not ask whether the scheduler is started
ScheduleOnce(t) ==
  /\ row[t] = "absent"
  /\ row' = [row EXCEPT ![t] = "pending"]
  /\ \E f \in Fresh({Run(t)}) :
       managed' = Tracked(f, managed) /\ id' = Named(f) /\ pc' = Created(f, pc)
  /\ UNCHANGED <<phase, read, parent, scanned, cancelling, reloads, retries>>

\* Rows the scan may list: pending ones once they are due, and running ones whose
\* lease ran out because no coroutine is executing them.
Listable ==
  {t \in Task : \/ row[t] = "pending"
                \/ row[t] = "running" /\ \A c \in Coro : id[c] = Run(t) => pc[c] # "executing"}

ScanRead ==
  /\ phase = "started" /\ scanned = {}
  /\ scanned' \in SUBSET Listable \ {{}}
  /\ UNCHANGED <<phase, managed, id, pc, read, parent, cancelling, row, reloads, retries>>

ScanAdopt ==
  /\ scanned # {}
  /\ scanned' = {}
  /\ \E f \in Fresh(Adopted(scanned)) :
       managed' = Tracked(f, managed) /\ id' = Named(f) /\ pc' = Created(f, pc)
  /\ UNCHANGED <<phase, read, parent, cancelling, row, reloads, retries>>

\* _restore_pending_tasks
RestoreRead(c) ==
  /\ pc[c] = "reading"
  /\ pc' = [pc EXCEPT ![c] = "adopting"]
  /\ read' = [read EXCEPT ![c] = {t \in Task : row[t] \in {"pending", "running"}}]
  /\ UNCHANGED <<phase, managed, id, parent, scanned, cancelling, row, reloads, retries>>

RestoreAdopt(c) ==
  /\ pc[c] = "adopting"
  /\ read' = [read EXCEPT ![c] = {}]
  /\ \E f \in Fresh(Adopted(read[c])) :
       /\ managed' = Tracked(f, managed)
       /\ id' = Named(f)
       /\ pc' = [Created(f, pc) EXCEPT ![c] = "done"]
  /\ UNCHANGED <<phase, parent, scanned, cancelling, row, reloads, retries>>

-----------------------------------------------------------------------------
(* What the coroutines do. *)

\* A declared loop wakes up, executes, and looks at _started before it sleeps again.
LoopWake(c) ==
  /\ id[c] = Loop /\ pc[c] = "sleeping"
  /\ pc' = [pc EXCEPT ![c] = "executing"]
  /\ UNCHANGED <<phase, managed, id, read, parent, scanned, cancelling, row, reloads, retries>>

\* Faulty: the loop does not look at _started.
EndlessRound(c) ==
  /\ id[c] = Loop /\ pc[c] = "executing"
  /\ pc' = [pc EXCEPT ![c] = "sleeping"]
  /\ UNCHANGED <<phase, managed, id, read, parent, scanned, cancelling, row, reloads, retries>>

LoopRound(c) ==
  /\ id[c] = Loop /\ pc[c] = "executing"
  /\ pc' = [pc EXCEPT ![c] = IF phase = "started" THEN "sleeping" ELSE "done"]
  /\ UNCHANGED <<phase, managed, id, read, parent, scanned, cancelling, row, reloads, retries>>

\* A run claims its row.  The row's lease, if any, is this process's own.
RunClaim(c, t) ==
  /\ id[c] = Run(t) /\ pc[c] = "sleeping"
  /\ IF row[t] \in {"pending", "running"}
     THEN pc' = [pc EXCEPT ![c] = "executing"] /\ row' = [row EXCEPT ![t] = "running"]
     ELSE pc' = [pc EXCEPT ![c] = "done"] /\ UNCHANGED row
  /\ UNCHANGED <<phase, managed, id, read, parent, scanned, cancelling, reloads, retries>>

RunEnd(c, t) ==
  /\ id[c] = Run(t) /\ pc[c] = "executing"
  /\ pc' = [pc EXCEPT ![c] = "done"]
  /\ row' = [row EXCEPT ![t] = "closed"]
  /\ UNCHANGED <<phase, managed, id, read, parent, scanned, cancelling, reloads, retries>>

\* _reschedule_retry: the row first, which only a canceled or completed row resists
RunFail(c, t) ==
  /\ id[c] = Run(t) /\ pc[c] = "executing"
  /\ retries < MaxRetries
  /\ retries' = retries + 1
  /\ pc' = [pc EXCEPT ![c] = "retrying"]
  /\ row' = [row EXCEPT ![t] = IF @ = "closed" THEN @ ELSE "pending"]
  /\ UNCHANGED <<phase, managed, id, read, parent, scanned, cancelling, reloads>>

\* then the retry coroutine, under an id of its own
RunRetry(c, t) ==
  /\ id[c] = Run(t) /\ pc[c] = "retrying"
  /\ \E f \in Fresh({Retry(t)}) :
       /\ managed' = Tracked(f, managed)
       /\ id' = Named(f)
       /\ pc' = [Created(f, pc) EXCEPT ![c] = "done"]
       /\ parent' = [parent EXCEPT ![f[Retry(t)]] = c]
  /\ UNCHANGED <<phase, read, scanned, cancelling, row, reloads, retries>>

\* _schedule_retry_after_current_task.  The callback of the run that failed comes
\* first: it was queued before the wakeup from sleep(0).
RetryPop(c, t) ==
  /\ id[c] = Retry(t) /\ pc[c] = "sleeping"
  /\ parent[c] # None /\ pc[parent[c]] # "done"
  /\ parent' = [parent EXCEPT ![c] = None]
  /\ IF phase = "started"
     THEN \E f \in Fresh({Run(t)}) :
            /\ managed' = Tracked(f, managed)
            /\ id' = Named(f)
            /\ pc' = [Created(f, pc) EXCEPT ![c] = "done"]
     ELSE pc' = [pc EXCEPT ![c] = "done"] /\ UNCHANGED <<managed, id>>
  /\ UNCHANGED <<phase, read, scanned, cancelling, row, reloads, retries>>

-----------------------------------------------------------------------------
(* Cancelling and finishing. *)

\* cancel: the entry is popped at once, the row and the coroutine follow a store
\* call later
CancelPop(t) ==
  /\ managed[Run(t)] # None
  /\ managed' = [managed EXCEPT ![Run(t)] = None]
  /\ cancelling' = [cancelling EXCEPT ![t] = @ \cup {managed[Run(t)]}]
  /\ UNCHANGED <<phase, id, pc, read, parent, scanned, row, reloads, retries>>

CancelStop(c, t) ==
  /\ c \in cancelling[t]
  /\ cancelling' = [cancelling EXCEPT ![t] = @ \ {c}]
  /\ pc' = Cancelled({c})
  /\ row' = [row EXCEPT ![t] = "closed"]
  /\ UNCHANGED <<phase, managed, id, read, parent, scanned, reloads, retries>>

\* CancelledError has passed through the handler's cleanup.
Unwind(c) ==
  /\ pc[c] = "unwinding"
  /\ pc' = [pc EXCEPT ![c] = "done"]
  /\ read' = [read EXCEPT ![c] = {}]
  /\ parent' = [parent EXCEPT ![c] = None]
  /\ UNCHANGED <<phase, managed, id, scanned, cancelling, row, reloads, retries>>

\* The done callback, _forget_task: by id, whichever coroutine the entry holds
Forget(c) ==
  /\ pc[c] = "done"
  /\ pc' = [pc EXCEPT ![c] = "free"]
  /\ managed' = [managed EXCEPT ![id[c]] = None]
  /\ id' = [id EXCEPT ![c] = None]
  /\ UNCHANGED <<phase, read, parent, scanned, cancelling, row, reloads, retries>>

-----------------------------------------------------------------------------
Step(c) ==
  \/ RestoreRead(c) \/ RestoreAdopt(c) \/ LoopWake(c) \/ LoopRound(c)
  \/ Unwind(c) \/ Forget(c)
  \/ \E t \in Task :
       CancelStop(c, t) \/ RunClaim(c, t) \/ RunEnd(c, t) \/ RunFail(c, t) \/ RunRetry(c, t) \/ RetryPop(c, t)

Next ==
  \/ Start \/ Shutdown \/ Reload \/ ScanRead \/ ScanAdopt
  \/ \E t \in Task : ScheduleOnce(t) \/ CancelPop(t)
  \/ \E c \in Coro : Step(c)

Spec == Init /\ [][Next]_vars

\* Every coroutine that can run does; handlers end.
FairSpec == Spec /\ WF_vars(ScanAdopt) /\ \A c \in Coro : WF_vars(Step(c))

-----------------------------------------------------------------------------
(* Properties. *)

\* An entry of the table is a coroutine of that id whose done callback is still
\* to come.  A stale entry would keep its id from ever being scheduled again:
\* _schedule_task_record and _schedule_declared_task skip ids in the table.
EntryIsLive ==
  \A i \in Ids : managed[i] # None =>
    id[managed[i]] = i /\ pc[managed[i]] # "free"

\* A definition's declared loop runs at most once: unregister_plugin says it
\* cancels the plugin's unfinished tasks, so a reload leaves only the new loop.
OneLoop ==
  \A c, d \in Coro :
    id[c] = Loop /\ id[d] = Loop /\ pc[c] \in Active /\ pc[d] \in Active => c = d

\* What a reload relies on: it cancels what it finds in the table.
TableHolds == EntryIsLive /\ OneLoop

\* After shutdown every coroutine ends, also one that the table has lost and
\* nobody cancels: loops and retries look at _started.
Quiesces == phase = "stopped" ~> \A c \in Coro : pc[c] = "free"

=============================================================================
