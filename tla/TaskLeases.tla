------------------------------ MODULE TaskLeases ------------------------------
(***************************************************************************)
(* The one-shot plugin tasks of application/plugins/tasks.py, run by       *)
(* several worker processes over one SQLite table of task instances        *)
(* (infra/adapters/plugins/sqlite/task_store.py).                          *)
(*                                                                         *)
(* A worker lists runnable rows, adopts each one as a coroutine, claims    *)
(* the row by a conditional UPDATE that grants it a lease, waits for the   *)
(* concurrency semaphores, executes the plugin's handler while a heartbeat *)
(* extends the lease, and writes the outcome.  A store call and the code   *)
(* up to the next await are one step.                                      *)
(*                                                                         *)
(* Time is abstracted: row.due says that run_at has passed and row.lease   *)
(* whether lease_expires_at has; both change by steps of their own.  A     *)
(* worker has at most one coroutine per task id, as _managed_tasks intends *)
(* (module ManagedTasks looks at how that table is kept).                  *)
(***************************************************************************)
EXTENDS Naturals, FiniteSets

CONSTANTS
  Worker,            \* processes that share the table
  Task,              \* ids of task instances, all of one task definition
  MaxAttempts,       \* max_retries + 1
  Slots,             \* max_concurrent_tasks: the global semaphore of a worker
  TaskSlots,         \* max_concurrent_runs: the definition's own semaphore
  Loops, OwnLoops,   \* interval/daily tasks, and those of the tasks' own definition
  Busy,              \* bound: workers whose declared tasks run
  Cancellers,        \* bound: workers that receive cancel requests
  MaxStops,          \* bound: how often a worker stops, crashes or has a claim or verdict raise
  HeartbeatsOnTime,  \* no event loop stalls for half a lease, no heartbeat raises
  ClaimsRaiseAlone,  \* a claim that raises would have succeeded
  WaitsAreShort,     \* no claimed task waits for the semaphores for a whole lease
  StableOwner,       \* lease_owner is configured and survives a restart
  NoOwner, Departed, \* no lease; a lease whose owner's identity is gone
  NotListed

ASSUME ConstantsAssumption ==
  /\ MaxAttempts \in Nat \ {0}
  /\ Slots \in Nat \ {0}
  /\ TaskSlots \in Nat \ {0}
  /\ OwnLoops \subseteq Loops /\ IsFiniteSet(Loops)
  /\ MaxStops \in Nat
  /\ HeartbeatsOnTime \in BOOLEAN
  /\ WaitsAreShort \in BOOLEAN
  /\ ClaimsRaiseAlone \in BOOLEAN
  /\ StableOwner \in BOOLEAN
  /\ IsFiniteSet(Task)
  /\ NoOwner \notin Worker /\ Departed \notin Worker /\ NoOwner # Departed
  /\ NotListed \notin Nat

VARIABLES
  row,         \* the shared table: one instance per task id
  up,          \* _started
  restoring,   \* the restore coroutine has not read the table yet
  listed,      \* what a scan or restore read and has not looked at yet
  run,         \* where the coroutine that runs a task in a worker stands
  attempt,     \* the attempt number in that coroutine's copy of the row
  declared,    \* declared loops that are executing
  cancelling,  \* cancel() has written the row, not yet stopped the coroutine
  stops

vars == <<row, up, restoring, listed, run, attempt, declared, cancelling, stops>>
volatile == <<up, restoring, listed, run, attempt, declared, cancelling, stops>>

Attempts == 0 .. MaxAttempts - 1
Statuses == {"absent", "pending", "running", "completed", "failed", "canceled"}
Live == {"pending", "running"}
RunStates == {"none", "waiting", "queued", "admitted", "running"}
Taken == {"queued", "admitted", "running"}   \* from the claim to the outcome

TypeOK ==
  /\ row \in [Task -> [status : Statuses, owner : Worker \cup {NoOwner, Departed},
                       lease : {"none", "live", "expired"},
                       attempt : Attempts, due : BOOLEAN]]
  /\ up \in [Worker -> BOOLEAN]
  /\ restoring \in [Worker -> BOOLEAN]
  /\ listed \in [Worker -> [Task -> Attempts \cup {NotListed}]]
  /\ run \in [Worker -> [Task -> RunStates]]
  /\ attempt \in [Worker -> [Task -> Attempts]]
  /\ declared \in [Worker -> SUBSET Loops]
  /\ cancelling \in [Worker -> SUBSET Task]
  /\ stops \in 0 .. MaxStops

Nothing == [t \in Task |-> NotListed]

Init ==
  /\ row = [t \in Task |-> [status |-> "absent", owner |-> NoOwner, lease |-> "none",
                            attempt |-> 0, due |-> FALSE]]
  /\ up = [w \in Worker |-> FALSE]
  /\ restoring = [w \in Worker |-> FALSE]
  /\ listed = [w \in Worker |-> Nothing]
  /\ run = [w \in Worker |-> [t \in Task |-> "none"]]
  /\ attempt = [w \in Worker |-> [t \in Task |-> 0]]
  /\ declared = [w \in Worker |-> {}]
  /\ cancelling = [w \in Worker |-> {}]
  /\ stops = 0

-----------------------------------------------------------------------------
(* What the statements of the task store write. *)

\* add_task
AddedRow(d) ==
  [status |-> "pending", owner |-> NoOwner, lease |-> "none", attempt |-> 0, due |-> d]

\* Faulty: the status changes and the lease stays on the row.
SettledRowKeepsLease(t, status) == [row[t] EXCEPT !.status = status]

\* update_task_status: whatever the row holds, and whoever owns it
SettledRow(t, status) ==
  [row[t] EXCEPT !.status = status, !.owner = NoOwner, !.lease = "none"]

\* cancel_task
CanceledRow(t) ==
  IF row[t].status \in Live THEN SettledRow(t, "canceled") ELSE row[t]

\* Faulty: reschedule without the status filter.
RescheduledRowAlways(t, a) ==
  [status |-> "pending", owner |-> NoOwner, lease |-> "none", attempt |-> a, due |-> FALSE]

\* reschedule_task: not by owner, and a failed row is reopened
RescheduledRow(t, a) ==
  IF row[t].status \in Live \cup {"failed"}
  THEN [status |-> "pending", owner |-> NoOwner, lease |-> "none", attempt |-> a, due |-> FALSE]
  ELSE row[t]

\* Faulty: the claim looks at the status only.
ClaimableByAnyone(w, t) == row[t].status \in Live

\* claim_task: run_at is not looked at
Claimable(w, t) ==
  /\ row[t].status \in Live
  /\ row[t].owner \in {NoOwner, w} \/ row[t].lease = "expired"

ClaimedRow(w, t) ==
  [row[t] EXCEPT !.status = "running", !.owner = w, !.lease = "live"]

\* Faulty: rows whose lease ran out are not listed.
RunnableIfPending(t) == row[t].status = "pending" /\ row[t].due

\* list_runnable_tasks
Runnable(t) ==
  \/ row[t].status = "pending" /\ row[t].due
  \/ row[t].status = "running" /\ row[t].lease = "expired"

-----------------------------------------------------------------------------
(* The semaphores of _execute: the global one first, then the definition's. *)

GlobalHolders(w) == {t \in Task : run[w][t] \in {"admitted", "running"}}
TaskHolders(w) == {t \in Task : run[w][t] = "running"}

GlobalFree(w) == Cardinality(GlobalHolders(w)) + Cardinality(declared[w]) < Slots
TaskFree(w) == Cardinality(TaskHolders(w)) + Cardinality(declared[w] \cap OwnLoops) < TaskSlots

Entry(w) ==
  IF ~GlobalFree(w) THEN "queued" ELSE IF ~TaskFree(w) THEN "admitted" ELSE "running"

\* The coroutine is done, and with it the cancel() that may be about to stop it.
RunGoesTo(w, t, state) ==
  /\ run' = [run EXCEPT ![w][t] = state]
  /\ cancelling' = [cancelling EXCEPT ![w] = @ \ {t}]

-----------------------------------------------------------------------------
(* Workers come and go. *)

\* start, and the restore coroutine it creates
Start(w) ==
  /\ ~up[w]
  /\ up' = [up EXCEPT ![w] = TRUE]
  /\ restoring' = [restoring EXCEPT ![w] = TRUE]
  /\ UNCHANGED <<row, listed, run, attempt, declared, cancelling, stops>>

\* shutdown, or a crash: every coroutine is gone and the rows keep their leases
Stop(w) ==
  /\ up[w]
  /\ stops < MaxStops
  /\ stops' = stops + 1
  /\ up' = [up EXCEPT ![w] = FALSE]
  /\ restoring' = [restoring EXCEPT ![w] = FALSE]
  /\ listed' = [listed EXCEPT ![w] = Nothing]
  /\ run' = [run EXCEPT ![w] = [t \in Task |-> "none"]]
  /\ declared' = [declared EXCEPT ![w] = {}]
  /\ cancelling' = [cancelling EXCEPT ![w] = {}]
  /\ row' = IF StableOwner THEN row
            ELSE [t \in Task |-> [row[t] EXCEPT !.owner = IF @ = w THEN Departed ELSE @]]
  /\ UNCHANGED attempt

-----------------------------------------------------------------------------
(* Scheduling. *)

\* schedule_once (and retry_task, which calls it under a fresh id)
Schedule(w, t, due) ==
  /\ up[w]
  /\ row[t].status = "absent"
  /\ row' = [row EXCEPT ![t] = AddedRow(due)]
  /\ run' = [run EXCEPT ![w][t] = "waiting"]
  /\ attempt' = [attempt EXCEPT ![w][t] = 0]
  /\ UNCHANGED <<up, restoring, listed, declared, cancelling, stops>>

\* The query of _scan_runnable_tasks; its result is looked at in a later step.
Scan(w) ==
  /\ up[w]
  /\ listed[w] = Nothing
  /\ \E t \in Task : Runnable(t)
  /\ listed' = [listed EXCEPT ![w] =
       [t \in Task |-> IF Runnable(t) THEN row[t].attempt ELSE NotListed]]
  /\ UNCHANGED <<row, up, restoring, run, attempt, declared, cancelling, stops>>

\* The query of _restore_pending_tasks: every unfinished row, leased or not.
Restore(w) ==
  /\ up[w]
  /\ restoring[w]
  /\ listed[w] = Nothing
  /\ restoring' = [restoring EXCEPT ![w] = FALSE]
  /\ listed' = [listed EXCEPT ![w] =
       [t \in Task |-> IF row[t].status \in Live THEN row[t].attempt ELSE NotListed]]
  /\ UNCHANGED <<row, up, run, attempt, declared, cancelling, stops>>

\* What was listed is scheduled, unless the task is managed already.
Adopts(w, t) == listed[w][t] # NotListed /\ run[w][t] = "none"

Adopt(w) ==
  /\ listed[w] # Nothing
  /\ listed' = [listed EXCEPT ![w] = Nothing]
  /\ run' = [run EXCEPT ![w] = [t \in Task |-> IF Adopts(w, t) THEN "waiting" ELSE @[t]]]
  /\ attempt' = [attempt EXCEPT ![w] =
                   [t \in Task |-> IF Adopts(w, t) THEN listed[w][t] ELSE @[t]]]
  /\ UNCHANGED <<row, up, restoring, declared, cancelling, stops>>

-----------------------------------------------------------------------------
(* _run_scheduled_task_record. *)

\* The run_at in the coroutine's copy has passed: the row's own flag says so
\* unless the row was claimed, settled or rescheduled since the copy was made.
Awake(w, t) ==
  row[t].due \/ row[t].status # "pending" \/ row[t].attempt # attempt[w][t]

Claim(w, t) ==
  /\ run[w][t] = "waiting"
  /\ Awake(w, t)
  /\ Claimable(w, t)
  /\ row' = [row EXCEPT ![t] = ClaimedRow(w, t)]
  /\ run' = [run EXCEPT ![w][t] = Entry(w)]
  /\ UNCHANGED <<up, restoring, listed, attempt, declared, cancelling, stops>>

ClaimLost(w, t) ==
  /\ run[w][t] = "waiting"
  /\ Awake(w, t)
  /\ ~Claimable(w, t)
  /\ RunGoesTo(w, t, "none")
  /\ UNCHANGED <<row, up, restoring, listed, attempt, declared, stops>>

\* A slot of the global semaphore, then one of the task's.
Admit(w, t) ==
  /\ run[w][t] = "queued"
  /\ GlobalFree(w)
  /\ run' = [run EXCEPT ![w][t] = Entry(w)]
  /\ UNCHANGED <<row, up, restoring, listed, attempt, declared, cancelling, stops>>

Begin(w, t) ==
  /\ run[w][t] = "admitted"
  /\ TaskFree(w)
  /\ run' = [run EXCEPT ![w][t] = "running"]
  /\ UNCHANGED <<row, up, restoring, listed, attempt, declared, cancelling, stops>>

\* _heartbeat_loop runs only inside _execute_with_timeout; a row that is not the
\* worker's is left as it is.
Heartbeat(w, t) ==
  /\ run[w][t] = "running"
  /\ row[t].status = "running" /\ row[t].owner = w
  /\ row' = [row EXCEPT ![t].lease = "live"]
  /\ UNCHANGED volatile

Complete(w, t) ==
  /\ run[w][t] = "running"
  /\ row' = [row EXCEPT ![t] = SettledRow(t, "completed")]
  /\ RunGoesTo(w, t, "none")
  /\ UNCHANGED <<up, restoring, listed, attempt, declared, stops>>

\* The handler raised or timed out, or it succeeded and the update to completed
\* raised, and _reschedule_retry has attempts left.
Retry(w, t) ==
  /\ run[w][t] = "running"
  /\ attempt[w][t] + 1 < MaxAttempts
  /\ row' = [row EXCEPT ![t] = RescheduledRow(t, attempt[w][t] + 1)]
  /\ attempt' = [attempt EXCEPT ![w][t] = @ + 1]
  /\ RunGoesTo(w, t, "waiting")
  /\ UNCHANGED <<up, restoring, listed, declared, stops>>

Fail(w, t) ==
  /\ run[w][t] = "running"
  /\ attempt[w][t] + 1 >= MaxAttempts
  /\ row' = [row EXCEPT ![t] = SettledRow(t, "failed")]
  /\ RunGoesTo(w, t, "none")
  /\ UNCHANGED <<up, restoring, listed, attempt, declared, stops>>

\* The update that is to record a failure or a retry raises as well, and the
\* coroutine is gone: the row stays as it is.
Abandon(w, t) ==
  /\ run[w][t] \in {"waiting", "running"}
  /\ Awake(w, t)
  /\ stops < MaxStops
  /\ stops' = stops + 1
  /\ RunGoesTo(w, t, "none")
  /\ UNCHANGED <<row, up, restoring, listed, attempt, declared>>

\* claim_task raises and is handled as a failed handler is, although the row may
\* be settled or in the hands of another worker.
ClaimRaises(w, t) ==
  /\ run[w][t] = "waiting"
  /\ Awake(w, t)
  /\ ClaimsRaiseAlone => Claimable(w, t)
  /\ stops < MaxStops
  /\ stops' = stops + 1
  /\ IF attempt[w][t] + 1 < MaxAttempts
     THEN /\ row' = [row EXCEPT ![t] = RescheduledRow(t, attempt[w][t] + 1)]
          /\ attempt' = [attempt EXCEPT ![w][t] = @ + 1]
          /\ RunGoesTo(w, t, "waiting")
     ELSE /\ row' = [row EXCEPT ![t] = SettledRow(t, "failed")]
          /\ RunGoesTo(w, t, "none")
          /\ UNCHANGED attempt
  /\ UNCHANGED <<up, restoring, listed, declared>>

\* cancel: the row first, then, a store call later, this worker's coroutine.
Cancel(w, t) ==
  /\ w \in Cancellers /\ up[w]
  /\ row[t].status # "absent"
  /\ t \notin cancelling[w]
  /\ row' = [row EXCEPT ![t] = CanceledRow(t)]
  /\ cancelling' = IF run[w][t] = "none" THEN cancelling
                   ELSE [cancelling EXCEPT ![w] = @ \cup {t}]
  /\ UNCHANGED <<up, restoring, listed, run, attempt, declared, stops>>

CancelRun(w, t) ==
  /\ t \in cancelling[w]
  /\ RunGoesTo(w, t, "none")
  /\ UNCHANGED <<row, up, restoring, listed, attempt, declared, stops>>

\* _execute_declared_once: a declared task goes through the same semaphores.
\* It starts when it gets them; its waiting is not modelled.
DeclaredStart(w, l) ==
  /\ w \in Busy /\ up[w]
  /\ l \notin declared[w]
  /\ GlobalFree(w)
  /\ l \in OwnLoops => TaskFree(w)
  /\ declared' = [declared EXCEPT ![w] = @ \cup {l}]
  /\ UNCHANGED <<row, up, restoring, listed, run, attempt, cancelling, stops>>

DeclaredEnd(w, l) ==
  /\ l \in declared[w]
  /\ declared' = [declared EXCEPT ![w] = @ \ {l}]
  /\ UNCHANGED <<row, up, restoring, listed, run, attempt, cancelling, stops>>

-----------------------------------------------------------------------------
(* Time passes. *)

BecomeDue(t) ==
  /\ row[t].status = "pending" /\ ~row[t].due
  /\ row' = [row EXCEPT ![t].due = TRUE]
  /\ UNCHANGED volatile

\* A heartbeat comes every half lease, so the lease of a handler that is
\* executing does not run out unless the event loop stalls.  The lease of a task
\* that waits for a semaphore runs, and lasts if the wait is short.
Lasts(t) ==
  \E w \in Worker :
    /\ row[t].owner = w
    /\ \/ HeartbeatsOnTime /\ run[w][t] = "running"
       \/ WaitsAreShort /\ run[w][t] \in Taken \ {"running"}

Expire(t) ==
  /\ row[t].lease = "live"
  /\ ~Lasts(t)
  /\ row' = [row EXCEPT ![t].lease = "expired"]
  /\ UNCHANGED volatile

-----------------------------------------------------------------------------
RunStep(w, t) ==
  \/ Claim(w, t) \/ ClaimLost(w, t) \/ Admit(w, t) \/ Begin(w, t) \/ Heartbeat(w, t)
  \/ Complete(w, t) \/ Retry(w, t) \/ Fail(w, t) \/ CancelRun(w, t)
  \/ ClaimRaises(w, t) \/ Abandon(w, t)

Next ==
  \/ \E w \in Worker :
       \/ Start(w) \/ Stop(w) \/ Scan(w) \/ Restore(w) \/ Adopt(w)
       \/ \E l \in Loops : DeclaredStart(w, l) \/ DeclaredEnd(w, l)
       \/ \E t \in Task : RunStep(w, t) \/ Cancel(w, t) \/ \E d \in BOOLEAN : Schedule(w, t, d)
  \/ \E t \in Task : BecomeDue(t) \/ Expire(t)

Spec == Init /\ [][Next]_vars

-----------------------------------------------------------------------------
(* Properties. *)

\* The capacity at which a claimed task never waits for a semaphore.
Capacity ==
  /\ Slots >= Cardinality(Task) + Cardinality(Loops)
  /\ TaskSlots >= Cardinality(Task) + Cardinality(OwnLoops)

\* A worker that took a task on holds the row's unexpired lease, unless the row
\* has been canceled under it.
ExecutorOwnsRow ==
  \A w \in Worker, t \in Task : run[w][t] \in Taken =>
    \/ row[t].status = "canceled"
    \/ row[t].status = "running" /\ row[t].owner = w /\ row[t].lease = "live"

\* No claimed task waits for a semaphore.
NothingWaits ==
  \A w \in Worker, t \in Task : run[w][t] \in {"none", "waiting", "running"}

\* Two workers never have one task in hand at the same time.
OneTaker ==
  \A t \in Task : \A w, v \in Worker :
    run[w][t] \in Taken /\ run[v][t] \in Taken => w = v

\* Two workers never execute the handler of one task at the same time.
OneExecutor ==
  \A t \in Task : \A w, v \in Worker :
    run[w][t] = "running" /\ run[v][t] = "running" => w = v

\* The table's verdict is final: a task recorded as completed or failed is not
\* being executed, so no late outcome can replace the recorded one.
VerdictIsFinal ==
  \A t \in Task : row[t].status \in {"completed", "failed"} =>
    \A w \in Worker : run[w][t] \notin Taken

\* A row is leased exactly while it is marked running.  Recovery rests on it: a
\* row marked running without a lease would be listed by no scan.
LeasedIffRunning ==
  \A t \in Task :
    /\ row[t].status = "running" <=> row[t].lease # "none"
    /\ row[t].status = "running" <=> row[t].owner # NoOwner

\* Implementation of TaskPromise.
Phases == [t \in Task |-> IF row[t].status \in Live THEN "open" ELSE row[t].status]

Executors ==
  [t \in Task |-> IF \E w \in Worker : run[w][t] \in Taken
                  THEN CHOOSE w \in Worker : run[w][t] \in Taken
                  ELSE NoOwner]

Promise == INSTANCE TaskPromise WITH
  Nobody <- NoOwner, phase <- Phases, executor <- Executors

KeepsPromise == Promise!Spec

Settled(t) == row[t].status \in {"completed", "failed", "canceled"}

\* Coroutines that can run do run, handlers end, semaphores are first come
\* first served, and time passes.  Nothing makes a worker start, stop or cancel.
Progress(w, t) ==
  Claim(w, t) \/ ClaimLost(w, t) \/ Complete(w, t) \/ Retry(w, t) \/ Fail(w, t)

Fairness ==
  /\ \A w \in Worker :
       /\ WF_vars(Scan(w) \/ Adopt(w))
       /\ \A l \in Loops : WF_vars(DeclaredEnd(w, l))
       /\ \A t \in Task : WF_vars(Progress(w, t)) /\ SF_vars(Admit(w, t) \/ Begin(w, t))
  /\ \A t \in Task : WF_vars(BecomeDue(t) \/ Expire(t))

FairSpec == Spec /\ Fairness

\* Every task that is on record is settled some day, whatever crashes, if some
\* worker stays up: leases of the dead run out and scans pick their rows up.
EventuallySettled ==
  (\E w \in Worker : <>[]up[w]) =>
    \A t \in Task : row[t].status # "absent" ~> Settled(t)

=============================================================================
