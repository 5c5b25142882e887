------------------------------ MODULE TaskPromise ------------------------------
(***************************************************************************)
(* What a one-shot plugin task promises, without tables, leases or         *)
(* coroutines: a submitted task is executed by at most one worker at a     *)
(* time, an outcome is written by the executor that produced it or, if     *)
(* the task cannot be begun, while nobody executes it, and a task that     *)
(* completed or failed is never executed again.                            *)
(***************************************************************************)
CONSTANTS Worker, Task, Nobody

VARIABLES
  phase,     \* what the table says of a task
  executor   \* the worker that took it on, and alone may execute its handler

promiseVars == <<phase, executor>>

Init ==
  /\ phase = [t \in Task |-> "absent"]
  /\ executor = [t \in Task |-> Nobody]

Submit(t) ==
  /\ phase[t] = "absent"
  /\ phase' = [phase EXCEPT ![t] = "open"]
  /\ UNCHANGED executor

Begin(w, t) ==
  /\ phase[t] = "open"
  /\ executor[t] = Nobody
  /\ executor' = [executor EXCEPT ![t] = w]
  /\ UNCHANGED phase

\* The executor gives its verdict; a cancellation in the meantime is overruled.
Settle(w, t, verdict) ==
  /\ executor[t] = w
  /\ phase' = [phase EXCEPT ![t] = verdict]
  /\ executor' = [executor EXCEPT ![t] = Nobody]

\* A failed attempt that will be retried, or a cancelled executor.
GiveUp(w, t) ==
  /\ executor[t] = w
  /\ executor' = [executor EXCEPT ![t] = Nobody]
  /\ UNCHANGED phase

Crash(w) ==
  /\ executor' = [t \in Task |-> IF executor[t] = w THEN Nobody ELSE executor[t]]
  /\ UNCHANGED phase

Cancel(t) ==
  /\ phase[t] = "open"
  /\ phase' = [phase EXCEPT ![t] = "canceled"]
  /\ UNCHANGED executor

\* Nobody could begin it: it fails without an executor.
FailUnbegun(t) ==
  /\ phase[t] = "open"
  /\ executor[t] = Nobody
  /\ phase' = [phase EXCEPT ![t] = "failed"]
  /\ UNCHANGED executor

Next ==
  \/ \E t \in Task : Submit(t) \/ Cancel(t) \/ FailUnbegun(t)
  \/ \E w \in Worker : Crash(w)
  \/ \E w \in Worker, t \in Task :
       Begin(w, t) \/ GiveUp(w, t) \/ \E v \in {"completed", "failed"} : Settle(w, t, v)

Spec == Init /\ [][Next]_promiseVars

=============================================================================
