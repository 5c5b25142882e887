--------------------------- MODULE TaskLeasesProofs ---------------------------
(***************************************************************************)
(* Theorems about TaskLeases for every set of workers, tasks and declared  *)
(* loops and every number of attempts, slots and stops.                    *)
(***************************************************************************)
EXTENDS TaskLeases, TLAPS, FiniteSetTheorems

-----------------------------------------------------------------------------
(* Type correctness. *)

Row == [status : Statuses, owner : Worker \cup {NoOwner, Departed},
        lease : {"none", "live", "expired"}, attempt : Attempts, due : BOOLEAN]

\* What each store statement leaves in a row is a row.
LEMMA StoreTypes ==
  ASSUME TypeOK, NEW w \in Worker, NEW t \in Task
  PROVE  /\ \A d \in BOOLEAN : AddedRow(d) \in Row
         /\ \A s \in Statuses : SettledRow(t, s) \in Row
         /\ CanceledRow(t) \in Row
         /\ \A a \in Attempts : RescheduledRow(t, a) \in Row
         /\ ClaimedRow(w, t) \in Row
<1>1. row[t] \in Row
  BY DEF TypeOK, Row
<1>2. 0 \in Attempts
  BY ConstantsAssumption DEF Attempts
<1>3. QED
  BY <1>1, <1>2 DEF Row, Statuses, Live, AddedRow, SettledRow, CanceledRow, RescheduledRow, ClaimedRow

\* So does the passing of time, and a heartbeat.
LEMMA TimeTypes ==
  ASSUME TypeOK, NEW t \in Task
  PROVE  /\ [row[t] EXCEPT !.lease = "live"] \in Row
         /\ [row[t] EXCEPT !.lease = "expired"] \in Row
         /\ [row[t] EXCEPT !.due = TRUE] \in Row
<1>1. row[t] \in Row
  BY DEF TypeOK, Row
<1>2. QED
  BY <1>1 DEF Row

LEMMA RowUpdateTypes ==
  ASSUME TypeOK, NEW t \in Task, NEW r \in Row
  PROVE  [row EXCEPT ![t] = r] \in [Task -> Row]
BY DEF TypeOK, Row

LEMMA EntryTypes ==
  ASSUME NEW w \in Worker
  PROVE  Entry(w) \in RunStates
BY DEF Entry, RunStates

LEMMA RunGoesToTypes ==
  ASSUME TypeOK, NEW w \in Worker, NEW t \in Task, NEW s \in RunStates, RunGoesTo(w, t, s)
  PROVE  run' \in [Worker -> [Task -> RunStates]] /\ cancelling' \in [Worker -> SUBSET Task]
BY DEF TypeOK, RunGoesTo

LEMMA TypeStep == TypeOK /\ [Next]_vars => TypeOK'
<1> SUFFICES ASSUME TypeOK, [Next]_vars PROVE TypeOK'
  OBVIOUS
<1> USE DEF Row
<1>1. CASE UNCHANGED vars
  BY <1>1 DEF vars, TypeOK
<1>2. ASSUME NEW w \in Worker, Start(w) PROVE TypeOK'
  BY <1>2 DEF Start, TypeOK
<1>3. ASSUME NEW w \in Worker, Stop(w) PROVE TypeOK'
  <2>1. row' \in [Task -> Row]
    <3>1. CASE StableOwner
      BY <1>3, <3>1 DEF Stop, TypeOK
    <3>2. CASE ~StableOwner
      <4>1. ASSUME NEW t \in Task
            PROVE  [row[t] EXCEPT !.owner = IF @ = w THEN Departed ELSE @] \in Row
        <5>1. row[t] \in Row
          BY DEF TypeOK
        <5>2. row[t].owner \in Worker \cup {NoOwner, Departed}
          BY <5>1
        <5>3. (IF row[t].owner = w THEN Departed ELSE row[t].owner) \in Worker \cup {NoOwner, Departed}
          BY <5>2
        <5>4. QED
          BY <5>1, <5>3
      <4>2. QED
        BY <1>3, <3>2, <4>1 DEF Stop
    <3>3. QED
      BY <3>1, <3>2
  <2>2. listed' \in [Worker -> [Task -> Attempts \cup {NotListed}]]
    BY <1>3 DEF Stop, TypeOK, Nothing
  <2>3. stops' \in 0 .. MaxStops
    BY <1>3, ConstantsAssumption DEF Stop, TypeOK
  <2>4. QED
    BY <1>3, <2>1, <2>2, <2>3 DEF Stop, TypeOK, RunStates
<1>4. ASSUME NEW w \in Worker, NEW t \in Task, NEW d \in BOOLEAN, Schedule(w, t, d) PROVE TypeOK'
  <2>1. row' \in [Task -> Row]
    BY <1>4, StoreTypes, RowUpdateTypes DEF Schedule
  <2>2. 0 \in Attempts
    BY ConstantsAssumption DEF Attempts
  <2>3. QED
    BY <1>4, <2>1, <2>2 DEF Schedule, TypeOK, RunStates
<1>5. ASSUME NEW w \in Worker, Scan(w) PROVE TypeOK'
  BY <1>5 DEF Scan, TypeOK
<1>6. ASSUME NEW w \in Worker, Restore(w) PROVE TypeOK'
  BY <1>6 DEF Restore, TypeOK
<1>7. ASSUME NEW w \in Worker, Adopt(w) PROVE TypeOK'
  BY <1>7 DEF Adopt, Adopts, TypeOK, Nothing, RunStates
<1>8. ASSUME NEW w \in Worker, NEW l \in Loops, DeclaredStart(w, l) \/ DeclaredEnd(w, l) PROVE TypeOK'
  <2>1. CASE DeclaredStart(w, l)
    BY <2>1 DEF DeclaredStart, TypeOK
  <2>2. CASE DeclaredEnd(w, l)
    BY <2>2 DEF DeclaredEnd, TypeOK
  <2>3. QED
    BY <1>8, <2>1, <2>2
<1>9. ASSUME NEW w \in Worker, NEW t \in Task, Claim(w, t) PROVE TypeOK'
  <2>1. row' \in [Task -> Row]
    BY <1>9, StoreTypes, RowUpdateTypes DEF Claim
  <2>2. QED
    BY <1>9, <2>1, EntryTypes DEF Claim, TypeOK
<1>10. ASSUME NEW w \in Worker, NEW t \in Task,
              ClaimLost(w, t) \/ CancelRun(w, t) \/ Abandon(w, t)
       PROVE  TypeOK'
  <2>1. RunGoesTo(w, t, "none") /\ "none" \in RunStates
    BY <1>10 DEF ClaimLost, CancelRun, Abandon, RunStates
  <2>2. stops' \in 0 .. MaxStops
    BY <1>10, ConstantsAssumption DEF ClaimLost, CancelRun, Abandon, TypeOK
  <2>3. QED
    BY <1>10, <2>1, <2>2, RunGoesToTypes DEF ClaimLost, CancelRun, Abandon, TypeOK
<1>11. ASSUME NEW w \in Worker, NEW t \in Task, Admit(w, t) \/ Begin(w, t) PROVE TypeOK'
  <2>1. PICK s \in RunStates : run' = [run EXCEPT ![w][t] = s]
    BY <1>11, EntryTypes DEF Admit, Begin, RunStates
  <2>2. UNCHANGED <<row, up, restoring, listed, attempt, declared, cancelling, stops>>
    BY <1>11 DEF Admit, Begin
  <2>3. QED
    BY <2>1, <2>2 DEF TypeOK
<1>12. ASSUME NEW w \in Worker, NEW t \in Task, Heartbeat(w, t) PROVE TypeOK'
  <2>1. row' \in [Task -> Row]
    <3>1. row' = [row EXCEPT ![t] = [row[t] EXCEPT !.lease = "live"]]
      BY <1>12 DEF Heartbeat
    <3>2. QED
      BY <3>1, TimeTypes, RowUpdateTypes
  <2>2. QED
    BY <1>12, <2>1 DEF Heartbeat, volatile, TypeOK
<1>13. ASSUME NEW w \in Worker, NEW t \in Task, Complete(w, t) \/ Fail(w, t) PROVE TypeOK'
  <2>1. row' \in [Task -> Row]
    <3>1. PICK s \in Statuses : row' = [row EXCEPT ![t] = SettledRow(t, s)]
      BY <1>13 DEF Complete, Fail, Statuses
    <3>2. SettledRow(t, s) \in Row
      BY StoreTypes
    <3>3. QED
      BY <3>1, <3>2, RowUpdateTypes
  <2>2. RunGoesTo(w, t, "none") /\ "none" \in RunStates
    BY <1>13 DEF Complete, Fail, RunStates
  <2>3. QED
    BY <1>13, <2>1, <2>2, RunGoesToTypes DEF Complete, Fail, TypeOK
<1>14. ASSUME NEW w \in Worker, NEW t \in Task, Retry(w, t) PROVE TypeOK'
  <2>1. attempt[w][t] + 1 \in Attempts
    BY <1>14, ConstantsAssumption DEF Retry, TypeOK, Attempts
  <2>2. row' \in [Task -> Row]
    BY <1>14, <2>1, StoreTypes, RowUpdateTypes DEF Retry
  <2>3. RunGoesTo(w, t, "waiting") /\ "waiting" \in RunStates
    BY <1>14 DEF Retry, RunStates
  <2>4. attempt' \in [Worker -> [Task -> Attempts]]
    BY <1>14, <2>1 DEF Retry, TypeOK
  <2>5. QED
    BY <1>14, <2>2, <2>3, <2>4, RunGoesToTypes DEF Retry, TypeOK
<1>15. ASSUME NEW w \in Worker, NEW t \in Task, Cancel(w, t) PROVE TypeOK'
  <2>1. row' \in [Task -> Row]
    BY <1>15, StoreTypes, RowUpdateTypes DEF Cancel
  <2>2. QED
    BY <1>15, <2>1 DEF Cancel, TypeOK
<1>16. ASSUME NEW t \in Task, BecomeDue(t) \/ Expire(t) PROVE TypeOK'
  <2>1. row' \in [Task -> Row]
    <3>1. \/ row' = [row EXCEPT ![t] = [row[t] EXCEPT !.due = TRUE]]
          \/ row' = [row EXCEPT ![t] = [row[t] EXCEPT !.lease = "expired"]]
      BY <1>16 DEF BecomeDue, Expire
    <3>2. /\ [row[t] EXCEPT !.due = TRUE] \in Row
          /\ [row[t] EXCEPT !.lease = "expired"] \in Row
      BY TimeTypes
    <3>3. CASE row' = [row EXCEPT ![t] = [row[t] EXCEPT !.due = TRUE]]
      BY <3>2, <3>3, RowUpdateTypes
    <3>4. CASE row' = [row EXCEPT ![t] = [row[t] EXCEPT !.lease = "expired"]]
      BY <3>2, <3>4, RowUpdateTypes
    <3>5. QED
      BY <3>1, <3>3, <3>4
  <2>2. QED
    BY <1>16, <2>1 DEF BecomeDue, Expire, volatile, TypeOK
<1>17. ASSUME NEW w \in Worker, NEW t \in Task, ClaimRaises(w, t) PROVE TypeOK'
  <2>0. stops' \in 0 .. MaxStops
    BY <1>17, ConstantsAssumption DEF ClaimRaises, TypeOK
  <2>1. CASE attempt[w][t] + 1 < MaxAttempts
    <3>1. attempt[w][t] + 1 \in Attempts
      BY <2>1, ConstantsAssumption DEF TypeOK, Attempts
    <3>2. row' \in [Task -> Row]
      BY <1>17, <2>1, <3>1, StoreTypes, RowUpdateTypes DEF ClaimRaises
    <3>3. RunGoesTo(w, t, "waiting") /\ "waiting" \in RunStates
      BY <1>17, <2>1 DEF ClaimRaises, RunStates
    <3>4. attempt' \in [Worker -> [Task -> Attempts]]
      <4>1. attempt' = [attempt EXCEPT ![w][t] = attempt[w][t] + 1]
        BY <1>17, <2>1 DEF ClaimRaises
      <4>2. attempt \in [Worker -> [Task -> Attempts]]
        BY DEF TypeOK
      <4>3. QED
        BY <3>1, <4>1, <4>2
    <3>5. QED
      BY <1>17, <2>0, <3>2, <3>3, <3>4, RunGoesToTypes DEF ClaimRaises, TypeOK
  <2>2. CASE ~(attempt[w][t] + 1 < MaxAttempts)
    <3>1. row' \in [Task -> Row]
      BY <1>17, <2>2, StoreTypes, RowUpdateTypes DEF ClaimRaises, Statuses
    <3>2. RunGoesTo(w, t, "none") /\ "none" \in RunStates
      BY <1>17, <2>2 DEF ClaimRaises, RunStates
    <3>3. QED
      BY <1>17, <2>0, <2>2, <3>1, <3>2, RunGoesToTypes DEF ClaimRaises, TypeOK
  <2>3. QED
    BY <2>1, <2>2
<1>18. QED
  BY <1>1, <1>2, <1>3, <1>4, <1>5, <1>6, <1>7, <1>8, <1>9, <1>10, <1>11, <1>12, <1>13,
     <1>14, <1>15, <1>16, <1>17
  DEF Next, RunStep

LEMMA TypeInit == Init => TypeOK
<1>1. 0 \in Attempts
  BY ConstantsAssumption DEF Attempts
<1>2. QED
  BY <1>1, ConstantsAssumption DEF Init, TypeOK, Statuses, RunStates, Nothing

\* Type correctness of the scheduler and its table; with it, no row and no
\* coroutine ever carries an attempt number that reaches max_attempts.
THEOREM TypeCorrect == Spec => []TypeOK
BY TypeInit, TypeStep, PTL DEF Spec

-----------------------------------------------------------------------------
(* Leases and statuses agree, whatever the capacity and the heartbeats. *)

LEMMA LeasedInit == Init => LeasedIffRunning
BY DEF Init, LeasedIffRunning

LEMMA LeasedStep == TypeOK /\ LeasedIffRunning /\ [Next]_vars => LeasedIffRunning'
<1> SUFFICES ASSUME TypeOK, LeasedIffRunning, [Next]_vars, NEW x \in Task
             PROVE  /\ row'[x].status = "running" <=> row'[x].lease # "none"
                    /\ row'[x].status = "running" <=> row'[x].owner # NoOwner
  BY DEF LeasedIffRunning
<1> DEFINE Leased(r) == /\ r.status = "running" <=> r.lease # "none"
                        /\ r.status = "running" <=> r.owner # NoOwner
<1>a. Leased(row[x]) /\ row[x] \in Row
  BY DEF LeasedIffRunning, TypeOK, Row
<1>b. SUFFICES Leased(row'[x])
  OBVIOUS
<1>1. ASSUME NEW w \in Worker, Stop(w) PROVE Leased(row'[x])
  <2>1. CASE StableOwner
    BY <1>1, <1>a, <2>1 DEF Stop
  <2>2. CASE ~StableOwner
    <3>1. row'[x] = [row[x] EXCEPT !.owner = IF @ = w THEN Departed ELSE @]
      BY <1>1, <2>2 DEF Stop
    <3>2. QED
      BY <3>1, <1>a, ConstantsAssumption DEF Row
  <2>3. QED
    BY <2>1, <2>2
<1>2. ASSUME NEW t \in Task, NEW r, row' = [row EXCEPT ![t] = r], Leased(row[t]) => Leased(r)
      PROVE  Leased(row'[x])
  BY <1>2, <1>a DEF TypeOK
<1>3. ASSUME NEW t \in Task
      PROVE  /\ Leased(row[t]) /\ row[t] \in Row
             /\ \A d : Leased(AddedRow(d))
             /\ \A s \in {"completed", "failed", "canceled"} : Leased(SettledRow(t, s))
             /\ Leased(CanceledRow(t))
             /\ \A a : Leased(RescheduledRow(t, a))
             /\ \A w \in Worker : Leased(ClaimedRow(w, t))
             /\ row[t].status = "running" => Leased([row[t] EXCEPT !.lease = "live"])
             /\ row[t].lease = "live" => Leased([row[t] EXCEPT !.lease = "expired"])
             /\ Leased([row[t] EXCEPT !.due = TRUE])
  <2>1. Leased(row[t]) /\ row[t] \in Row
    BY DEF LeasedIffRunning, TypeOK, Row
  <2>2. QED
    BY <2>1, ConstantsAssumption
    DEF Row, AddedRow, SettledRow, CanceledRow, RescheduledRow, ClaimedRow
<1>4. ASSUME NEW w \in Worker, NEW t \in Task, RunStep(w, t) PROVE Leased(row'[x])
  <2>1. CASE ClaimLost(w, t) \/ Admit(w, t) \/ Begin(w, t) \/ CancelRun(w, t) \/ Abandon(w, t)
    BY <2>1, <1>a DEF ClaimLost, Admit, Begin, CancelRun, Abandon
  <2>2. CASE Claim(w, t)
    BY <2>2, <1>2, <1>3 DEF Claim
  <2>3. CASE Heartbeat(w, t)
    <3>1. row' = [row EXCEPT ![t] = [row[t] EXCEPT !.lease = "live"]]
      BY <2>3 DEF Heartbeat
    <3>2. QED
      BY <2>3, <3>1, <1>2, <1>3 DEF Heartbeat
  <2>4. CASE Complete(w, t)
    BY <2>4, <1>2, <1>3 DEF Complete
  <2>5. CASE Retry(w, t)
    BY <2>5, <1>2, <1>3 DEF Retry
  <2>6. CASE Fail(w, t)
    BY <2>6, <1>2, <1>3 DEF Fail
  <2>7. CASE ClaimRaises(w, t)
    BY <2>7, <1>2, <1>3 DEF ClaimRaises
  <2>8. QED
    BY <1>4, <2>1, <2>2, <2>3, <2>4, <2>5, <2>6, <2>7 DEF RunStep
<1>5. ASSUME NEW w \in Worker, NEW t \in Task, Cancel(w, t) PROVE Leased(row'[x])
  BY <1>5, <1>2, <1>3 DEF Cancel
<1>6. ASSUME NEW w \in Worker, NEW t \in Task, NEW d \in BOOLEAN, Schedule(w, t, d)
      PROVE  Leased(row'[x])
  BY <1>6, <1>2, <1>3 DEF Schedule
<1>7. ASSUME NEW t \in Task, BecomeDue(t) PROVE Leased(row'[x])
  <2>1. row' = [row EXCEPT ![t] = [row[t] EXCEPT !.due = TRUE]]
    BY <1>7 DEF BecomeDue
  <2>2. QED
    BY <2>1, <1>2, <1>3
<1>8. ASSUME NEW t \in Task, Expire(t) PROVE Leased(row'[x])
  <2>1. row' = [row EXCEPT ![t] = [row[t] EXCEPT !.lease = "expired"]] /\ row[t].lease = "live"
    BY <1>8 DEF Expire
  <2>2. QED
    BY <2>1, <1>2, <1>3
<1>9. CASE UNCHANGED row
  BY <1>9, <1>a
<1>10. QED
  BY <1>1, <1>4, <1>5, <1>6, <1>7, <1>8, <1>9
  DEF Next, vars, Start, Scan, Restore, Adopt, DeclaredStart, DeclaredEnd

\* A row is leased exactly while it is marked running, so a row left behind by
\* a dead worker is always one that list_runnable_tasks will return.
THEOREM LeasesMatchStatuses == Spec => []LeasedIffRunning
BY LeasedInit, LeasedStep, TypeCorrect, PTL DEF Spec

-----------------------------------------------------------------------------
(* Mutual exclusion of executors, when heartbeats keep their time, no        *)
(* claimed task waits for a semaphore, or none waits as long as a lease, and *)
(* no claim raises that would have been refused.                             *)

\* With room for everything that could want a slot, a claimed task starts at once.
LEMMA EntersAtOnce ==
  ASSUME TypeOK, Capacity, NEW w \in Worker, NEW t \in Task, run[w][t] = "waiting"
  PROVE  Entry(w) = "running"
<1>1. /\ IsFiniteSet(Task) /\ IsFiniteSet(Loops)
      /\ declared[w] \subseteq Loops /\ OwnLoops \subseteq Loops
  BY ConstantsAssumption DEF TypeOK
<1>2. /\ IsFiniteSet(Task \ {t}) /\ IsFiniteSet(OwnLoops)
      /\ Cardinality(Task \ {t}) = Cardinality(Task) - 1
  BY <1>1, FS_RemoveElement, FS_Subset
<1>3. GlobalHolders(w) \subseteq Task \ {t} /\ TaskHolders(w) \subseteq Task \ {t}
  BY DEF GlobalHolders, TaskHolders
<1>4. /\ Cardinality(GlobalHolders(w)) <= Cardinality(Task) - 1
      /\ Cardinality(TaskHolders(w)) <= Cardinality(Task) - 1
      /\ IsFiniteSet(GlobalHolders(w)) /\ IsFiniteSet(TaskHolders(w))
  BY <1>2, <1>3, FS_Subset
<1>5. /\ Cardinality(declared[w]) <= Cardinality(Loops)
      /\ Cardinality(declared[w] \cap OwnLoops) <= Cardinality(OwnLoops)
      /\ IsFiniteSet(declared[w]) /\ IsFiniteSet(declared[w] \cap OwnLoops)
  <2>1. declared[w] \cap OwnLoops \subseteq OwnLoops
    OBVIOUS
  <2>2. QED
    BY <1>1, <1>2, <2>1, FS_Subset
<1>6. /\ Cardinality(GlobalHolders(w)) \in Nat /\ Cardinality(TaskHolders(w)) \in Nat
      /\ Cardinality(Task) \in Nat /\ Cardinality(Loops) \in Nat /\ Cardinality(OwnLoops) \in Nat
      /\ Cardinality(declared[w]) \in Nat /\ Cardinality(declared[w] \cap OwnLoops) \in Nat
      /\ Slots \in Nat /\ TaskSlots \in Nat
  BY <1>1, <1>2, <1>4, <1>5, FS_CardinalityType, ConstantsAssumption
<1>7. GlobalFree(w)
  BY <1>4, <1>5, <1>6 DEF GlobalFree, Capacity
<1>8. TaskFree(w)
  BY <1>4, <1>5, <1>6 DEF TaskFree, Capacity
<1>9. QED
  BY <1>7, <1>8 DEF Entry

\* The inductive invariant.  That at most one worker has a task in hand follows
\* from lease ownership except while the row is canceled, so it is a part.
ExclusionInv ==
  /\ TypeOK /\ ExecutorOwnsRow /\ OneTaker
  /\ WaitsAreShort \/ NothingWaits

\* What a step establishes besides the types.
Exclusive == ExecutorOwnsRow /\ OneTaker /\ (WaitsAreShort \/ NothingWaits)

Held(r, v) == r.status = "canceled" \/ (r.status = "running" /\ r.owner = v /\ r.lease = "live")

\* A step that writes at most row t, in a way that suits who has the task in
\* hand, and sends at most w's coroutine of t to another state.
LEMMA LocalStep ==
  ASSUME ExclusionInv, NEW w \in Worker, NEW t \in Task, NEW s \in RunStates, NEW r,
         row' = [row EXCEPT ![t] = r],
         run' = [run EXCEPT ![w][t] = s],
         s \in {"queued", "admitted"} => WaitsAreShort,
         \A v \in Worker : run'[v][t] \in Taken => Held(r, v),
         s \in Taken => \A v \in Worker \ {w} : run[v][t] \notin Taken
  PROVE  Exclusive'
<1> USE DEF ExclusionInv, Held
<1>1. ASSUME NEW v \in Worker, NEW x \in Task
      PROVE  run'[v][x] = IF v = w /\ x = t THEN s ELSE run[v][x]
  BY DEF TypeOK
<1>2. ASSUME NEW x \in Task
      PROVE  row'[x] = IF x = t THEN r ELSE row[x]
  BY DEF TypeOK
<1>3. WaitsAreShort \/ NothingWaits'
  BY <1>1 DEF NothingWaits, RunStates
<1>4. ExecutorOwnsRow'
  BY <1>1, <1>2 DEF ExecutorOwnsRow
<1>5. OneTaker'
  BY <1>1 DEF OneTaker
<1>6. QED
  BY <1>3, <1>4, <1>5 DEF Exclusive

\* A step that moves no coroutine and writes at most row t.
LEMMA RowStep ==
  ASSUME ExclusionInv, NEW t \in Task, NEW r,
         row' = [row EXCEPT ![t] = r], run' = run,
         \A v \in Worker : run[v][t] \in Taken => Held(r, v)
  PROVE  Exclusive'
<1> USE DEF ExclusionInv, Held
<1>1. ASSUME NEW x \in Task
      PROVE  row'[x] = IF x = t THEN r ELSE row[x]
  BY DEF TypeOK
<1>2. ExecutorOwnsRow'
  BY <1>1 DEF ExecutorOwnsRow
<1>3. QED
  BY <1>2 DEF Exclusive, NothingWaits, OneTaker

\* A row that can be claimed is in nobody's hands.
LEMMA ClaimableIsFree ==
  ASSUME ExclusionInv, NEW w \in Worker, NEW t \in Task, run[w][t] = "waiting", Claimable(w, t)
  PROVE  \A v \in Worker : run[v][t] \notin Taken
<1>1. ASSUME NEW v \in Worker, run[v][t] \in Taken
      PROVE  /\ v # w
             /\ row[t].status = "running" /\ row[t].owner = v /\ row[t].lease = "live"
  BY <1>1 DEF ExclusionInv, ExecutorOwnsRow, Claimable, Live, Taken
<1>2. QED
  BY <1>1, ConstantsAssumption DEF Claimable

LEMMA ExclusionRunStep ==
  ASSUME Capacity \/ WaitsAreShort, ClaimsRaiseAlone, ExclusionInv,
         NEW w \in Worker, NEW t \in Task, RunStep(w, t)
  PROVE  Exclusive'
<1>0. /\ row = [row EXCEPT ![t] = row[t]]
      /\ row[t] \in Row
      /\ \A v \in Worker : run[v] \in [Task -> RunStates]
      /\ \A v \in Worker : run[v][t] \in Taken => Held(row[t], v)
      /\ \A u, v \in Worker : run[u][t] \in Taken /\ run[v][t] \in Taken => u = v
  BY DEF ExclusionInv, TypeOK, Row, ExecutorOwnsRow, OneTaker, Held
<1>a. /\ {"none", "waiting"} \subseteq RunStates /\ Taken \subseteq RunStates
      /\ \A s : s \in {"none", "waiting"} => s \notin Taken
      /\ {"queued", "admitted"} \subseteq Taken
  BY DEF RunStates, Taken
<1>b. ASSUME NEW s \in RunStates, run' = [run EXCEPT ![w][t] = s]
      PROVE  \A v \in Worker : run'[v][t] = IF v = w THEN s ELSE run[v][t]
  BY <1>b DEF ExclusionInv, TypeOK
<1>1. CASE Claim(w, t)
  <2>1. PICK s \in Taken : s = Entry(w)
    BY DEF Entry, Taken
  <2>2. s \in {"queued", "admitted"} => WaitsAreShort
    <3>1. CASE WaitsAreShort
      BY <3>1
    <3>2. CASE Capacity
      BY <1>1, <2>1, <3>2, EntersAtOnce DEF Claim, ExclusionInv
    <3>3. QED
      BY <3>1, <3>2
  <2>3. \A v \in Worker \ {w} : run[v][t] \notin Taken
    BY <1>1, ClaimableIsFree DEF Claim
  <2>4. PICK r : r = ClaimedRow(w, t)
    OBVIOUS
  <2>5. Held(r, w)
    BY <1>0, <2>4 DEF ClaimedRow, Row, Held
  <2>6. /\ run' = [run EXCEPT ![w][t] = s] /\ row' = [row EXCEPT ![t] = r]
        /\ s \in RunStates
    BY <1>1, <1>a, <2>1, <2>4 DEF Claim
  <2>7. \A v \in Worker : run'[v][t] \in Taken => Held(r, v)
    BY <2>3, <2>5, <2>6, <1>b
  <2>8. QED
    BY <2>2, <2>3, <2>6, <2>7, LocalStep
<1>2. ASSUME NEW s \in RunStates, NEW r, run' = [run EXCEPT ![w][t] = s], row' = [row EXCEPT ![t] = r],
             s \in {"none", "waiting"}, run[w][t] \in Taken \/ r = row[t]
      PROVE  Exclusive'
  <2>1. \A v \in Worker : run'[v][t] \in Taken => v # w /\ run[v][t] \in Taken
    BY <1>2, <1>a, <1>b
  <2>2. \A v \in Worker : run'[v][t] \in Taken => Held(r, v)
    BY <1>2, <1>0, <2>1
  <2>3. QED
    BY <1>2, <1>a, <2>2, LocalStep
<1>3. CASE ClaimLost(w, t) \/ CancelRun(w, t) \/ Abandon(w, t)
  <2>1. PICK r : r = row[t]
    OBVIOUS
  <2>2. PICK s \in RunStates : s = "none"
    BY <1>a
  <2>3. row' = [row EXCEPT ![t] = r] /\ run' = [run EXCEPT ![w][t] = s]
    BY <1>3, <1>0, <2>1, <2>2 DEF ClaimLost, CancelRun, Abandon, RunGoesTo
  <2>4. QED
    BY <1>2, <2>1, <2>2, <2>3
<1>4. CASE Admit(w, t) \/ Begin(w, t)
  <2>1. PICK s \in Taken : run' = [run EXCEPT ![w][t] = s]
    BY <1>4 DEF Admit, Begin, Entry, Taken
  <2>2. run[w][t] \in {"queued", "admitted"}
    BY <1>4 DEF Admit, Begin
  <2>3. WaitsAreShort
    BY <2>2 DEF ExclusionInv, NothingWaits
  <2>4. PICK r : r = row[t]
    OBVIOUS
  <2>5. row' = [row EXCEPT ![t] = r]
    BY <1>4, <1>0, <2>4 DEF Admit, Begin
  <2>6. \A v \in Worker \ {w} : run[v][t] \notin Taken
    BY <1>0, <1>a, <2>2
  <2>7. s \in RunStates
    BY <1>a
  <2>8. \A v \in Worker : run'[v][t] \in Taken => Held(r, v)
    BY <1>0, <1>a, <1>b, <2>1, <2>2, <2>4, <2>6, <2>7
  <2>9. QED
    BY <2>1, <2>3, <2>5, <2>6, <2>7, <2>8, LocalStep
<1>5. CASE Heartbeat(w, t)
  <2>1. PICK r : r = [row[t] EXCEPT !.lease = "live"]
    OBVIOUS
  <2>2. row' = [row EXCEPT ![t] = r] /\ run' = run
    BY <1>5, <2>1 DEF Heartbeat, volatile
  <2>3. \A v \in Worker : run[v][t] \in Taken => Held(r, v)
    BY <1>0, <2>1 DEF Held, Row
  <2>4. QED
    BY <2>2, <2>3, RowStep
<1>6. ASSUME NEW s \in {"none", "waiting"}, NEW r, run[w][t] = "running",
             row' = [row EXCEPT ![t] = r], RunGoesTo(w, t, s)
      PROVE  Exclusive'
  <2>1. run' = [run EXCEPT ![w][t] = s] /\ s \in RunStates
    BY <1>6, <1>a DEF RunGoesTo
  <2>2. run[w][t] \in Taken
    BY <1>6 DEF Taken
  <2>3. QED
    BY <1>2, <1>6, <2>1, <2>2
<1>7. CASE Complete(w, t)
  BY <1>7, <1>6 DEF Complete
<1>8. CASE Retry(w, t)
  BY <1>8, <1>6 DEF Retry
<1>9. CASE Fail(w, t)
  BY <1>9, <1>6 DEF Fail
<1>10. CASE ClaimRaises(w, t)
  <2>1. \A v \in Worker : run[v][t] \notin Taken
    BY <1>10, ClaimableIsFree DEF ClaimRaises
  <2>2. PICK s \in {"none", "waiting"} : run' = [run EXCEPT ![w][t] = s]
    <3>1. CASE attempt[w][t] + 1 < MaxAttempts
      BY <1>10, <3>1 DEF ClaimRaises, RunGoesTo
    <3>2. CASE ~(attempt[w][t] + 1 < MaxAttempts)
      BY <1>10, <3>2 DEF ClaimRaises, RunGoesTo
    <3>3. QED
      BY <3>1, <3>2
  <2>3. PICK r : row' = [row EXCEPT ![t] = r]
    BY <1>10 DEF ClaimRaises
  <2>4. s \in RunStates /\ s \notin Taken /\ s \notin {"queued", "admitted"}
    BY <1>a
  <2>5. \A v \in Worker : run'[v][t] \notin Taken
    BY <2>1, <2>2, <2>4, <1>b
  <2>6. QED
    BY <2>2, <2>3, <2>4, <2>5, LocalStep
<1>11. QED
  BY <1>1, <1>3, <1>4, <1>5, <1>7, <1>8, <1>9, <1>10 DEF RunStep

LEMMA ExclusionStep ==
  ASSUME Capacity \/ WaitsAreShort, HeartbeatsOnTime, ClaimsRaiseAlone
  PROVE  ExclusionInv /\ [Next]_vars => ExclusionInv'
<1> SUFFICES ASSUME ExclusionInv, [Next]_vars
             PROVE  Exclusive'
  BY TypeStep DEF ExclusionInv, Exclusive
<1>1. ASSUME UNCHANGED <<row, run>>
      PROVE  Exclusive'
  BY <1>1 DEF ExclusionInv, Exclusive, NothingWaits, ExecutorOwnsRow, OneTaker
<1>2. ASSUME NEW w \in Worker, Stop(w)
      PROVE  Exclusive'
  <2>1. ASSUME NEW v \in Worker, NEW t \in Task
        PROVE  run'[v][t] = IF v = w THEN "none" ELSE run[v][t]
    BY <1>2 DEF Stop, ExclusionInv, TypeOK
  <2>2. ASSUME NEW v \in Worker, NEW t \in Task, v # w
        PROVE  /\ row'[t].status = row[t].status /\ row'[t].lease = row[t].lease
               /\ row[t].owner = v => row'[t].owner = v
    <3>1. row[t] \in Row
      BY DEF ExclusionInv, TypeOK, Row
    <3>2. CASE StableOwner
      BY <1>2, <3>2 DEF Stop
    <3>3. CASE ~StableOwner
      <4>1. row'[t] = [row[t] EXCEPT !.owner = IF @ = w THEN Departed ELSE @]
        BY <1>2, <3>3 DEF Stop
      <4>2. QED
        BY <4>1, <3>1, <2>2 DEF Row
    <3>4. QED
      BY <3>2, <3>3
  <2>3. ExecutorOwnsRow'
    BY <2>1, <2>2 DEF ExclusionInv, ExecutorOwnsRow, Taken
  <2>4. QED
    BY <2>1, <2>3 DEF ExclusionInv, Exclusive, NothingWaits, OneTaker, Taken
<1>3. ASSUME NEW w \in Worker, Adopt(w)
      PROVE  Exclusive'
  <2>1. ASSUME NEW v \in Worker, NEW t \in Task
        PROVE  run'[v][t] = run[v][t] \/ run'[v][t] = "waiting"
    BY <1>3 DEF Adopt, ExclusionInv, TypeOK
  <2>2. row' = row
    BY <1>3 DEF Adopt
  <2>3. QED
    BY <2>1, <2>2 DEF ExclusionInv, Exclusive, NothingWaits, ExecutorOwnsRow, OneTaker, Taken
<1>4. ASSUME NEW w \in Worker, NEW t \in Task, NEW d \in BOOLEAN, Schedule(w, t, d)
      PROVE  Exclusive'
  <2>1. \A v \in Worker : run[v][t] \notin Taken
    BY <1>4 DEF Schedule, ExclusionInv, ExecutorOwnsRow
  <2>2. PICK r : r = AddedRow(d)
    OBVIOUS
  <2>3. PICK s \in RunStates : s = "waiting"
    BY DEF RunStates
  <2>4. /\ row' = [row EXCEPT ![t] = r] /\ run' = [run EXCEPT ![w][t] = s]
        /\ s \notin {"queued", "admitted"} /\ s \notin Taken
    BY <1>4, <2>2, <2>3 DEF Schedule, Taken
  <2>5. \A v \in Worker : run'[v][t] \notin Taken
    BY <2>1, <2>4 DEF ExclusionInv, TypeOK
  <2>6. QED
    BY <2>4, <2>5, LocalStep
<1>5. ASSUME NEW w \in Worker, NEW t \in Task, Cancel(w, t)
      PROVE  Exclusive'
  <2>1. row[t] \in Row
    BY DEF ExclusionInv, TypeOK, Row
  <2>2. CanceledRow(t).status = "canceled" \/ CanceledRow(t) = row[t]
    BY <2>1 DEF CanceledRow, SettledRow, Row
  <2>3. PICK r : r = CanceledRow(t)
    OBVIOUS
  <2>4. \A v \in Worker : run[v][t] \in Taken => Held(r, v)
    BY <2>2, <2>3 DEF ExclusionInv, ExecutorOwnsRow, Held
  <2>5. row' = [row EXCEPT ![t] = r] /\ run' = run
    BY <1>5, <2>3 DEF Cancel
  <2>6. QED
    BY <2>4, <2>5, RowStep
<1>6. ASSUME NEW t \in Task, BecomeDue(t) \/ Expire(t)
      PROVE  Exclusive'
  <2>1. run' = run
    BY <1>6 DEF BecomeDue, Expire, volatile
  <2>2. \E r : row' = [row EXCEPT ![t] = r] /\ r.status = row[t].status
    <3>1. row[t] \in Row
      BY DEF ExclusionInv, TypeOK, Row
    <3>2. CASE BecomeDue(t)
      <4>1. /\ row' = [row EXCEPT ![t] = [row[t] EXCEPT !.due = TRUE]]
            /\ [row[t] EXCEPT !.due = TRUE].status = row[t].status
        BY <3>1, <3>2 DEF BecomeDue, Row
      <4>2. QED
        BY <4>1
    <3>3. CASE Expire(t)
      <4>1. /\ row' = [row EXCEPT ![t] = [row[t] EXCEPT !.lease = "expired"]]
            /\ [row[t] EXCEPT !.lease = "expired"].status = row[t].status
        BY <3>1, <3>3 DEF Expire, Row
      <4>2. QED
        BY <4>1
    <3>4. QED
      BY <1>6, <3>2, <3>3
  <2>3. PICK r : row' = [row EXCEPT ![t] = r] /\ r.status = row[t].status
    BY <2>2
  <2>4. \A v \in Worker : run[v][t] \in Taken => row[t].status = "canceled"
    <3>1. CASE BecomeDue(t)
      BY <3>1 DEF BecomeDue, ExclusionInv, ExecutorOwnsRow
    <3>2. ASSUME Expire(t), NEW v \in Worker, run[v][t] \in Taken PROVE row[t].status = "canceled"
      <4>1. ~(row[t].owner = v /\ (run[v][t] = "running" \/ WaitsAreShort))
        BY <3>2 DEF Expire, Lasts
      <4>2. run[v][t] = "running" \/ WaitsAreShort
        BY <3>2 DEF ExclusionInv, NothingWaits, Taken
      <4>3. QED
        BY <3>2, <4>1, <4>2 DEF ExclusionInv, ExecutorOwnsRow
    <3>3. QED
      BY <1>6, <3>1, <3>2
  <2>5. \A v \in Worker : run[v][t] \in Taken => Held(r, v)
    BY <2>3, <2>4 DEF Held
  <2>6. QED
    BY <2>1, <2>3, <2>5, RowStep
<1>7. QED
  BY <1>1, <1>2, <1>3, <1>4, <1>5, <1>6, ExclusionRunStep
  DEF Next, vars, Start, Scan, Restore, DeclaredStart, DeclaredEnd

\* When heartbeats are on time, a claimed task has a slot at once or within the
\* time of its lease, and only claims raise that would have succeeded, no task is ever executed by two workers at once and each
\* worker that took one on holds the lease of its row; a verdict in the table is
\* then never written over.
THEOREM Exclusion ==
  ASSUME Capacity \/ WaitsAreShort, HeartbeatsOnTime, ClaimsRaiseAlone
  PROVE  Spec => [](OneExecutor /\ ExecutorOwnsRow /\ VerdictIsFinal)
<1>1. Init => ExclusionInv
  <2>1. Init => TypeOK
    BY TypeInit
  <2>2. QED
    BY <2>1 DEF Init, ExclusionInv, NothingWaits, ExecutorOwnsRow, OneTaker, Taken
<1>2. ExclusionInv => OneExecutor /\ ExecutorOwnsRow /\ VerdictIsFinal
  BY DEF ExclusionInv, OneTaker, OneExecutor, ExecutorOwnsRow, VerdictIsFinal, Taken
<1>3. QED
  BY <1>1, <1>2, ExclusionStep, PTL DEF Spec

-----------------------------------------------------------------------------
(* The scheduler implements TaskPromise. *)

\* What the mapping gives for each task.
Mapped ==
  /\ Phases = [t \in Task |-> Phases[t]] /\ Executors = [t \in Task |-> Executors[t]]
  /\ \A t \in Task :
       /\ Phases[t] = IF row[t].status \in Live THEN "open" ELSE row[t].status
       /\ \A w \in Worker : run[w][t] \in Taken => Executors[t] = w
       /\ (\A w \in Worker : run[w][t] \notin Taken) => Executors[t] = NoOwner

LEMMA Mapping == OneTaker => Mapped
<1> SUFFICES ASSUME OneTaker PROVE Mapped
  OBVIOUS
<1>1. ASSUME NEW t \in Task, NEW w \in Worker, run[w][t] \in Taken
      PROVE  Executors[t] = w
  <2>1. \A v \in Worker : run[v][t] \in Taken => v = w
    BY <1>1 DEF OneTaker
  <2>2. Executors[t] = CHOOSE v \in Worker : run[v][t] \in Taken
    BY <1>1 DEF Executors
  <2>3. QED
    BY <1>1, <2>1, <2>2
<1>2. ASSUME NEW t \in Task, \A w \in Worker : run[w][t] \notin Taken
      PROVE  Executors[t] = NoOwner
  BY <1>2 DEF Executors
<1>3. Executors = [t \in Task |-> Executors[t]] /\ Phases = [t \in Task |-> Phases[t]]
  BY DEF Executors, Phases
<1>4. QED
  BY <1>1, <1>2, <1>3 DEF Mapped, Phases

\* A step that is seen at most at task t.
LEMMA SeenStep ==
  ASSUME Mapped, Mapped', NEW t \in Task,
         \A x \in Task \ {t} : /\ row'[x].status = row[x].status
                               /\ \A v \in Worker : run'[v][x] \in Taken <=> run[v][x] \in Taken
  PROVE  /\ Phases' = [Phases EXCEPT ![t] = Phases'[t]]
         /\ Executors' = [Executors EXCEPT ![t] = Executors'[t]]
<1>1. ASSUME NEW x \in Task, x # t
      PROVE  Phases'[x] = Phases[x] /\ Executors'[x] = Executors[x]
  BY <1>1 DEF Mapped
<1>2. QED
  BY <1>1 DEF Mapped

\* A step that nobody sees who only knows the promise.
LEMMA UnseenStep ==
  ASSUME Mapped, Mapped',
         \A x \in Task : /\ Phases'[x] = Phases[x]
                         /\ \A v \in Worker : run'[v][x] \in Taken <=> run[v][x] \in Taken
  PROVE  UNCHANGED Promise!promiseVars
<1>1. ASSUME NEW x \in Task
      PROVE  Executors'[x] = Executors[x]
  BY <1>1 DEF Mapped
<1>2. QED
  BY <1>1 DEF Mapped, Promise!promiseVars

\* Whoever has a task in hand is its executor, and the row is running or canceled.
LEMMA TakerIsExecutor ==
  ASSUME ExclusionInv, Mapped, NEW w \in Worker, NEW t \in Task, run[w][t] \in Taken
  PROVE  Executors[t] = w /\ row[t].status \in {"running", "canceled"}
BY DEF Mapped, ExclusionInv, ExecutorOwnsRow

\* The coroutine that has t in hand ends, or begins to wait for a retry.
LEMMA TakerLeaves ==
  ASSUME ExclusionInv, Mapped, Mapped', NEW w \in Worker, NEW t \in Task, NEW r,
         NEW s \in {"none", "waiting"},
         run[w][t] \in Taken, run' = [run EXCEPT ![w][t] = s], row' = [row EXCEPT ![t] = r]
  PROVE  /\ Phases' = [Phases EXCEPT ![t] = Phases'[t]]
         /\ Executors' = [Executors EXCEPT ![t] = NoOwner]
         /\ Executors[t] = w
         /\ row'[t] = r
<1>1. /\ \A x \in Task \ {t} : row'[x] = row[x] /\ \A v \in Worker : run'[v][x] = run[v][x]
      /\ row'[t] = r
      /\ \A v \in Worker : run'[v][t] = IF v = w THEN s ELSE run[v][t]
  BY DEF ExclusionInv, TypeOK
<1>2. \A v \in Worker : run'[v][t] \notin Taken
  BY <1>1 DEF ExclusionInv, OneTaker, Taken
<1>3. Executors'[t] = NoOwner
  BY <1>2 DEF Mapped
<1>4. QED
  BY <1>1, <1>3, SeenStep, TakerIsExecutor

\* A coroutine moves that takes nothing on and leaves nothing, and the phase of
\* its task stays.
LEMMA IdlerMoves ==
  ASSUME TypeOK, Mapped, Mapped', NEW w \in Worker, NEW t \in Task, NEW r, NEW s,
         run' = [run EXCEPT ![w][t] = s], row' = [row EXCEPT ![t] = r],
         run[w][t] \in Taken <=> s \in Taken,
         r.status = row[t].status \/ {r.status, row[t].status} \subseteq Live
  PROVE  UNCHANGED Promise!promiseVars
<1>1. /\ \A x \in Task \ {t} : row'[x] = row[x] /\ \A v \in Worker : run'[v][x] = run[v][x]
      /\ row'[t] = r
      /\ \A v \in Worker : run'[v][t] = IF v = w THEN s ELSE run[v][t]
  BY DEF TypeOK
<1>2. \A x \in Task : Phases'[x] = Phases[x]
  BY <1>1 DEF Mapped
<1>3. QED
  BY <1>1, <1>2, UnseenStep

LEMMA PromiseRunStep ==
  ASSUME ClaimsRaiseAlone, ExclusionInv, Mapped, Mapped',
         NEW w \in Worker, NEW t \in Task, RunStep(w, t)
  PROVE  Promise!Next \/ UNCHANGED Promise!promiseVars
<1>0. /\ TypeOK /\ row = [row EXCEPT ![t] = row[t]] /\ row[t] \in Row
      /\ Taken = {"queued", "admitted", "running"}
  BY DEF ExclusionInv, TypeOK, Row, Taken
<1>1. CASE Claim(w, t)
  <2>1. \A v \in Worker : run[v][t] \notin Taken
    BY <1>1, ClaimableIsFree DEF Claim
  <2>2. PICK s \in Taken : run' = [run EXCEPT ![w][t] = s]
    BY <1>1, <1>0 DEF Claim, Entry
  <2>3. PICK r : r = ClaimedRow(w, t)
    OBVIOUS
  <2>4. row' = [row EXCEPT ![t] = r] /\ r.status = "running" /\ row[t].status \in Live
    BY <1>1, <1>0, <2>3 DEF Claim, Claimable, ClaimedRow, Row
  <2>5. /\ \A x \in Task \ {t} : row'[x] = row[x] /\ \A v \in Worker : run'[v][x] = run[v][x]
        /\ row'[t] = r /\ run'[w][t] = s
    BY <1>0, <2>2, <2>4 DEF TypeOK
  <2>6. /\ Phases' = [Phases EXCEPT ![t] = Phases'[t]]
        /\ Executors' = [Executors EXCEPT ![t] = Executors'[t]]
    BY <2>5, SeenStep
  <2>7. /\ Executors[t] = NoOwner /\ Executors'[t] = w
        /\ Phases[t] = "open" /\ Phases'[t] = "open"
    BY <2>1, <2>2, <2>4, <2>5 DEF Mapped, Live
  <2>8. Promise!Begin(w, t)
    BY <2>6, <2>7 DEF Mapped, Promise!Begin
  <2>9. QED
    BY <2>8 DEF Promise!Next
<1>2. ASSUME NEW s \in {"none", "waiting"}, NEW r, run[w][t] \in Taken,
             run' = [run EXCEPT ![w][t] = s], row' = [row EXCEPT ![t] = r],
             \/ r.status \in {"completed", "failed"}
             \/ r.status = row[t].status \/ {r.status, row[t].status} \subseteq Live
      PROVE  Promise!Next
  <2>1. /\ Phases' = [Phases EXCEPT ![t] = Phases'[t]]
        /\ Executors' = [Executors EXCEPT ![t] = NoOwner]
        /\ Executors[t] = w /\ row'[t] = r
    BY <1>2, TakerLeaves
  <2>2. CASE r.status \in {"completed", "failed"}
    <3>1. Phases'[t] \in {"completed", "failed"}
      BY <2>1, <2>2 DEF Mapped, Live
    <3>2. Promise!Settle(w, t, Phases'[t])
      BY <2>1 DEF Promise!Settle
    <3>3. QED
      BY <3>1, <3>2 DEF Promise!Next
  <2>3. CASE r.status = row[t].status \/ {r.status, row[t].status} \subseteq Live
    <3>1. Phases'[t] = Phases[t]
      BY <2>1, <2>3 DEF Mapped
    <3>2. Promise!GiveUp(w, t)
      BY <2>1, <3>1 DEF Mapped, Promise!GiveUp
    <3>3. QED
      BY <3>2 DEF Promise!Next
  <2>4. QED
    BY <1>2, <2>2, <2>3
<1>3. ASSUME NEW s \in {"none", "waiting"}, run' = [run EXCEPT ![w][t] = s], row' = row
      PROVE  Promise!Next \/ UNCHANGED Promise!promiseVars
  <2>1. row' = [row EXCEPT ![t] = row[t]]
    BY <1>0, <1>3
  <2>2. CASE run[w][t] \in Taken
    BY <1>2, <1>3, <2>1, <2>2
  <2>3. CASE run[w][t] \notin Taken
    <3>1. PICK r : r = row[t]
      OBVIOUS
    <3>2. row' = [row EXCEPT ![t] = r] /\ s \notin Taken
      BY <1>0, <2>1, <3>1
    <3>3. QED
      BY <1>0, <1>3, <2>3, <3>1, <3>2, IdlerMoves
  <2>4. QED
    BY <2>2, <2>3
<1>4. CASE ClaimLost(w, t) \/ CancelRun(w, t) \/ Abandon(w, t)
  BY <1>4, <1>3 DEF ClaimLost, CancelRun, Abandon, RunGoesTo
<1>5. CASE Admit(w, t) \/ Begin(w, t)
  <2>1. PICK s \in Taken : run' = [run EXCEPT ![w][t] = s]
    BY <1>5, <1>0 DEF Admit, Begin, Entry
  <2>2. run[w][t] \in Taken /\ row' = [row EXCEPT ![t] = row[t]]
    BY <1>5, <1>0 DEF Admit, Begin
  <2>3. QED
    BY <1>0, <2>1, <2>2, IdlerMoves
<1>6. CASE Heartbeat(w, t)
  <2>1. run' = run /\ row' = [row EXCEPT ![t] = [row[t] EXCEPT !.lease = "live"]]
    BY <1>6 DEF Heartbeat, volatile
  <2>2. [row[t] EXCEPT !.lease = "live"].status = row[t].status
    BY <1>0 DEF Row
  <2>3. \A x \in Task : row'[x].status = row[x].status
    BY <1>0, <2>1, <2>2 DEF TypeOK
  <2>4. QED
    BY <2>1, <2>3, UnseenStep DEF Mapped
<1>7. CASE Complete(w, t) \/ Fail(w, t)
  <2>1. PICK r : r \in {SettledRow(t, "completed"), SettledRow(t, "failed")}
                 /\ row' = [row EXCEPT ![t] = r]
    BY <1>7 DEF Complete, Fail
  <2>2. r.status \in {"completed", "failed"}
    BY <1>0, <2>1 DEF SettledRow, Row
  <2>3. run[w][t] \in Taken /\ run' = [run EXCEPT ![w][t] = "none"]
    BY <1>7, <1>0 DEF Complete, Fail, RunGoesTo
  <2>4. QED
    BY <1>2, <2>1, <2>2, <2>3
<1>8. CASE Retry(w, t)
  <2>1. PICK r : r = RescheduledRow(t, attempt[w][t] + 1) /\ row' = [row EXCEPT ![t] = r]
    BY <1>8 DEF Retry
  <2>2. run[w][t] \in Taken /\ run' = [run EXCEPT ![w][t] = "waiting"]
    BY <1>8, <1>0 DEF Retry, RunGoesTo
  <2>3. row[t].status \in {"running", "canceled"}
    BY <2>2, TakerIsExecutor
  <2>4. r.status = row[t].status \/ {r.status, row[t].status} \subseteq Live
    BY <2>1, <2>3 DEF RescheduledRow, Live
  <2>5. QED
    BY <1>2, <2>1, <2>2, <2>4
<1>9. CASE ClaimRaises(w, t)
  <2>1. /\ run[w][t] = "waiting" /\ run[w][t] \notin Taken /\ row[t].status \in Live
        /\ \A v \in Worker : run[v][t] \notin Taken
    BY <1>9, <1>0, ClaimableIsFree DEF ClaimRaises, Claimable
  <2>2. CASE attempt[w][t] + 1 < MaxAttempts
    <3>1. PICK r : r = RescheduledRow(t, attempt[w][t] + 1) /\ row' = [row EXCEPT ![t] = r]
      BY <1>9, <2>2 DEF ClaimRaises
    <3>2. run' = [run EXCEPT ![w][t] = "waiting"]
      BY <1>9, <2>2 DEF ClaimRaises, RunGoesTo
    <3>3. {r.status, row[t].status} \subseteq Live
      BY <2>1, <3>1 DEF RescheduledRow, Live
    <3>4. QED
      BY <1>0, <2>1, <3>1, <3>2, <3>3, IdlerMoves
  <2>3. CASE ~(attempt[w][t] + 1 < MaxAttempts)
    <3>1. PICK r : r = SettledRow(t, "failed") /\ row' = [row EXCEPT ![t] = r]
      BY <1>9, <2>3 DEF ClaimRaises
    <3>2. run' = [run EXCEPT ![w][t] = "none"] /\ r.status = "failed"
      BY <1>9, <1>0, <2>3, <3>1 DEF ClaimRaises, RunGoesTo, SettledRow, Row
    <3>3. /\ \A x \in Task \ {t} : row'[x] = row[x] /\ \A v \in Worker : run'[v][x] = run[v][x]
          /\ row'[t] = r /\ \A v \in Worker : run'[v][t] \notin Taken
      BY <1>0, <2>1, <3>1, <3>2 DEF TypeOK
    <3>4. /\ Phases' = [Phases EXCEPT ![t] = Phases'[t]]
          /\ Executors' = [Executors EXCEPT ![t] = Executors'[t]]
      BY <3>3, SeenStep
    <3>5. /\ Executors[t] = NoOwner /\ Executors'[t] = NoOwner
          /\ Phases[t] = "open" /\ Phases'[t] = "failed"
      BY <2>1, <3>2, <3>3 DEF Mapped, Live
    <3>6. Promise!FailUnbegun(t)
      BY <3>4, <3>5 DEF Mapped, Promise!FailUnbegun
    <3>7. QED
      BY <3>6 DEF Promise!Next
  <2>4. QED
    BY <2>2, <2>3
<1>10. QED
  BY <1>1, <1>4, <1>5, <1>6, <1>7, <1>8, <1>9 DEF RunStep

LEMMA PromiseStep ==
  ASSUME Capacity \/ WaitsAreShort, HeartbeatsOnTime, ClaimsRaiseAlone,
         ExclusionInv, [Next]_vars, Mapped, Mapped'
  PROVE  Promise!Next \/ UNCHANGED Promise!promiseVars
<1>0. TypeOK
  BY DEF ExclusionInv
<1>1. ASSUME \A x \in Task : /\ row'[x].status = row[x].status
                             /\ \A v \in Worker : run'[v][x] \in Taken <=> run[v][x] \in Taken
      PROVE  UNCHANGED Promise!promiseVars
  BY <1>1, UnseenStep DEF Mapped
<1>2. CASE UNCHANGED <<row, run>>
  BY <1>1, <1>2
<1>3. ASSUME NEW w \in Worker, Stop(w)
      PROVE  Promise!Next
  <2>1. \A t \in Task : row'[t].status = row[t].status
    <3>1. ASSUME NEW t \in Task PROVE row'[t].status = row[t].status
      <4>1. CASE StableOwner
        BY <1>3, <4>1 DEF Stop
      <4>2. CASE ~StableOwner
        <5>1. row'[t] = [row[t] EXCEPT !.owner = IF @ = w THEN Departed ELSE @]
          BY <1>3, <4>2 DEF Stop
        <5>2. row[t] \in Row
          BY <1>0 DEF TypeOK, Row
        <5>3. QED
          BY <5>1, <5>2 DEF Row
      <4>3. QED
        BY <4>1, <4>2
    <3>2. QED
      BY <3>1
  <2>2. \A v \in Worker, t \in Task : run'[v][t] = IF v = w THEN "none" ELSE run[v][t]
    BY <1>3, <1>0 DEF Stop, TypeOK
  <2>3. Phases' = Phases
    BY <2>1 DEF Mapped
  <2>4. ASSUME NEW t \in Task
        PROVE  Executors'[t] = IF Executors[t] = w THEN NoOwner ELSE Executors[t]
    <3>1. CASE \E v \in Worker : run[v][t] \in Taken
      <4>1. PICK v \in Worker : run[v][t] \in Taken
        BY <3>1
      <4>2. Executors[t] = v /\ \A u \in Worker : run[u][t] \in Taken => u = v
        BY <4>1 DEF Mapped
      <4>3. CASE v = w
        BY <2>2, <4>2, <4>3 DEF Mapped, Taken
      <4>4. CASE v # w
        BY <2>2, <4>1, <4>2, <4>4 DEF Mapped
      <4>5. QED
        BY <4>3, <4>4
    <3>2. CASE \A v \in Worker : run[v][t] \notin Taken
      BY <2>2, <3>2 DEF Mapped, Taken
    <3>3. QED
      BY <3>1, <3>2
  <2>5. Executors' = [t \in Task |-> IF Executors[t] = w THEN NoOwner ELSE Executors[t]]
    BY <2>4 DEF Mapped
  <2>6. Promise!Crash(w)
    BY <2>3, <2>5 DEF Promise!Crash
  <2>7. QED
    BY <2>6 DEF Promise!Next
<1>4. ASSUME NEW w \in Worker, Adopt(w)
      PROVE  UNCHANGED Promise!promiseVars
  <2>1. \A v \in Worker, t \in Task :
          run'[v][t] = run[v][t] \/ (run[v][t] = "none" /\ run'[v][t] = "waiting")
    BY <1>4, <1>0 DEF Adopt, Adopts, TypeOK
  <2>2. QED
    BY <1>4, <1>1, <2>1 DEF Adopt, Taken
<1>5. ASSUME NEW w \in Worker, NEW t \in Task, NEW d \in BOOLEAN, Schedule(w, t, d)
      PROVE  Promise!Next
  <2>1. \A v \in Worker : run[v][t] \notin Taken
    BY <1>5 DEF Schedule, ExclusionInv, ExecutorOwnsRow
  <2>2. PICK r : r = AddedRow(d)
    OBVIOUS
  <2>3. row' = [row EXCEPT ![t] = r] /\ run' = [run EXCEPT ![w][t] = "waiting"]
    BY <1>5, <2>2 DEF Schedule
  <2>4. /\ \A x \in Task \ {t} : row'[x] = row[x] /\ \A v \in Worker : run'[v][x] = run[v][x]
        /\ row'[t] = r /\ \A v \in Worker : run'[v][t] \notin Taken
    BY <1>0, <2>1, <2>3 DEF TypeOK, Taken
  <2>5. /\ Phases' = [Phases EXCEPT ![t] = Phases'[t]]
        /\ Executors' = [Executors EXCEPT ![t] = Executors'[t]]
    BY <2>4, SeenStep
  <2>6. r.status = "pending" /\ row[t].status = "absent"
    BY <1>5, <2>2 DEF Schedule, AddedRow
  <2>7. /\ Executors[t] = NoOwner /\ Executors'[t] = NoOwner
        /\ Phases[t] = "absent" /\ Phases'[t] = "open"
    BY <2>1, <2>4, <2>6 DEF Mapped, Live
  <2>8. Promise!Submit(t)
    BY <2>5, <2>7 DEF Mapped, Promise!Submit
  <2>9. QED
    BY <2>8 DEF Promise!Next
<1>6. ASSUME NEW w \in Worker, NEW t \in Task, Cancel(w, t)
      PROVE  Promise!Next \/ UNCHANGED Promise!promiseVars
  <2>1. PICK r : r = CanceledRow(t)
    OBVIOUS
  <2>2. row' = [row EXCEPT ![t] = r] /\ run' = run
    BY <1>6, <2>1 DEF Cancel
  <2>3. \A x \in Task : row'[x] = IF x = t THEN r ELSE row[x]
    BY <1>0, <2>2 DEF TypeOK
  <2>4. CASE row[t].status \in Live
    <3>1. row[t] \in Row
      BY <1>0 DEF TypeOK, Row
    <3>2. r.status = "canceled"
      BY <2>1, <2>4, <3>1 DEF CanceledRow, SettledRow, Row
    <3>3. Phases[t] = "open" /\ Phases'[t] = "canceled"
      BY <2>3, <2>4, <3>2 DEF Mapped, Live
    <3>4. Phases' = [Phases EXCEPT ![t] = Phases'[t]]
      BY <2>2, <2>3, SeenStep
    <3>5. \A x \in Task : Executors'[x] = Executors[x]
      BY <2>2 DEF Mapped
    <3>6. Executors' = Executors
      BY <3>5 DEF Mapped
    <3>7. Promise!Cancel(t)
      BY <3>3, <3>4, <3>6 DEF Promise!Cancel
    <3>8. QED
      BY <3>7 DEF Promise!Next
  <2>5. CASE row[t].status \notin Live
    BY <1>1, <2>1, <2>2, <2>3, <2>5 DEF CanceledRow
  <2>6. QED
    BY <2>4, <2>5
<1>7. ASSUME NEW t \in Task, BecomeDue(t) \/ Expire(t)
      PROVE  UNCHANGED Promise!promiseVars
  <2>1. run' = run
    BY <1>7 DEF BecomeDue, Expire, volatile
  <2>2. row[t] \in Row
    BY <1>0 DEF TypeOK, Row
  <2>3. PICK r : row' = [row EXCEPT ![t] = r] /\ r.status = row[t].status
    <3>1. CASE BecomeDue(t)
      <4>1. /\ row' = [row EXCEPT ![t] = [row[t] EXCEPT !.due = TRUE]]
            /\ [row[t] EXCEPT !.due = TRUE].status = row[t].status
        BY <2>2, <3>1 DEF BecomeDue, Row
      <4>2. QED
        BY <4>1
    <3>2. CASE Expire(t)
      <4>1. /\ row' = [row EXCEPT ![t] = [row[t] EXCEPT !.lease = "expired"]]
            /\ [row[t] EXCEPT !.lease = "expired"].status = row[t].status
        BY <2>2, <3>2 DEF Expire, Row
      <4>2. QED
        BY <4>1
    <3>3. QED
      BY <1>7, <3>1, <3>2
  <2>4. \A x \in Task : row'[x].status = row[x].status
    BY <1>0, <2>3 DEF TypeOK
  <2>5. QED
    BY <1>1, <2>1, <2>4
<1>8. QED
  BY <1>2, <1>3, <1>4, <1>5, <1>6, <1>7, PromiseRunStep
  DEF Next, vars, Start, Scan, Restore, DeclaredStart, DeclaredEnd

\* The workers, their table and their leases implement the promise: under the
\* assumptions of Exclusion a task has one executor at a time, which alone gives
\* its verdict, and a verdict is never taken back.
THEOREM PromiseIsKept ==
  ASSUME Capacity \/ WaitsAreShort, HeartbeatsOnTime, ClaimsRaiseAlone
  PROVE  Spec => KeepsPromise
<1>1. Init => ExclusionInv /\ Promise!Init
  <2>1. Init => ExclusionInv
    BY TypeInit DEF Init, ExclusionInv, NothingWaits, ExecutorOwnsRow, OneTaker, Taken
  <2>2. Init => Promise!Init
    <3> SUFFICES ASSUME Init PROVE Promise!Init
      OBVIOUS
    <3>1. /\ \A t \in Task : row[t].status = "absent"
          /\ \A w \in Worker, t \in Task : run[w][t] \notin Taken
      BY DEF Init, Taken
    <3>2. Mapped
      BY <2>1, Mapping DEF ExclusionInv
    <3>3. QED
      BY <3>1, <3>2 DEF Mapped, Promise!Init, Live
  <2>3. QED
    BY <2>1, <2>2
<1>2. ExclusionInv => Mapped
  BY Mapping DEF ExclusionInv
<1>3. ExclusionInv /\ [Next]_vars => ExclusionInv'
  BY ExclusionStep
<1>4. ExclusionInv /\ [Next]_vars /\ Mapped /\ Mapped' => [Promise!Next]_(Promise!promiseVars)
  BY PromiseStep
<1>5. QED
  BY <1>1, <1>2, <1>3, <1>4, PTL DEF Spec, KeepsPromise, Promise!Spec

=============================================================================
