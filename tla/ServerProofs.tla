------------------------------ MODULE ServerProofs -----------------------------
(***************************************************************************)
(* Proofs about the parts that the server's lifespan starts and ends: the  *)
(* polling of a channel (ChannelPolling, and Server, which runs it) and    *)
(* the instances of a provider (Providers).  What is checked on three      *)
(* events, two operations and two starts holds for any number of events,   *)
(* any size of response, and any number of faults, operations,             *)
(* configurations, instances and restarts.                                 *)
(***************************************************************************)
EXTENDS Server, Providers, TLAPS

-----------------------------------------------------------------------------
(* The polling of a channel. *)

InRound == {"filtering", "processing", "marking", "saving"}

\* Whatever an offset or a mark vouches for has been given to the bot.
Vouched ==
  \A e \in Event : e < kept \/ e < stored \/ e < offset \/ e \in marked => Attempted(e)

\* A response holds every event the server keeps, up to its last one.
NoGaps ==
  pc \in InRound =>
    /\ events # {}
    /\ \A m \in events, e \in Event : e <= m => e \in events \/ e < kept

\* Where the lists of a round stand.
Lists ==
  /\ pc \in {"processing", "marking", "saving"} =>
       \A e \in events \ pending : Attempted(e)
  /\ pc # "processing" => pending = {}
  /\ pc \notin {"processing", "marking"} => attempted = {}
  /\ pc = "processing" => pending \cap (marked \cup attempted) = {}

\* A try that no fault explains was the first of an event that is marked, or is
\* about to be.
Explained ==
  \A e \in Event : tries[e] <= faults \/ (tries[e] <= 1 + faults /\ e \in marked \cup attempted)

PollingInv == TypeOK /\ Vouched /\ NoGaps /\ Lists /\ Explained /\ InOrder

-----------------------------------------------------------------------------
LEMMA PollingInit == Init => PollingInv
<1> SUFFICES ASSUME Init PROVE PollingInv
  OBVIOUS
<1>1. TypeOK
  <2>1. loaded \in BOOLEAN
    BY DEF Init
  <2>2. tries \in [Event -> Nat]
    BY DEF Init
  <2>3. 0 \in 0 .. MaxEvent /\ 0 \in 0 .. MaxEvent + 1 /\ 0 \in 0 .. MaxFaults
    BY PollingAssumption
  <2> QED
    BY <2>1, <2>2, <2>3 DEF Init, TypeOK
<1>2. Vouched /\ Explained /\ InOrder
  BY PollingAssumption DEF Init, Vouched, Explained, InOrder, Attempted, Event
<1>3. NoGaps /\ Lists
  BY DEF Init, NoGaps, Lists, InRound
<1> QED
  BY <1>1, <1>2, <1>3 DEF PollingInv

\* The step that ends a round leaves nothing to say about its lists.
LEMMA RoundEnds ==
  ASSUME PollingInv, NEW next \in {"off", "loading"}, RoundIsOver(next),
         arrived' = arrived, marked' = marked, tries' = tries,
         kept' \in 0 .. MaxEvent + 1, stored' \in 0 .. MaxEvent + 1,
         offset' \in 0 .. MaxEvent + 1, loaded' \in BOOLEAN,
         faults' \in 0 .. MaxFaults,
         faults' = faults + 1 \/ (faults' = faults /\ attempted = {}),
         \A e \in Event : e < kept' \/ e < stored' \/ e < offset' => Attempted(e)
  PROVE  PollingInv'
<1>1. TypeOK'
  BY DEF PollingInv, TypeOK, RoundIsOver
<1>2. Vouched'
  BY DEF PollingInv, Vouched, Attempted
<1>3. NoGaps' /\ Lists'
  BY DEF RoundIsOver, NoGaps, Lists, InRound
<1>4. Explained'
  BY PollingAssumption DEF PollingInv, TypeOK, Explained
<1>5. InOrder'
  BY DEF PollingInv, InOrder, Attempted
<1> QED
  BY <1>1, <1>2, <1>3, <1>4, <1>5 DEF PollingInv

\* What a poll confirms lies below the runner's offset.
LEMMA ConfirmedTypes ==
  ASSUME PollingInv
  PROVE  /\ Confirmed \in 0 .. MaxEvent + 1
         /\ kept <= Confirmed /\ offset <= Confirmed
         /\ \A e \in Event : e < Confirmed => Attempted(e)
  BY PollingAssumption DEF PollingInv, TypeOK, Vouched, Confirmed, Larger, Event

LEMMA PollingStep == PollingInv /\ [Next]_vars => PollingInv'
<1> SUFFICES ASSUME PollingInv, [Next]_vars PROVE PollingInv'
  OBVIOUS
<1> USE PollingAssumption
<1>1. CASE Arrive \/ Start \/ Load \/ UNCHANGED vars
  <2>1. TypeOK'
    <3>1. CASE Arrive
      BY <3>1 DEF Arrive, PollingInv, TypeOK
    <3>2. CASE Start \/ UNCHANGED vars
      BY <3>2 DEF Start, vars, PollingInv, TypeOK
    <3>3. CASE Load
      <4>1. loaded' \in BOOLEAN
        BY <3>3 DEF Load
      <4>2. offset' \in 0 .. MaxEvent + 1
        BY <3>3 DEF Load, PollingInv, TypeOK
      <4> QED
        BY <3>3, <4>1, <4>2 DEF Load, PollingInv, TypeOK
    <3> QED
      BY <1>1, <3>1, <3>2, <3>3
  <2>2. Vouched' /\ InOrder' /\ Explained'
    BY <1>1 DEF Arrive, Start, Load, vars, PollingInv, Vouched, InOrder, Explained, Attempted
  <2>3. NoGaps' /\ Lists'
    BY <1>1 DEF Arrive, Start, Load, vars, PollingInv, NoGaps, Lists, InRound, Attempted
  <2> QED
    BY <2>1, <2>2, <2>3 DEF PollingInv
<1>2. CASE Poll
  <2>1. /\ pc = "polling" /\ kept' = Confirmed /\ events' = Response
        /\ pc' = (IF Response = {} THEN "loading" ELSE "filtering")
        /\ UNCHANGED <<arrived, stored, marked, offset, loaded, pending, attempted, tries, faults>>
    BY <1>2 DEF Poll
  <2>2. pending = {} /\ attempted = {}
    BY <2>1 DEF PollingInv, Lists
  <2>3. TypeOK'
    BY <2>1, <2>2, ConfirmedTypes DEF PollingInv, TypeOK, Response
  <2>4. Vouched' /\ InOrder' /\ Explained'
    BY <2>1, ConfirmedTypes DEF PollingInv, Vouched, InOrder, Explained, Attempted
  <2>5. \A m \in Response, e \in Event : e <= m => e \in Response \/ e < Confirmed
    BY ConfirmedTypes DEF Response, Event, Larger, PollingInv, TypeOK
  <2>6. NoGaps'
    BY <2>1, <2>5 DEF NoGaps, InRound
  <2>7. Lists'
    BY <2>1, <2>2 DEF Lists
  <2> QED
    BY <2>3, <2>4, <2>6, <2>7 DEF PollingInv
<1>3. CASE Filter
  <2>1. /\ pc = "filtering" /\ pending' = events \ marked
        /\ pc' = (IF pending' = {} THEN "saving" ELSE "processing")
        /\ UNCHANGED <<arrived, kept, stored, marked, offset, loaded, events, attempted, tries, faults>>
    BY <1>3 DEF Filter
  <2>2. attempted = {} /\ \A e \in events \ pending' : Attempted(e)
    BY <2>1 DEF PollingInv, Lists, Vouched, TypeOK
  <2>3. TypeOK'
    BY <2>1 DEF PollingInv, TypeOK
  <2>4. Vouched' /\ InOrder' /\ Explained' /\ NoGaps'
    BY <2>1 DEF PollingInv, Vouched, InOrder, Explained, NoGaps, InRound, Attempted
  <2>5. Lists'
    BY <2>1, <2>2 DEF Lists, Attempted
  <2> QED
    BY <2>3, <2>4, <2>5 DEF PollingInv
<1>4. ASSUME NEW e \in Event, Process(e) PROVE PollingInv'
  <2>1. /\ pc = "processing" /\ e \in pending /\ \A d \in pending : e <= d
        /\ pending' = pending \ {e} /\ attempted' = attempted \cup {e}
        /\ tries' = [tries EXCEPT ![e] = @ + 1]
        /\ pc' = (IF pending' = {} THEN "marking" ELSE "processing")
        /\ UNCHANGED <<arrived, kept, stored, marked, offset, loaded, events, faults>>
    BY <1>4 DEF Process, Handed
  <2>2. /\ tries \in [Event -> Nat] /\ faults \in Nat
        /\ tries' \in [Event -> Nat] /\ tries'[e] = tries[e] + 1
        /\ \A d \in Event \ {e} : tries'[d] = tries[d]
    BY <2>1 DEF PollingInv, TypeOK
  <2>3. TypeOK'
    BY <2>1, <2>2 DEF PollingInv, TypeOK
  <2>4. \A d \in Event : Attempted(d) => Attempted(d)'
    BY <2>2 DEF Attempted
  <2>5. Attempted(e)'
    BY <2>2 DEF Attempted
  <2>6. Vouched'
    BY <2>1, <2>4 DEF PollingInv, Vouched
  <2>7. NoGaps'
    BY <2>1 DEF PollingInv, NoGaps, InRound
  <2>8. e \notin marked \cup attempted
    BY <2>1 DEF PollingInv, Lists
  <2>9. Lists'
    <3>1. \A d \in events' \ pending' : Attempted(d)'
      BY <2>1, <2>4, <2>5 DEF PollingInv, TypeOK, Lists
    <3>2. pending' \cap (marked' \cup attempted') = {}
      BY <2>1 DEF PollingInv, Lists
    <3> QED
      BY <2>1, <3>1, <3>2 DEF Lists
  <2>10. Explained'
    BY <2>1, <2>2, <2>8 DEF PollingInv, Explained
  <2>11. ASSUME NEW d \in Event, d < e PROVE Attempted(d)
    <3>1. d \in events \/ d < kept
      BY <2>1, <2>11 DEF PollingInv, NoGaps, InRound, TypeOK, Event
    <3>2. d \notin pending
      BY <2>1, <2>11 DEF Event
    <3> QED
      BY <2>1, <3>1, <3>2 DEF PollingInv, Lists, Vouched
  <2>12. InOrder'
    <3> SUFFICES ASSUME NEW c \in Event, NEW d \in Event, c < d, Attempted(d)'
                 PROVE  Attempted(c)'
      BY DEF InOrder
    <3>1. CASE d = e
      BY <3>1, <2>4, <2>11
    <3>2. CASE d # e
      BY <3>2, <2>2, <2>4 DEF Attempted, PollingInv, InOrder
    <3> QED
      BY <3>1, <3>2
  <2> QED
    BY <2>3, <2>6, <2>7, <2>9, <2>10, <2>12 DEF PollingInv
<1>5. ASSUME NEW e \in Event, Mark(e) PROVE PollingInv'
  <2>1. /\ pc = "marking" /\ e \in attempted
        /\ marked' = marked \cup {e} /\ attempted' = attempted \ {e}
        /\ pc' = (IF attempted' = {} THEN "saving" ELSE "marking")
        /\ UNCHANGED <<arrived, kept, stored, offset, loaded, events, pending, tries, faults>>
    BY <1>5 DEF Mark
  <2>2. pending = {} /\ Attempted(e)
    BY <2>1 DEF PollingInv, Lists, TypeOK
  <2>3. TypeOK'
    BY <2>1 DEF PollingInv, TypeOK
  <2>4. Vouched' /\ InOrder' /\ Explained'
    BY <2>1, <2>2 DEF PollingInv, Vouched, InOrder, Explained, Attempted
  <2>5. NoGaps' /\ Lists'
    BY <2>1, <2>2 DEF PollingInv, NoGaps, Lists, InRound, Attempted
  <2> QED
    BY <2>3, <2>4, <2>5 DEF PollingInv
<1>6. ASSUME NEW done \in BOOLEAN, Save(done) PROVE PollingInv'
  <2>1. PICK m \in events : /\ \A e \in events : e <= m
                            /\ offset' = m + 1
                            /\ stored' = IF done THEN m + 1 ELSE stored
    BY <1>6 DEF Save
  <2>2. /\ pc = "saving"
        /\ done \/ faults < MaxFaults
        /\ faults' = (IF done THEN faults ELSE faults + 1)
        /\ RoundIsOver("loading")
        /\ UNCHANGED <<arrived, kept, marked, loaded, tries>>
    BY <1>6 DEF Save
  <2>3. attempted = {} /\ pending = {}
    BY <1>6 DEF Save, PollingInv, Lists
  <2>4. m \in Event
    BY DEF PollingInv, TypeOK
  <2>5. ASSUME NEW e \in Event, e < m + 1 PROVE Attempted(e)
    <3>1. e <= m
      BY <2>4, <2>5 DEF Event
    <3>2. e \in events \/ e < kept
      BY <1>6, <3>1 DEF Save, PollingInv, NoGaps, InRound
    <3> QED
      BY <1>6, <2>3, <3>2 DEF Save, PollingInv, Lists, Vouched
  <2>6. /\ kept' \in 0 .. MaxEvent + 1 /\ stored' \in 0 .. MaxEvent + 1
        /\ offset' \in 0 .. MaxEvent + 1 /\ loaded' \in BOOLEAN /\ faults' \in 0 .. MaxFaults
        /\ faults' = faults + 1 \/ (faults' = faults /\ attempted = {})
    BY <1>6, <2>1, <2>3, <2>4 DEF Save, PollingInv, TypeOK, Event
  <2>7. \A e \in Event : e < kept' \/ e < stored' \/ e < offset' => Attempted(e)
    BY <1>6, <2>1, <2>5 DEF Save, PollingInv, Vouched
  <2> QED
    BY <1>6, <2>6, <2>7, RoundEnds DEF Save
<1>7. CASE CallFails
  <2>1. /\ faults' = faults + 1 /\ faults < MaxFaults /\ kept' \in {kept, Confirmed}
        /\ RoundIsOver("loading")
        /\ UNCHANGED <<arrived, stored, marked, offset, loaded, tries>>
    BY <1>7 DEF CallFails
  <2>2. /\ kept' \in 0 .. MaxEvent + 1 /\ stored' \in 0 .. MaxEvent + 1
        /\ offset' \in 0 .. MaxEvent + 1 /\ loaded' \in BOOLEAN /\ faults' \in 0 .. MaxFaults
    BY <2>1, ConfirmedTypes DEF PollingInv, TypeOK
  <2>3. \A e \in Event : e < kept' \/ e < stored' \/ e < offset' => Attempted(e)
    BY <2>1, ConfirmedTypes DEF PollingInv, Vouched
  <2> QED
    BY <2>1, <2>2, <2>3, RoundEnds
<1>8. CASE Stop \/ Crash
  <2>1. /\ faults' = faults + 1 /\ faults < MaxFaults
        /\ RoundIsOver("off")
        /\ offset' \in {0, offset}
        /\ UNCHANGED <<arrived, kept, stored, marked, tries>>
    BY <1>8 DEF Stop, Crash
  <2>a. loaded' \in BOOLEAN
    BY <1>8 DEF Stop, Crash, PollingInv, TypeOK
  <2>b. /\ kept' \in 0 .. MaxEvent + 1 /\ stored' \in 0 .. MaxEvent + 1
        /\ offset' \in 0 .. MaxEvent + 1 /\ faults' \in 0 .. MaxFaults
    BY <2>1 DEF PollingInv, TypeOK
  <2>2. /\ kept' \in 0 .. MaxEvent + 1 /\ stored' \in 0 .. MaxEvent + 1
        /\ offset' \in 0 .. MaxEvent + 1 /\ loaded' \in BOOLEAN /\ faults' \in 0 .. MaxFaults
    BY <2>a, <2>b
  <2>3. \A e \in Event : e < kept' \/ e < stored' \/ e < offset' => Attempted(e)
    BY <2>1 DEF PollingInv, Vouched, Event
  <2> QED
    BY <2>1, <2>2, <2>3, RoundEnds
<1> QED
  BY <1>1, <1>2, <1>3, <1>4, <1>5, <1>6, <1>7, <1>8 DEF Next, Round

LEMMA PollingInvariant == Spec => []PollingInv
<1>1. Init => PollingInv
  BY PollingInit
<1>2. PollingInv /\ [Next]_vars => PollingInv'
  BY PollingStep
<1> QED
  BY <1>1, <1>2, PTL DEF Spec

-----------------------------------------------------------------------------
\* The channel's server never discards an event the bot has not been given, and none
\* overtakes another: an offset vouches for every event below it (run_once,
\* _save_offset_for).
THEOREM NothingIsLost == Spec => []InTurn
<1>1. PollingInv => InTurn
  BY DEF PollingInv, Vouched, InTurn
<1> QED
  BY <1>1, PollingInvariant, PTL

\* Events reach the bot for the first time in the order of their ids, since a
\* response has no gaps and run_once takes it in order.
THEOREM FirstTriesInOrder == Spec => []InOrder
<1>1. PollingInv => InOrder
  BY DEF PollingInv
<1> QED
  BY <1>1, PollingInvariant, PTL

\* Every try of an event but one is explained by a crash, a stop or a failed call
\* (run_once marks what it attempted before it saves the offset).
THEOREM DuplicatesAreExplained == Spec => []DuplicatesNeedFaults
<1>1. PollingInv => DuplicatesNeedFaults
  BY DEF PollingInv, TypeOK, Explained, DuplicatesNeedFaults
<1> QED
  BY <1>1, PollingInvariant, PTL

\* No step gives a marked event to the bot again: _pending_events has removed the
\* marked ones before the first event of the round is processed.
THEOREM MarksAreFinal == Spec => MarkedIsFinal
<1>1. PollingInv /\ [Next]_vars => [\A e \in marked : tries'[e] = tries[e]]_vars
  <2> SUFFICES ASSUME PollingInv, Next, NEW e \in marked PROVE tries'[e] = tries[e]
    OBVIOUS
  <2>1. CASE \E d \in Event : Process(d)
    <3>1. PICK d \in Event : Process(d)
      BY <2>1
    <3>2. d # e
      BY <3>1 DEF Process, PollingInv, Lists
    <3> QED
      BY <3>1, <3>2 DEF Process, Handed, PollingInv, TypeOK
  <2>2. CASE UNCHANGED tries
    BY <2>2
  <2> QED
    BY <2>1, <2>2 DEF Next, Round, Arrive, Start, Load, Poll, Filter, Mark, Save, CallFails,
       Stop, Crash
<1> QED
  BY <1>1, PollingInvariant, PTL DEF Spec, MarkedIsFinal

-----------------------------------------------------------------------------
(* The server. *)

\* Whatever starts, stops or ends the process takes a step of the runner, or none.
LEMMA ServerSteps == [ServerNext]_serverVars => [Next]_vars
<1> SUFFICES ASSUME ServerNext PROVE [Next]_vars
  BY DEF serverVars
<1>1. CASE Boot
  BY <1>1 DEF Boot, Next
<1>2. CASE Works
  BY <1>2 DEF Works, Connect, SocketFails, SocketEnds, Deliver, Webhook, Handled
<1>3. CASE Polls
  BY <1>3 DEF Polls, Next
<1>4. CASE Stops
  <2>1. CASE ShutDown \/ CloseNext
    BY <2>1 DEF ShutDown, CloseNext
  <2>2. CASE CloseClient \/ AwaitSocket \/ Exit
    BY <2>2 DEF CloseClient, AwaitSocket, Exit, Ends, Next
  <2>3. CASE StopPolling
    BY <2>3 DEF StopPolling, Next
  <2> QED
    BY <1>4, <2>1, <2>2, <2>3 DEF Stops
<1>5. CASE Dies
  BY <1>5 DEF Dies, Ends, Next
<1> QED
  BY <1>1, <1>2, <1>3, <1>4, <1>5 DEF ServerNext

\* The server runs the polling runner as ChannelPolling says (lifespan, start, stop),
\* so that everything proved of that holds while the server starts and stops.
THEOREM TheServerPolls == ServerSpec => Spec
<1>1. ServerInit => Init
  BY DEF ServerInit
<1> QED
  BY <1>1, ServerSteps, PTL DEF ServerSpec, Spec

\* How far a shutdown has come.
StageInv ==
  /\ closed \in Nat
  /\ closed > 0 => stage \in {"runtime", "down"} /\ pc = "off" /\ socket # "running"
  /\ stage = "runtime" => pc = "off" /\ socket # "running"
  /\ stage = "polling" => socket # "running"

LEMMA StageStep ==
  ASSUME StageInv, ServerNext
  PROVE  StageInv' /\ (ShutdownIsOrderly => ShutdownIsOrderly')
<1> USE DEF StageInv, ShutdownIsOrderly
<1>1. CASE Boot
  BY <1>1 DEF Boot
<1>2. CASE Works
  <2>1. CASE Connect
    BY <1>2, <2>1 DEF Works, Connect, vars
  <2>2. CASE SocketFails \/ SocketEnds
    BY <1>2, <2>2 DEF Works, SocketFails, SocketEnds, vars
  <2>3. CASE \E u \in Update : Deliver(u) \/ Webhook(u) \/ Handled(u)
    BY <2>3 DEF Deliver, Webhook, Handled, vars
  <2> QED
    BY <1>2, <2>1, <2>2, <2>3 DEF Works
<1>3. CASE Polls
  <2>1. UNCHANGED ownVars
    BY <1>3 DEF Polls
  <2>2. pc = "off" => pc' = "off"
    BY <1>3 DEF Polls, Arrive, Round, Load, Poll, Filter, Process, Mark, Save, CallFails
  <2> QED
    BY <2>1, <2>2 DEF ownVars
<1>4. ASSUME NEW how, Ends(how), how \in {"died", "aborted", "closed"},
             how = "aborted" => socket = "failed" \/ client = "open",
             how = "closed" => closed = Len(Resources)
      PROVE  StageInv' /\ ShutdownIsOrderly'
  BY <1>4 DEF Ends, Crash, RoundIsOver
<1>5. CASE ShutDown
  BY <1>5 DEF ShutDown, vars
<1>6. CASE CloseClient
  <2>1. CASE stage' = "socket"
    BY <1>6, <2>1 DEF CloseClient, Ends, vars
  <2>2. CASE Ends("aborted")
    <3>1. client = "open"
      BY <1>6, <2>2 DEF CloseClient, Ends
    <3> QED
      BY <1>4, <2>2, <3>1
  <2> QED
    BY <1>6, <2>1, <2>2 DEF CloseClient
<1>7. CASE AwaitSocket
  <2>1. CASE socket = "failed"
    BY <1>4, <1>7, <2>1 DEF AwaitSocket
  <2>2. CASE socket # "failed"
    BY <1>7, <2>2 DEF AwaitSocket, vars
  <2> QED
    BY <2>1, <2>2
<1>8. CASE StopPolling
  BY <1>8 DEF StopPolling, Stop, RoundIsOver
<1>9. CASE CloseNext
  BY <1>9 DEF CloseNext, vars
<1>10. CASE Exit
  BY <1>4, <1>10 DEF Exit
<1>11. CASE Dies
  BY <1>4, <1>11 DEF Dies
<1> QED
  BY <1>1, <1>2, <1>3, <1>5, <1>6, <1>7, <1>8, <1>9, <1>10, <1>11 DEF ServerNext, Stops

\* Nothing is closed under a runner that works, and only a websocket keeps a shutdown
\* from going through everything (lifespan, CyreneAIRuntime.close).
THEOREM ShutdownsAreOrderly == ServerSpec => []ShutdownIsOrderly
<1>1. ServerInit => StageInv /\ ShutdownIsOrderly
  BY DEF ServerInit, StageInv, ShutdownIsOrderly
<1>2. StageInv /\ ShutdownIsOrderly /\ [ServerNext]_serverVars =>
        StageInv' /\ ShutdownIsOrderly'
  <2>1. CASE ServerNext
    BY <2>1, StageStep
  <2>2. CASE UNCHANGED serverVars
    BY <2>2 DEF serverVars, vars, ownVars, StageInv, ShutdownIsOrderly
  <2> QED
    BY <2>1, <2>2
<1> QED
  BY <1>1, <1>2, PTL DEF ServerSpec

-----------------------------------------------------------------------------
(* The instances of a provider. *)


\* What is closed exists, what is saved waits for a close, and close_all runs only
\* after the shutdown has begun.
OpInv == \A o \in Operation :
  /\ op[o].closes <= created
  /\ op[o].closes = 0 => op[o] = Idle
  /\ op[o].pop => ~ up

\* Without a disturbance at most one operation has something to save, and the table
\* already is as that configuration demands.
SaveInv == up /\ ~ disturbed => \A o \in Operation : op[o].save # None =>
  /\ Fits(op[o].save)
  /\ \A p \in Operation : op[p].save # None => p = o

ProvidersInv == ProvidersTypeOK /\ OpInv /\ OwnedOnce

LEMMA IdleFacts == Idle \in Pending /\ Idle.closes = 0 /\ Idle.save = None /\ ~ Idle.pop
BY ProvidersAssumption DEF Idle, Pending

LEMMA ClosingFacts ==
  ASSUME NEW i \in 0 .. MaxInstances, NEW c \in Config \cup {None}, NEW p \in BOOLEAN
  PROVE  /\ Closing(i, c, p) \in Pending
         /\ Closing(i, c, p).closes = i /\ Closing(i, c, p).save = c /\ Closing(i, c, p).pop = p
BY DEF Closing, Pending

LEMMA PendingFacts ==
  ASSUME NEW r \in Pending
  PROVE  r.closes \in 0 .. MaxInstances /\ r.save \in Config \cup {None} /\ r.pop \in BOOLEAN
BY DEF Pending

LEMMA ConfigFacts ==
  ASSUME NEW c \in Config
  PROVE  /\ c # None /\ c.enabled \in BOOLEAN
         /\ [c EXCEPT !.enabled = TRUE] \in Config /\ [c EXCEPT !.enabled = TRUE].enabled
         /\ [c EXCEPT !.enabled = FALSE] \in Config /\ ~ [c EXCEPT !.enabled = FALSE].enabled
BY ProvidersAssumption DEF Config

LEMMA Numbers ==
  /\ MaxInstances \in Nat /\ MaxRestarts \in Nat /\ None \notin Nat /\ None \notin Config
BY ProvidersAssumption DEF Config

LEMMA ClosingRunning ==
  ASSUME ProvidersTypeOK, running # None, NEW k \in Config \cup {None}, NEW p \in BOOLEAN
  PROVE  LET r == Closing(running, k, p)
         IN  r \in Pending /\ r.closes = running /\ r.save = k /\ r.pop = p /\ r # Idle
<1>1. running \in 0 .. MaxInstances /\ running # 0  BY Numbers DEF ProvidersTypeOK
<1>. DEFINE r == Closing(running, k, p)
<1>2. r \in Pending /\ r.closes = running /\ r.save = k /\ r.pop = p
  BY <1>1, ClosingFacts
<1>. HIDE DEF r
<1>3. r # Idle  BY <1>1, <1>2, IdleFacts
<1>. QED  BY <1>2, <1>3 DEF r

-----------------------------------------------------------------------------
(* The shapes of a step: who is in service, and who is being closed. *)

Quiet == UNCHANGED <<running, created, state, config, op, up>>

\* A new instance takes over, with or without one to close.
TakeOver(o, c, k) ==
  /\ up /\ op[o] = Idle /\ Serve(c)
  /\ \/ running = None /\ UNCHANGED op
     \/ running # None /\ op' = [op EXCEPT ![o] = Closing(running, k, FALSE)]
  /\ UNCHANGED up

TakeOut(o, k) ==
  /\ up /\ op[o] = Idle /\ running # None /\ running' = None
  /\ op' = [op EXCEPT ![o] = Closing(running, k, FALSE)]
  /\ UNCHANGED <<up, created, state, config>>

CloseEnds(o) ==
  /\ op[o].closes # 0
  /\ \E s \in {"closed", "failed"} : state' = [state EXCEPT ![op[o].closes] = s]
  /\ running' = IF op[o].pop THEN None ELSE running
  /\ op' = [op EXCEPT ![o] = Idle]
  /\ UNCHANGED <<up, created, config>>

Shape ==
  \/ Quiet
  \/ \E o \in Operation, c \in Config, k \in Config \cup {None} : TakeOver(o, c, k)
  \/ \E o \in Operation, k \in Config \cup {None} : TakeOut(o, k)
  \/ \E o \in Operation : CloseEnds(o) \/ Shutdown(o)
  \/ Restart

LEMMA Shapes ==
  ASSUME ProvidersTypeOK, [ProvidersNext]_providerVars
  PROVE  Shape
<1>1. saved \in Config \cup {None} /\ (running # None => config[running] \in Config)
  BY DEF ProvidersTypeOK
<1>. HIDE DEF Config, TakeOver, TakeOut, CloseEnds, Quiet
<1>2. ASSUME NEW o \in Operation, NEW c \in Config, UpsertEnabled(o, c)  PROVE Shape
  <2>1. TakeOver(o, c, c)  BY <1>2 DEF UpsertEnabled, Enter, ReloadOrAdd, TakeOver
  <2>. QED  BY <2>1 DEF Shape
<1>3. ASSUME NEW o \in Operation, NEW c \in Config, UpsertDisabled(o, c)  PROVE Shape
  <2>1. TakeOut(o, c) \/ Quiet
    BY <1>3 DEF UpsertDisabled, Enter, Remove, TakeOut, Quiet, Untouched
  <2>. QED  BY <2>1 DEF Shape
<1>4. ASSUME NEW o \in Operation, DeleteConfig(o) \/ StopProvider(o)  PROVE Shape
  <2>1. TakeOut(o, None) \/ Quiet
    BY <1>4 DEF DeleteConfig, StopProvider, Enter, Remove, TakeOut, Quiet, Untouched
  <2>. QED  BY <2>1 DEF Shape
<1>5. ASSUME NEW o \in Operation, StartProvider(o)  PROVE Shape
  <2>. DEFINE c == [saved EXCEPT !.enabled = TRUE]
  <2>1. c \in Config  BY <1>1, <1>5, ConfigFacts DEF StartProvider
  <2>2. TakeOver(o, c, c)  BY <1>5 DEF StartProvider, Enter, ReloadOrAdd, TakeOver
  <2>. QED  BY <2>1, <2>2 DEF Shape
<1>6. ASSUME NEW o \in Operation, Reload(o)  PROVE Shape
  <2>. DEFINE c == IF saved # None THEN saved ELSE config[running]
  <2>1. c \in Config  BY <1>1, <1>6 DEF Reload
  <2>2. TakeOver(o, c, None)  BY <1>6 DEF Reload, TakeOver
  <2>. QED  BY <2>1, <2>2 DEF Shape
<1>7. ASSUME NEW o \in Operation, Refused(o)  PROVE Shape
  BY <1>7 DEF Refused, Enter, Shape, Quiet
<1>8. ASSUME NEW o \in Operation, AddedNotSaved(o)  PROVE Shape
  <2>1. PICK c \in Config : Serve(c) /\ running = None  BY <1>8 DEF AddedNotSaved
  <2>2. TakeOver(o, c, None)  BY <1>8, <2>1 DEF AddedNotSaved, TakeOver
  <2>. QED  BY <2>2 DEF Shape
<1>9. ASSUME NEW o \in Operation, Closed(o) \/ CloseFails(o)  PROVE Shape
  <2>1. CloseEnds(o)  BY <1>9 DEF Closed, CloseFails, CloseEnds
  <2>. QED  BY <2>1 DEF Shape
<1>10. ASSUME UNCHANGED providerVars  PROVE Shape  BY <1>10 DEF providerVars, Shape, Quiet
<1>. QED
  BY <1>2, <1>3, <1>4, <1>5, <1>6, <1>7, <1>8, <1>9, <1>10 DEF ProvidersNext, Shape

-----------------------------------------------------------------------------
(* Types and ownership. *)

LEMMA TypeNext ==
  ASSUME ProvidersTypeOK, OpInv, [ProvidersNext]_providerVars
  PROVE  ProvidersTypeOK'
<1>. DEFINE Goal == ProvidersTypeOK'
            Main == /\ up' \in BOOLEAN
                    /\ created' \in 0 .. MaxInstances
                    /\ running' \in (1 .. created') \cup {None}
                    /\ state' \in [Instance -> {"none", "open", "closed", "failed", "dead"}]
                    /\ config' \in [Instance -> Config \cup {None}]
                    /\ \A i \in 1 .. created' : config'[i] \in Config
                    /\ op' \in [Operation -> Pending]
            Rest == saved' \in Config \cup {None} /\ restarts' \in 0 .. MaxRestarts /\ disturbed' \in BOOLEAN
<1>0. ProvidersTypeOK  OBVIOUS
<1>. HIDE DEF Main, Config
<1>1. Rest
  <2>1. ASSUME NEW o \in Operation, Closed(o)  PROVE Rest
    BY <2>1, PendingFacts DEF Closed, ProvidersTypeOK
  <2>2. ASSUME NEW o \in Operation, StartProvider(o)  PROVE Rest
    <3>. DEFINE c == [saved EXCEPT !.enabled = TRUE]
    <3>1. saved # None /\ Enter(o) /\ ReloadOrAdd(o, c)  BY <2>2 DEF StartProvider
    <3>2. c \in Config  BY <3>1, ConfigFacts DEF ProvidersTypeOK
    <3>. HIDE DEF c
    <3>3. saved' \in {c, saved}  BY <3>1 DEF ReloadOrAdd
    <3>. QED  BY <3>1, <3>2, <3>3 DEF Enter, ProvidersTypeOK
  <2>3. ASSUME NEW o \in Operation, StopProvider(o)  PROVE Rest
    BY <2>3, ConfigFacts DEF StopProvider, Enter, ProvidersTypeOK
  <2>4. ASSUME NEW o \in Operation, CloseFails(o) \/ Shutdown(o) \/ Reload(o) \/ Refused(o) \/ AddedNotSaved(o)
        PROVE Rest
    BY <2>4, PendingFacts DEF CloseFails, Shutdown, Reload, Refused, Enter, AddedNotSaved, ProvidersTypeOK
  <2>5. ASSUME NEW o \in Operation, DeleteConfig(o)  PROVE Rest
    BY <2>5 DEF DeleteConfig, Enter, ProvidersTypeOK
  <2>6. ASSUME NEW o \in Operation, NEW c \in Config, UpsertEnabled(o, c) \/ UpsertDisabled(o, c)
        PROVE Rest
    BY <2>6 DEF UpsertEnabled, UpsertDisabled, Enter, ReloadOrAdd, ProvidersTypeOK
  <2>7. ASSUME Restart  PROVE Rest
    <3>1. restarts < MaxRestarts /\ restarts' = restarts + 1 /\ disturbed' = FALSE /\ saved' = saved
      BY <2>7 DEF Restart
    <3>2. saved \in Config \cup {None} /\ restarts \in 0 .. MaxRestarts  BY DEF ProvidersTypeOK
    <3>3. restarts' \in 0 .. MaxRestarts  BY <3>1, <3>2, Numbers
    <3>4. saved' \in Config \cup {None} /\ disturbed' \in BOOLEAN  BY <3>1, <3>2
    <3>. QED  BY <3>3, <3>4
  <2>8. ASSUME UNCHANGED providerVars  PROVE Rest  BY <2>8 DEF providerVars, ProvidersTypeOK
  <2>. QED  BY <2>1, <2>2, <2>3, <2>4, <2>5, <2>6, <2>7, <2>8 DEF ProvidersNext
<1>2. Main
  <2>1. ASSUME Quiet  PROVE Main  BY <2>1 DEF Quiet, Main, ProvidersTypeOK
  <2>2. ASSUME NEW o \in Operation, NEW c \in Config, NEW k \in Config \cup {None}, TakeOver(o, c, k)
        PROVE Main
    <3>1. running # None => Closing(running, k, FALSE) \in Pending
      BY <1>0, ClosingRunning
    <3>2. op' \in [Operation -> Pending]  BY <2>2, <3>1 DEF TakeOver, ProvidersTypeOK
    <3>. QED  BY <2>2, <3>2, Numbers DEF TakeOver, Serve, Main, ProvidersTypeOK, Instance
  <2>3. ASSUME NEW o \in Operation, NEW k \in Config \cup {None}, TakeOut(o, k)
        PROVE Main
    <3>1. Closing(running, k, FALSE) \in Pending  BY <1>0, <2>3, ClosingRunning DEF TakeOut
    <3>. QED  BY <2>3, <3>1 DEF TakeOut, Main, ProvidersTypeOK
  <2>4. ASSUME NEW o \in Operation, CloseEnds(o)  PROVE Main
    BY <2>4, IdleFacts DEF CloseEnds, Main, ProvidersTypeOK
  <2>5. ASSUME NEW o \in Operation, Shutdown(o)  PROVE Main
    <3>1. running # None => Closing(running, None, TRUE) \in Pending
      BY <1>0, ClosingRunning
    <3>. QED  BY <2>5, <3>1 DEF Shutdown, Main, ProvidersTypeOK
  <2>6. ASSUME Restart  PROVE Main
    <3>1. Dead \in [Instance -> {"none", "open", "closed", "failed", "dead"}]  BY DEF Dead, ProvidersTypeOK
    <3>2. op' \in [Operation -> Pending] /\ up' \in BOOLEAN  BY <2>6, IdleFacts DEF Restart
    <3>3. saved \in Config \cup {None}  BY DEF ProvidersTypeOK
    <3>4. created \in 0 .. MaxInstances /\ config \in [Instance -> Config \cup {None}]
          /\ \A i \in 1 .. created : config[i] \in Config
      BY DEF ProvidersTypeOK
    <3>. HIDE DEF Dead
    <3>5. \/ /\ saved # None /\ created < MaxInstances /\ created' = created + 1
             /\ running' = created + 1
             /\ state' = [Dead EXCEPT ![created + 1] = "open"]
             /\ config' = [config EXCEPT ![created + 1] = saved]
          \/ running' = None /\ state' = Dead /\ UNCHANGED <<created, config>>
      BY <2>6 DEF Restart
    <3>6. CASE running' = None /\ state' = Dead /\ UNCHANGED <<created, config>>
      BY <3>1, <3>2, <3>4, <3>6 DEF Main
    <3>7. CASE /\ saved # None /\ created < MaxInstances /\ created' = created + 1
               /\ running' = created + 1
               /\ state' = [Dead EXCEPT ![created + 1] = "open"]
               /\ config' = [config EXCEPT ![created + 1] = saved]
      <4>1. /\ created + 1 \in 1 .. MaxInstances /\ created + 1 \in 0 .. MaxInstances
            /\ created + 1 \in 1 .. created + 1
            /\ \A i \in 1 .. created + 1 : i \in Instance /\ (i = created + 1 \/ i \in 1 .. created)
        BY <3>4, <3>7, Numbers DEF Instance
      <4>2. state' \in [Instance -> {"none", "open", "closed", "failed", "dead"}]
        BY <3>1, <3>7
      <4>3. config' \in [Instance -> Config \cup {None}]  BY <3>3, <3>4, <3>7
      <4>4. \A i \in 1 .. created' : config'[i] \in Config
        BY <3>3, <3>4, <3>7, <4>1
      <4>5. created' \in 0 .. MaxInstances /\ running' \in (1 .. created') \cup {None}
        BY <3>7, <4>1
      <4>. QED  BY <3>2, <4>2, <4>3, <4>4, <4>5 DEF Main
    <3>. QED  BY <3>5, <3>6, <3>7
  <2>. QED  BY Shapes, <2>1, <2>2, <2>3, <2>4, <2>5, <2>6 DEF Shape
<1>. QED  BY <1>1, <1>2 DEF Main, ProvidersTypeOK

LEMMA ProvidersInvInit == ProvidersInit => ProvidersInv
<1>. SUFFICES ASSUME ProvidersInit  PROVE ProvidersInv
  OBVIOUS
<1>1. ProvidersTypeOK
  <2>1. op \in [Operation -> Pending]  BY IdleFacts DEF ProvidersInit
  <2>2. created = 0 /\ created \in 0 .. MaxInstances /\ restarts \in 0 .. MaxRestarts
    BY Numbers DEF ProvidersInit
  <2>3. \A i \in 1 .. created : config[i] \in Config  BY <2>2
  <2>. HIDE DEF Config
  <2>. QED  BY <2>1, <2>2, <2>3 DEF ProvidersInit, ProvidersTypeOK
<1>2. OpInv
  <2>1. \A o \in Operation : op[o] = Idle  BY DEF ProvidersInit
  <2>2. created = 0  BY DEF ProvidersInit
  <2>3. Idle.closes = 0 /\ ~ Idle.pop  BY IdleFacts
  <2>4. \A o \in Operation : op[o].closes = 0 /\ ~ op[o].pop  BY <2>1, <2>3
  <2>5. 0 <= created  BY <2>2
  <2>. QED  BY <2>1, <2>4, <2>5 DEF OpInv
<1>3. OwnedOnce  BY DEF ProvidersInit, OwnedOnce
<1>. QED  BY <1>1, <1>2, <1>3 DEF ProvidersInv

\* Nothing beyond the last instance built is in service or being closed.
LEMMA OwnedNext ==
  ASSUME ProvidersInv, [ProvidersNext]_providerVars
  PROVE  OpInv' /\ OwnedOnce'
<1>. DEFINE Goal == OpInv' /\ OwnedOnce'
<1>1. /\ created \in 0 .. MaxInstances /\ running \in (1 .. created) \cup {None}
      /\ state \in [Instance -> {"none", "open", "closed", "failed", "dead"}]
      /\ op \in [Operation -> Pending]
  BY DEF ProvidersInv, ProvidersTypeOK
<1>2. \A o \in Operation : op[o].closes \in 0 .. created
  BY <1>1, PendingFacts, Numbers DEF ProvidersInv, OpInv
<1>. USE DEF ProvidersInv, OpInv, OwnedOnce, Closers
<1>3. ASSUME Quiet  PROVE Goal  BY <1>3 DEF Quiet
<1>4. ASSUME NEW o \in Operation, NEW c \in Config, NEW k \in Config \cup {None}, TakeOver(o, c, k)
      PROVE Goal
  <2>. DEFINE r == Closing(running, k, FALSE)
  <2>1. running # None => r.closes = running /\ ~ r.pop /\ r # Idle
    BY ClosingRunning DEF ProvidersInv
  <2>. HIDE DEF r
  <2>2. /\ up /\ up' /\ op[o] = Idle /\ created < MaxInstances /\ created' = created + 1
        /\ running' = created + 1 /\ state' = [state EXCEPT ![created + 1] = "open"]
    BY <1>4 DEF TakeOver, Serve
  <2>3. \/ running = None /\ op' = op
        \/ running # None /\ op' = [op EXCEPT ![o] = r]
    BY <1>4 DEF TakeOver, r
  <2>4. \A p \in Operation : ~ op[p].pop  BY <2>2
  <2>5. Idle.closes = 0 /\ ~ Idle.pop  BY IdleFacts
  <2>6. \A p \in Operation : op'[p] = op[p] \/ (p = o /\ op'[p] = r /\ running # None)
    BY <1>1, <2>3
  <2>7. \A i \in 1 .. created : state'[i] = state[i]  BY <1>1, <2>2 DEF Instance
  <2>8. state'[created + 1] = "open"  BY <1>1, <2>2, Numbers DEF Instance
  <2>9. OpInv'  BY <1>1, <1>2, <2>1, <2>2, <2>6, Numbers
  <2>10. ASSUME NEW i \in 1 .. created
         PROVE  IF state'[i] = "open"
                THEN /\ \E p \in Operation : op'[p].closes = i
                     /\ \A p, q \in Operation : op'[p].closes = i /\ op'[q].closes = i => p = q
                     /\ \A p \in Operation : op'[p].closes = i => ~ op'[p].pop
                ELSE \A p \in Operation : op'[p].closes # i
    <3>1. CASE running = i
      <4>1. \A p \in Operation : op[p].closes # i  BY <2>4, <3>1
      <4>2. running # None  BY <1>1, <3>1, Numbers
      <4>3. state[i] = "open"  BY <3>1
      <4>4. op'[o] = r  BY <1>1, <2>3, <4>2
      <4>. QED  BY <2>1, <2>6, <2>7, <3>1, <4>1, <4>2, <4>3, <4>4
    <3>2. CASE running # i
      BY <2>1, <2>2, <2>4, <2>5, <2>6, <2>7, <3>2
    <3>. QED  BY <3>1, <3>2
  <2>11. \A p \in Operation : op'[p].closes # created + 1
    BY <1>1, <1>2, <2>1, <2>6, Numbers
  <2>. QED  BY <1>1, <2>2, <2>8, <2>9, <2>10, <2>11, Numbers
<1>5. ASSUME NEW o \in Operation, NEW k \in Config \cup {None}, TakeOut(o, k)
      PROVE Goal
  <2>. DEFINE r == Closing(running, k, FALSE)
  <2>1. r.closes = running /\ ~ r.pop /\ r # Idle
    BY <1>5, ClosingRunning DEF TakeOut, ProvidersInv
  <2>2. op' = [op EXCEPT ![o] = r] /\ UNCHANGED <<up, created, state>> /\ running' = None
    BY <1>5 DEF TakeOut
  <2>3. up /\ running # None /\ op[o] = Idle  BY <1>5 DEF TakeOut
  <2>. HIDE DEF r
  <2>4. Idle.closes = 0  BY IdleFacts
  <2>5. \A p \in Operation : op'[p] = IF p = o THEN r ELSE op[p]  BY <1>1, <2>2
  <2>6. \A p \in Operation : ~ op[p].pop  BY <2>3
  <2>7. OpInv'  BY <1>1, <1>2, <2>1, <2>2, <2>3, <2>5, <2>6, Numbers
  <2>8. state[running] = "open" /\ \A p \in Operation : op[p].closes # running
    BY <1>1, <2>3, <2>6
  <2>. QED  BY <1>1, <2>1, <2>2, <2>3, <2>4, <2>5, <2>6, <2>7, <2>8, Numbers
<1>6. ASSUME NEW o \in Operation, CloseEnds(o)  PROVE Goal
  <2>. DEFINE d == op[o].closes
  <2>1. PICK s \in {"closed", "failed"} : state' = [state EXCEPT ![d] = s]  BY <1>6 DEF CloseEnds
  <2>2. /\ d # 0 /\ op' = [op EXCEPT ![o] = Idle] /\ UNCHANGED <<up, created>>
        /\ running' = IF op[o].pop THEN None ELSE running
    BY <1>6 DEF CloseEnds
  <2>3. d \in 1 .. created /\ d \in Instance  BY <1>1, <1>2, <2>2, Numbers DEF Instance
  <2>4. Idle.closes = 0 /\ ~ Idle.pop  BY IdleFacts
  <2>5. \A p \in Operation : op'[p] = IF p = o THEN Idle ELSE op[p]  BY <1>1, <2>2
  <2>6. state[d] = "open"  BY <2>3
  <2>7. \A p \in Operation : op[p].closes = d => p = o  BY <2>3, <2>6
  <2>8. running = d <=> op[o].pop  BY <2>3, <2>6
  <2>9. \A i \in 1 .. created : state'[i] = IF i = d THEN s ELSE state[i]
    BY <1>1, <2>1, <2>3, Numbers DEF Instance
  <2>10. running' # d /\ \A i \in 1 .. created : i # d => (running' = i <=> running = i)
    BY <2>2, <2>3, <2>8, Numbers
  <2>. HIDE DEF d
  <2>11. \A i \in 1 .. created, p \in Operation : i # d /\ op[p].closes = i => p # o /\ op'[p] = op[p]
    BY <2>5 DEF d
  <2>12. \A i \in 1 .. created, p \in Operation : op'[p].closes = i => p # o /\ op'[p] = op[p] /\ i # d
    BY <2>4, <2>5, <2>7
  <2>13. OpInv'
    <3>1. \A p \in Operation : op'[p] = Idle \/ op'[p] = op[p]  BY <2>5
    <3>2. 0 <= created  BY <1>1, Numbers
    <3>. QED  BY <2>2, <2>4, <3>1, <3>2
  <2>14. ASSUME NEW i \in 1 .. created
         PROVE IF state'[i] = "open"
               THEN /\ running' = i \/ \E p \in Operation : op'[p].closes = i
                    /\ \A p, q \in Operation : op'[p].closes = i /\ op'[q].closes = i => p = q
                    /\ \A p \in Operation : op'[p].closes = i => (running' = i <=> op'[p].pop)
               ELSE running' # i /\ \A p \in Operation : op'[p].closes # i
    <3>1. CASE i = d  BY <2>9, <2>10, <2>12, <3>1
    <3>2. CASE i # d  BY <2>9, <2>10, <2>11, <2>12, <3>2
    <3>. QED  BY <3>1, <3>2
  <2>. QED  BY <2>2, <2>13, <2>14
<1>7. ASSUME NEW o \in Operation, Shutdown(o)  PROVE Goal
  <2>1. \A p \in Operation : op[p].closes = 0 /\ ~ op[p].pop
    BY <1>7, IdleFacts DEF Shutdown
  <2>. DEFINE r == Closing(running, None, TRUE)
  <2>2. running # None => r.closes = running /\ r.pop /\ r # Idle
    BY ClosingRunning DEF ProvidersInv
  <2>3. /\ op' = IF running = None THEN op ELSE [op EXCEPT ![o] = r]
        /\ up' = FALSE /\ UNCHANGED <<running, created, state>>
    BY <1>7 DEF Shutdown
  <2>. HIDE DEF r
  <2>4. \A p \in Operation : op'[p] = IF p = o /\ running # None THEN r ELSE op[p]  BY <1>1, <2>3
  <2>5. OpInv'  BY <1>1, <1>2, <2>1, <2>2, <2>3, <2>4, Numbers
  <2>. QED  BY <1>1, <2>1, <2>2, <2>3, <2>4, <2>5, Numbers
<1>8. ASSUME Restart  PROVE Goal
  <2>1. \A p \in Operation : op'[p] = Idle  BY <1>8 DEF Restart
  <2>2. Idle.closes = 0 /\ ~ Idle.pop  BY IdleFacts
  <2>3. \A i \in Instance : Dead[i] # "open"  BY <1>1 DEF Dead
  <2>4. Dead \in [Instance -> {"none", "open", "closed", "failed", "dead"}]  BY <1>1 DEF Dead
  <2>5. \/ /\ created < MaxInstances /\ created' = created + 1 /\ running' = created + 1
           /\ state' = [Dead EXCEPT ![created + 1] = "open"]
        \/ running' = None /\ state' = Dead /\ created' = created
    BY <1>8 DEF Restart
  <2>. HIDE DEF Dead
  <2>6. OpInv'  BY <1>1, <2>1, <2>2, <2>5, Numbers
  <2>7. \A i \in 1 .. created' : state'[i] = "open" <=> running' = i
    BY <1>1, <2>3, <2>4, <2>5, Numbers DEF Instance
  <2>. QED  BY <2>1, <2>2, <2>6, <2>7, <2>5, <1>1, Numbers
<1>. QED  BY Shapes, <1>3, <1>4, <1>5, <1>6, <1>7, <1>8 DEF Shape

LEMMA ProvidersInvHolds == ProvidersSpec => []ProvidersInv
<1>1. ProvidersInv /\ [ProvidersNext]_providerVars => ProvidersInv'
  BY TypeNext, OwnedNext DEF ProvidersInv
<1>. QED  BY ProvidersInvInit, <1>1, PTL DEF ProvidersSpec

\* The variables keep to their types.
THEOREM TypesHold == ProvidersSpec => []ProvidersTypeOK
<1>1. ProvidersInv => ProvidersTypeOK  BY DEF ProvidersInv
<1>. QED  BY ProvidersInvHolds, <1>1, PTL

\* No instance is leaked, closed twice or served after its close has begun.
THEOREM InstancesAreOwned == ProvidersSpec => []OwnedOnce
<1>1. ProvidersInv => OwnedOnce  BY DEF ProvidersInv
<1>. QED  BY ProvidersInvHolds, <1>1, PTL

-----------------------------------------------------------------------------
(* The table and the store. *)

\* An operation that begins undisturbed finds nothing to save.
LEMMA EnterAlone ==
  ASSUME NEW o \in Operation, Enter(o), up', ~ disturbed'
  PROVE  up /\ ~ disturbed /\ \A p \in Operation : op[p].save = None
BY DEF Enter, Saving

StepInv == SaveInv /\ InStep

\* What becomes of the two invariants when the table, the store and what is left to
\* save change in one of these ways.
LEMMA SettledAtOnce ==
  ASSUME ProvidersTypeOK, \A p \in Operation : op'[p].save = None, Fits(saved)'
  PROVE  StepInv'
BY DEF StepInv, SaveInv, InStep

LEMMA SettledLater ==
  ASSUME ProvidersTypeOK, NEW o \in Operation, NEW c \in Config, NEW r \in Pending, r.save = c,
         \A p \in Operation : op[p].save = None,
         op' = [op EXCEPT ![o] = r], Fits(c)'
  PROVE  StepInv'
<1>1. \A p \in Operation : op'[p] = IF p = o THEN r ELSE op[p]  BY DEF ProvidersTypeOK
<1>2. c # None  BY Numbers
<1>3. op'[o].save # None  BY <1>1, <1>2
<1>4. Saving'  BY <1>3 DEF Saving
<1>5. SaveInv'  BY <1>1, <1>2 DEF SaveInv, Fits
<1>. QED  BY <1>4, <1>5 DEF StepInv, InStep

LEMMA ServedFits ==
  ASSUME ProvidersTypeOK, NEW c \in Config, Serve(c), c.enabled
  PROVE  Fits(c)'
<1>1. created + 1 \in Instance /\ created + 1 # None
  BY Numbers DEF Serve, ProvidersTypeOK, Instance
<1>2. running' = created + 1 /\ config'[created + 1] = c  BY <1>1 DEF Serve, ProvidersTypeOK
<1>3. c # None  BY Numbers
<1>4. running' # None /\ config'[running'] = c  BY <1>1, <1>2
<1>. QED  BY <1>3, <1>4 DEF Fits

\* reload_or_add of an enabled configuration, by an operation that begins.
LEMMA ReloadOrAddSettles ==
  ASSUME ProvidersTypeOK, NEW o \in Operation, NEW c \in Config, c.enabled, ReloadOrAdd(o, c),
         \A p \in Operation : op[p].save = None
  PROVE  StepInv'
<1>1. Serve(c)  BY DEF ReloadOrAdd
<1>2. Fits(c)'  BY <1>1, ServedFits
<1>3. CASE running = None
  <2>1. saved' = c /\ op' = op  BY <1>3 DEF ReloadOrAdd
  <2>2. Fits(saved)'  BY <1>2, <2>1 DEF Fits
  <2>3. \A p \in Operation : op'[p].save = None  BY <2>1
  <2>. QED  BY <2>2, <2>3, SettledAtOnce
<1>4. CASE running # None
  <2>. DEFINE r == Closing(running, c, FALSE)
  <2>1. op' = [op EXCEPT ![o] = r]  BY <1>4 DEF ReloadOrAdd
  <2>2. r \in Pending /\ r.save = c  BY <1>4, ClosingRunning
  <2>. HIDE DEF r
  <2>. QED  BY <1>2, <2>1, <2>2, SettledLater
<1>. QED  BY <1>3, <1>4

\* Taking the instance out, with or without a disabled configuration to save.
LEMMA RemoveSettles ==
  ASSUME ProvidersTypeOK, NEW o \in Operation, NEW c \in Config \cup {None}, Remove(o, c),
         \A p \in Operation : op[p].save = None,
         c # None => ~ c.enabled,
         c = None => saved' = None \/ ~ saved'.enabled
  PROVE  StepInv'
<1>. DEFINE r == Closing(running, c, FALSE)
<1>1. running' = None /\ op' = [op EXCEPT ![o] = r] /\ running # None  BY DEF Remove
<1>2. r \in Pending /\ r.save = c  BY <1>1, ClosingRunning
<1>. HIDE DEF r
<1>3. CASE c # None
  <2>1. Fits(c)'  BY <1>1, <1>3 DEF Fits
  <2>2. c \in Config  BY <1>3
  <2>. QED  BY <1>1, <1>2, <2>1, <2>2, SettledLater
<1>4. CASE c = None
  <2>1. \A p \in Operation : op'[p] = IF p = o THEN r ELSE op[p]  BY <1>1 DEF ProvidersTypeOK
  <2>2. \A p \in Operation : op'[p].save = None  BY <1>2, <1>4, <2>1
  <2>3. Fits(saved)'  BY <1>1, <1>4 DEF Fits
  <2>. QED  BY <2>2, <2>3, SettledAtOnce
<1>. QED  BY <1>3, <1>4

LEMMA StepNext ==
  ASSUME ProvidersInv, StepInv, [ProvidersNext]_providerVars
  PROVE  StepInv'
<1>. SUFFICES ASSUME up', ~ disturbed'  PROVE StepInv'
  BY DEF StepInv, SaveInv, InStep
<1>0. ProvidersTypeOK  BY DEF ProvidersInv
<1>. DEFINE Alone == \A p \in Operation : op[p].save = None
<1>a. Alone => ~ Saving  BY DEF Saving
<1>1. ASSUME NEW o \in Operation, NEW c \in Config, UpsertEnabled(o, c)  PROVE StepInv'
  <2>1. Alone  BY <1>1, EnterAlone DEF UpsertEnabled
  <2>. QED  BY <1>0, <1>1, <2>1, ReloadOrAddSettles DEF UpsertEnabled
<1>2. ASSUME NEW o \in Operation, NEW c \in Config, UpsertDisabled(o, c)  PROVE StepInv'
  <2>1. Alone  BY <1>2, EnterAlone DEF UpsertDisabled
  <2>2. CASE Remove(o, c)
    BY <1>0, <1>2, <2>1, <2>2, RemoveSettles, Numbers DEF UpsertDisabled
  <2>3. CASE running = None /\ saved' = c /\ Untouched /\ UNCHANGED op
    <3>1. Fits(saved)'  BY <1>2, <2>3 DEF UpsertDisabled, Untouched, Fits
    <3>2. \A p \in Operation : op'[p].save = None  BY <2>1, <2>3
    <3>. QED  BY <1>0, <3>1, <3>2, SettledAtOnce
  <2>. QED  BY <1>2, <2>2, <2>3 DEF UpsertDisabled
<1>3. ASSUME NEW o \in Operation, DeleteConfig(o)  PROVE StepInv'
  <2>1. Alone  BY <1>3, EnterAlone DEF DeleteConfig
  <2>2. CASE Remove(o, None)
    BY <1>0, <1>3, <2>1, <2>2, RemoveSettles DEF DeleteConfig
  <2>3. CASE running = None /\ Untouched /\ UNCHANGED op
    <3>1. Fits(saved)'  BY <1>3, <2>3 DEF DeleteConfig, Untouched, Fits
    <3>2. \A p \in Operation : op'[p].save = None  BY <2>1, <2>3
    <3>. QED  BY <1>0, <3>1, <3>2, SettledAtOnce
  <2>. QED  BY <1>3, <2>2, <2>3 DEF DeleteConfig
<1>4. ASSUME NEW o \in Operation, StartProvider(o)  PROVE StepInv'
  <2>. DEFINE c == [saved EXCEPT !.enabled = TRUE]
  <2>1. Alone  BY <1>4, EnterAlone DEF StartProvider
  <2>2. c \in Config /\ c.enabled  BY <1>0, <1>4, ConfigFacts DEF StartProvider, ProvidersTypeOK
  <2>3. ReloadOrAdd(o, c)  BY <1>4 DEF StartProvider
  <2>. HIDE DEF c
  <2>. QED  BY <1>0, <2>1, <2>2, <2>3, ReloadOrAddSettles
<1>5. ASSUME NEW o \in Operation, StopProvider(o)  PROVE StepInv'
  <2>1. Alone  BY <1>5, EnterAlone DEF StopProvider
  <2>2. saved' = None \/ ~ saved'.enabled
    BY <1>0, <1>5, ConfigFacts DEF StopProvider, ProvidersTypeOK
  <2>3. CASE Remove(o, None)
    BY <1>0, <2>1, <2>2, <2>3, RemoveSettles
  <2>4. CASE running = None /\ Untouched /\ UNCHANGED op
    <3>1. Fits(saved)'  BY <2>2, <2>4 DEF Untouched, Fits
    <3>2. \A p \in Operation : op'[p].save = None  BY <2>1, <2>4
    <3>. QED  BY <1>0, <3>1, <3>2, SettledAtOnce
  <2>. QED  BY <1>5, <2>3, <2>4 DEF StopProvider
<1>6. ASSUME NEW o \in Operation, Reload(o)  PROVE StepInv'
  <2>. DEFINE c == IF saved # None THEN saved ELSE config[running]
  <2>1. /\ up /\ ~ disturbed /\ ~ Saving /\ c.enabled /\ Serve(c) /\ saved' = saved
        /\ saved # None \/ running # None
        /\ op' = IF running = None THEN op
                 ELSE [op EXCEPT ![o] = Closing(running, None, FALSE)]
    BY <1>6 DEF Reload
  <2>2. Alone  BY <2>1 DEF Saving
  <2>3. Fits(saved)  BY <2>1 DEF StepInv, InStep
  <2>4. saved # None  BY <2>1, <2>3 DEF Fits
  <2>5. saved \in Config /\ c = saved  BY <1>0, <2>4 DEF ProvidersTypeOK
  <2>6. Fits(saved)'  BY <1>0, <2>1, <2>5, ServedFits DEF Fits
  <2>7. \A p \in Operation : op'[p].save = None
    <3>1. CASE running = None  BY <2>1, <2>2, <3>1
    <3>2. CASE running # None
      <4>1. Closing(running, None, FALSE).save = None  BY <1>0, <3>2, ClosingRunning
      <4>. QED  BY <1>0, <2>1, <2>2, <3>2, <4>1 DEF ProvidersTypeOK
    <3>. QED  BY <3>1, <3>2
  <2>. QED  BY <1>0, <2>6, <2>7, SettledAtOnce
<1>7. ASSUME NEW o \in Operation, Refused(o)  PROVE StepInv'
  BY <1>7 DEF Refused, Enter, StepInv, SaveInv, InStep, Fits, Saving
<1>8. ASSUME NEW o \in Operation, AddedNotSaved(o)  PROVE StepInv'
  BY <1>8 DEF AddedNotSaved
<1>9. ASSUME NEW o \in Operation, Closed(o) \/ CloseFails(o)  PROVE StepInv'
  <2>0. up /\ op' = [op EXCEPT ![o] = Idle] /\ config' = config
    BY <1>9 DEF Closed, CloseFails
  <2>0a. disturbed' = disturbed \/ disturbed' = (disturbed \/ op[o].save # None)
    BY <1>9 DEF Closed, CloseFails
  <2>1. up /\ ~ disturbed /\ op' = [op EXCEPT ![o] = Idle] /\ config' = config
    <3>1. disturbed \in BOOLEAN /\ (op[o].save # None) \in BOOLEAN  BY <1>0 DEF ProvidersTypeOK
    <3>2. ~ disturbed  BY <2>0a, <3>1
    <3>. QED  BY <2>0, <3>2
  <2>2. ~ op[o].pop  BY <2>1 DEF ProvidersInv, OpInv
  <2>3. running' = running  BY <1>9, <2>2 DEF Closed, CloseFails
  <2>4. \A p \in Operation : op'[p] = IF p = o THEN Idle ELSE op[p]  BY <1>0, <2>1 DEF ProvidersTypeOK
  <2>5. \A c : Fits(c)' <=> Fits(c)  BY <2>1, <2>3 DEF Fits
  <2>6. CASE op[o].save = None
    <3>1. saved' = saved  BY <1>9, <2>6 DEF Closed, CloseFails
    <3>2. \A p \in Operation : op'[p].save = op[p].save  BY <2>4, <2>6, IdleFacts
    <3>3. Saving' <=> Saving  BY <3>2 DEF Saving
    <3>. QED
      BY <2>1, <2>3, <3>1, <3>2, <3>3 DEF StepInv, SaveInv, InStep, Fits
  <2>7. CASE op[o].save # None
    <3>1. saved' = op[o].save  BY <1>9, <2>1, <2>7 DEF Closed, CloseFails
    <3>2. \A p \in Operation : op'[p].save = None
      BY <2>1, <2>4, <2>7, IdleFacts DEF StepInv, SaveInv
    <3>3. Fits(saved)'  BY <2>1, <2>3, <2>7, <3>1 DEF StepInv, SaveInv, Fits
    <3>. QED  BY <1>0, <3>2, <3>3, SettledAtOnce
  <2>. QED  BY <2>6, <2>7
<1>10. ASSUME NEW o \in Operation, Shutdown(o)  PROVE StepInv'
  BY <1>10 DEF Shutdown
<1>11. ASSUME Restart  PROVE StepInv'
  <2>1. \A p \in Operation : op'[p].save = None  BY <1>11, IdleFacts DEF Restart
  <2>2. Fits(saved)'
    <3>1. CASE saved # None /\ saved.enabled
      <4>1. /\ created < MaxInstances /\ running' = created + 1 /\ saved' = saved
            /\ config' = [config EXCEPT ![created + 1] = saved]
        BY <1>11, <3>1 DEF Restart
      <4>2. created + 1 \in Instance /\ created + 1 # None
        BY <1>0, <4>1, Numbers DEF ProvidersTypeOK, Instance
      <4>3. config'[created + 1] = saved  BY <1>0, <4>1, <4>2 DEF ProvidersTypeOK
      <4>. QED  BY <3>1, <4>1, <4>2, <4>3 DEF Fits
    <3>2. CASE ~ (saved # None /\ saved.enabled)
      BY <1>11, <3>2 DEF Restart, Fits
    <3>. QED  BY <3>1, <3>2
  <2>. QED  BY <1>0, <2>1, <2>2, SettledAtOnce
<1>12. ASSUME UNCHANGED providerVars  PROVE StepInv'
  BY <1>12 DEF providerVars, StepInv, SaveInv, InStep, Fits, Saving
<1>. QED
  BY <1>1, <1>2, <1>3, <1>4, <1>5, <1>6, <1>7, <1>8, <1>9, <1>10, <1>11, <1>12 DEF ProvidersNext

\* Undisturbed, the provider runs exactly as the saved configuration says.
THEOREM TableKeepsStep == ProvidersSpec => []InStep
<1>1. ProvidersInit => StepInv  BY DEF ProvidersInit, StepInv, SaveInv, InStep
<1>2. ProvidersInv /\ StepInv /\ [ProvidersNext]_providerVars => StepInv'  BY StepNext
<1>3. StepInv => InStep  BY DEF StepInv
<1>. QED  BY ProvidersInvHolds, <1>1, <1>2, <1>3, PTL DEF ProvidersSpec

=============================================================================
