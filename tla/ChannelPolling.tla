---------------------------- MODULE ChannelPolling ----------------------------
(***************************************************************************)
(* The polling runner of server/channel_polling.py, the store of its       *)
(* offset and of the events it has dealt with                              *)
(* (infra/adapters/bot_polling_states/sqlite/store.py), and the channel's  *)
(* server, which discards the events below the offset of a poll request.   *)
(*                                                                         *)
(* The process can crash between any two awaits, the task can be stopped,  *)
(* and the channel and the store can fail a call.                          *)
(***************************************************************************)
EXTENDS Integers

CONSTANTS
  MaxEvent,    \* bound: events that arrive at the channel's server
  Limit,       \* events in one response at most
  MaxFaults    \* bound: crashes, stops and failed calls

ASSUME PollingAssumption == MaxEvent \in Nat /\ Limit \in Nat \ {0} /\ MaxFaults \in Nat

VARIABLES
  arrived,     \* event ids 1 .. arrived exist
  kept,        \* the server has discarded the events below this id
  stored,      \* the offset in the store, 0 for none
  marked,      \* the ids in the store's table of processed events
  pc,          \* where run_once stands
  offset,      \* _offset, 0 for None
  loaded,      \* _offset_loaded
  events,      \* the response of the poll
  pending,     \* pending_events that have not been processed yet
  attempted,   \* attempted_events that have not been marked yet
  tries,       \* how often an event was handed to the processor
  faults

vars == <<arrived, kept, stored, marked, pc, offset, loaded, events, pending,
          attempted, tries, faults>>

Event == 1 .. MaxEvent

TypeOK ==
  /\ arrived \in 0 .. MaxEvent
  /\ kept \in 0 .. MaxEvent + 1
  /\ stored \in 0 .. MaxEvent + 1
  /\ offset \in 0 .. MaxEvent + 1
  /\ marked \subseteq Event
  /\ pc \in {"off", "loading", "polling", "filtering", "processing", "marking", "saving"}
  /\ loaded \in BOOLEAN
  /\ events \subseteq Event /\ pending \subseteq events /\ attempted \subseteq events
  /\ tries \in [Event -> Nat]
  /\ faults \in 0 .. MaxFaults

Init ==
  /\ arrived = 0 /\ kept = 0
  /\ stored = 0 /\ marked = {}
  /\ pc = "off" /\ offset = 0 /\ loaded = FALSE
  /\ events = {} /\ pending = {} /\ attempted = {}
  /\ tries = [e \in Event |-> 0]
  /\ faults = 0

\* The locals of run_once are gone.
RoundIsOver(next) ==
  /\ pc' = next
  /\ events' = {} /\ pending' = {} /\ attempted' = {}

Larger(m, n) == IF m < n THEN n ELSE m

-----------------------------------------------------------------------------
\* A user writes to the bot.
Arrive ==
  /\ arrived < MaxEvent
  /\ arrived' = arrived + 1
  /\ UNCHANGED <<kept, stored, marked, pc, offset, loaded, events, pending, attempted,
                 tries, faults>>

Start ==
  /\ pc = "off"
  /\ pc' = "loading"
  /\ UNCHANGED <<arrived, kept, stored, marked, offset, loaded, events, pending,
                 attempted, tries, faults>>

Load ==
  /\ pc = "loading"
  /\ pc' = "polling"
  /\ loaded' = TRUE
  /\ offset' = IF loaded THEN offset ELSE stored
  /\ UNCHANGED <<arrived, kept, stored, marked, events, pending, attempted, tries, faults>>

\* The server's side of a poll: the offset confirms the events below it.
Confirmed == Larger(kept, offset)
Response == {e \in Event : Confirmed <= e /\ e <= arrived /\ e < Larger(1, Confirmed) + Limit}

Poll ==
  /\ pc = "polling"
  /\ kept' = Confirmed
  /\ events' = Response
  /\ pc' = IF Response = {} THEN "loading" ELSE "filtering"
  /\ UNCHANGED <<arrived, stored, marked, offset, loaded, pending, attempted, tries, faults>>

\* Faulty: the offset is saved before the events are processed.
FilterSavesOffset ==
  /\ pc = "filtering"
  /\ pending' = events \ marked
  /\ pc' = IF pending' = {} THEN "saving" ELSE "processing"
  /\ \E m \in events : (\A e \in events : e <= m) /\ offset' = m + 1 /\ stored' = m + 1
  /\ UNCHANGED <<arrived, kept, marked, loaded, events, attempted, tries, faults>>

\* Faulty: a response of processed events only does not advance the offset.
FilterKeepsOffset ==
  /\ pc = "filtering"
  /\ IF events \subseteq marked
     THEN RoundIsOver("loading")
     ELSE pending' = events \ marked /\ pc' = "processing" /\ UNCHANGED <<events, attempted>>
  /\ UNCHANGED <<arrived, kept, stored, marked, offset, loaded, tries, faults>>

\* _pending_events
Filter ==
  /\ pc = "filtering"
  /\ pending' = events \ marked
  /\ pc' = IF pending' = {} THEN "saving" ELSE "processing"
  /\ UNCHANGED <<arrived, kept, stored, marked, offset, loaded, events, attempted, tries,
                 faults>>

\* ChannelEventProcessor.process, with the one event it is given
Handed(e) == tries' = [tries EXCEPT ![e] = @ + 1]

\* Faulty: the events are taken in any order.
ProcessAny(e) ==
  /\ pc = "processing"
  /\ e \in pending
  /\ pending' = pending \ {e}
  /\ attempted' = attempted \cup {e}
  /\ Handed(e)
  /\ pc' = IF pending' = {} THEN "marking" ELSE "processing"
  /\ UNCHANGED <<arrived, kept, stored, marked, offset, loaded, events, faults>>

\* Faulty: an event whose processing raises is tried again at once.
ProcessUntilSuccess(e) ==
  /\ pc = "processing"
  /\ e \in pending /\ \A d \in pending : e <= d
  /\ pending' \in {pending, pending \ {e}}
  /\ attempted' = attempted \cup {e}
  /\ Handed(e)
  /\ pc' = IF pending' = {} THEN "marking" ELSE "processing"
  /\ UNCHANGED <<arrived, kept, stored, marked, offset, loaded, events, faults>>

\* One event goes through the dispatcher.  Whether that succeeds or raises, the
\* round goes on.
Process(e) ==
  /\ pc = "processing"
  /\ e \in pending /\ \A d \in pending : e <= d
  /\ pending' = pending \ {e}
  /\ attempted' = attempted \cup {e}
  /\ Handed(e)
  /\ pc' = IF pending' = {} THEN "marking" ELSE "processing"
  /\ UNCHANGED <<arrived, kept, stored, marked, offset, loaded, events, faults>>

Mark(e) ==
  /\ pc = "marking"
  /\ e \in attempted /\ \A d \in attempted : e <= d
  /\ marked' = marked \cup {e}
  /\ attempted' = attempted \ {e}
  /\ pc' = IF attempted' = {} THEN "saving" ELSE "marking"
  /\ UNCHANGED <<arrived, kept, stored, offset, loaded, events, pending, tries, faults>>

\* _save_offset_for, with or without the store's cooperation
Save(done) ==
  /\ pc = "saving"
  /\ \E m \in events :
       /\ \A e \in events : e <= m
       /\ offset' = m + 1
       /\ stored' = IF done THEN m + 1 ELSE stored
  /\ done \/ faults < MaxFaults
  /\ faults' = IF done THEN faults ELSE faults + 1
  /\ RoundIsOver("loading")
  /\ UNCHANGED <<arrived, kept, marked, loaded, tries>>

\* A call of the channel or of the store raises: run_forever logs it and starts
\* another round.  The server may have received the poll all the same.
CallFails ==
  /\ pc \in {"loading", "polling", "filtering", "marking"}
  /\ pc = "loading" => ~loaded
  /\ faults < MaxFaults
  /\ faults' = faults + 1
  /\ kept' \in IF pc = "polling" THEN {kept, Confirmed} ELSE {kept}
  /\ RoundIsOver("loading")
  /\ UNCHANGED <<arrived, stored, marked, offset, loaded, tries>>

\* stop cancels the task wherever it is; the runner keeps its offset.
Stop ==
  /\ pc # "off"
  /\ faults < MaxFaults
  /\ faults' = faults + 1
  /\ RoundIsOver("off")
  /\ UNCHANGED <<arrived, kept, stored, marked, offset, loaded, tries>>

\* The process dies, and what is not in the store with it.
Crash ==
  /\ faults < MaxFaults
  /\ faults' = faults + 1
  /\ offset' = 0 /\ loaded' = FALSE
  /\ RoundIsOver("off")
  /\ UNCHANGED <<arrived, kept, stored, marked, tries>>

-----------------------------------------------------------------------------
Round ==
  \/ Load \/ Poll \/ Filter \/ Save(TRUE)
  \/ \E e \in Event : Process(e) \/ Mark(e)

Next == Arrive \/ Start \/ Round \/ Save(FALSE) \/ CallFails \/ Stop \/ Crash

Spec == Init /\ [][Next]_vars

\* The runner's task goes on with its round, and is started again when it is not
\* running.  Faults are bounded; no event has to arrive.
FairSpec == Spec /\ WF_vars(Start) /\ WF_vars(Round)

-----------------------------------------------------------------------------
(* Properties. *)

Attempted(e) == tries[e] > 0

\* Users are answered in the order in which they wrote: an event is given to the
\* bot for the first time only after all the earlier ones.
InOrder == \A d, e \in Event : d < e /\ Attempted(e) => Attempted(d)

\* Whatever crashes or fails between the poll and the store, the channel's server
\* never discards an event that the bot has not been given, and none is overtaken.
InTurn ==
  /\ \A e \in Event : e < kept => Attempted(e)
  /\ InOrder

\* Only a crash, a stop or a failed call makes the bot answer an event again.
DuplicatesNeedFaults == \A e \in Event : tries[e] <= 1 + faults

\* An event on record as processed is never given to the bot again, not even when
\* the offset was lost.
MarkedIsFinal == [][\A e \in marked : tries'[e] = tries[e]]_vars

\* An event that arrived is given to the bot some day.
EventuallyAttempted == \A e \in Event : e <= arrived ~> Attempted(e)

=============================================================================
