------------------------------- MODULE Outbox -------------------------------
(***************************************************************************)
(* The rate limit on messages that plugins send on their own account       *)
(* (application/plugins/outbox.py): a minimum interval between two sends   *)
(* to a session, and sliding windows that bound the sends to a session and *)
(* the sends of a plugin.                                                  *)
(*                                                                         *)
(* _reserve_send does not await anything while it looks at the histories,  *)
(* so it is one step, and the send to the channel starts in the same step; *)
(* its failure does not give the reservation back.  The log of accepted    *)
(* sends is kept by the model only: the limits are promises about it,      *)
(* while the code sees no more than the histories it has pruned.           *)
(***************************************************************************)
EXTENDS Integers, Sequences, FiniteSetsExt

CONSTANTS
  Plugin, Session,
  Window,         \* RATE_LIMIT_WINDOW_SECONDS
  MinInterval,    \* min_interval_seconds
  MaxPerSession,  \* max_per_session_per_hour
  MaxPerPlugin,   \* max_per_plugin_per_hour
  MaxTime         \* bound: the clock stops there

ASSUME OutboxAssumption ==
  /\ Window \in Nat \ {0} /\ MinInterval \in Nat
  /\ MaxPerSession \in Nat \ {0} /\ MaxPerPlugin \in Nat \ {0}
  /\ MaxTime \in Nat

VARIABLES
  now,             \* the monotonic clock
  sessionHistory,  \* _session_history
  pluginHistory,   \* _plugin_history
  log              \* every accepted rate-limited send, oldest first

outboxVars == <<now, sessionHistory, pluginHistory, log>>

Time == 0 .. MaxTime

OutboxTypes ==
  /\ now \in Time
  /\ sessionHistory \in [Plugin \X Session -> Seq(Time)]
  /\ pluginHistory \in [Plugin -> Seq(Time)]
  /\ log \in Seq([plugin : Plugin, session : Session, at : Time])

OutboxInit ==
  /\ now = 0
  /\ sessionHistory = [k \in Plugin \X Session |-> <<>>]
  /\ pluginHistory = [p \in Plugin |-> <<>>]
  /\ log = <<>>

-----------------------------------------------------------------------------
\* Faulty: an entry is forgotten a tick too early.
PurgedEarly(h) ==
  LET young == {i \in DOMAIN h : h[i] > now - Window + 1}
  IN  IF young = {} THEN <<>> ELSE SubSeq(h, Min(young), Len(h))

\* _purge_old: from the left, up to the first entry inside the window
Purged(h) ==
  LET young == {i \in DOMAIN h : h[i] > now - Window}
  IN  IF young = {} THEN <<>> ELSE SubSeq(h, Min(young), Len(h))

TooSoon(p, s) ==
  LET h == Purged(sessionHistory[<<p, s>>])
  IN  h # <<>> /\ now - h[Len(h)] < MinInterval

\* The checks of _reserve_send, in their order
Verdict(p, s) ==
  IF TooSoon(p, s) THEN "min_interval"
  ELSE IF Len(Purged(sessionHistory[<<p, s>>])) >= MaxPerSession THEN "session_hourly_limit"
  ELSE IF Len(Purged(pluginHistory[p])) >= MaxPerPlugin THEN "plugin_hourly_limit"
  ELSE "accepted"

\* send, without the right or the wish to bypass the limit; a bypassing send
\* touches none of this state
Send(p, s) ==
  /\ LET a == IF Verdict(p, s) = "accepted" THEN <<now>> ELSE <<>>
     IN  /\ sessionHistory' = [sessionHistory EXCEPT ![<<p, s>>] = Purged(@) \o a]
         /\ pluginHistory' = [pluginHistory EXCEPT ![p] = Purged(@) \o a]
  /\ log' = IF Verdict(p, s) = "accepted"
            THEN Append(log, [plugin |-> p, session |-> s, at |-> now]) ELSE log
  /\ UNCHANGED now

Tick ==
  /\ now < MaxTime
  /\ now' = now + 1
  /\ UNCHANGED <<sessionHistory, pluginHistory, log>>

OutboxNext == Tick \/ \E p \in Plugin, s \in Session : Send(p, s)

OutboxSpec == OutboxInit /\ [][OutboxNext]_outboxVars

-----------------------------------------------------------------------------
(* Properties, all of them about the log. *)

SentTo(p, s) == {i \in DOMAIN log : log[i].plugin = p /\ log[i].session = s}
SentBy(p) == {i \in DOMAIN log : log[i].plugin = p}

\* Those of I that lie in the window that ends at t.
InWindow(I, t) == {i \in I : t - Window < log[i].at /\ log[i].at <= t}

\* Two sends to a session are MinInterval apart, as far as the window reaches.
Spaced ==
  \A p \in Plugin, s \in Session : \A i, j \in SentTo(p, s) :
    i < j => log[j].at - log[i].at >= IF MinInterval <= Window THEN MinInterval ELSE Window

\* No window of the configured length, wherever it is laid, holds more sends to a
\* session or of a plugin than configured, and no two are too close, although what the
\* histories have forgotten is not counted.
WindowsAreBounded ==
  /\ Spaced
  /\ \A p \in Plugin, t \in Time :
       /\ Cardinality(InWindow(SentBy(p), t)) <= MaxPerPlugin
       /\ \A s \in Session : Cardinality(InWindow(SentTo(p, s), t)) <= MaxPerSession

\* The limiter refuses nothing it should accept: a send that respects the three
\* limits is accepted.
NoFalseRefusal ==
  \A p \in Plugin, s \in Session :
    /\ \A i \in SentTo(p, s) : now - log[i].at >= MinInterval
    /\ Cardinality(InWindow(SentTo(p, s), now)) < MaxPerSession
    /\ Cardinality(InWindow(SentBy(p), now)) < MaxPerPlugin
    => Verdict(p, s) = "accepted"

\* The limits are exact: nothing beyond them is accepted, nothing within them refused,
\* at every boundary of a window and whatever the histories have forgotten.
LimitsAreExact == WindowsAreBounded /\ NoFalseRefusal
=============================================================================
