------------------------- MODULE PluginServicesProofs -------------------------
(***************************************************************************)
(* Proofs about three services that plugins meet, which share no state:    *)
(* the outbox, the scheduler's table of coroutines, and the routers of a   *)
(* plugin with the reader of the words behind a command.                   *)
(***************************************************************************)
EXTENDS Outbox, ManagedTasks, PluginRoutes, FiniteSetTheorems, SequenceTheorems, WellFoundedInduction, TLAPS

-----------------------------------------------------------------------------
(* The outbox. *)

\* The accepted sends, in the order of their times.
LogInOrder ==
  /\ \A i \in DOMAIN log : log[i].at <= now
  /\ \A i, j \in DOMAIN log : i < j => log[i].at <= log[j].at

\* The history h holds the times of accepted sends among I, each once and in their order,
\* and misses none that the window still reaches.
Mirrors(h, I) ==
  \E f \in [DOMAIN h -> I] :
    /\ \A k, l \in DOMAIN h : k < l => f[k] < f[l]
    /\ \A k \in DOMAIN h : h[k] = log[f[k]].at
    /\ \A i \in I : log[i].at > now - Window => \E k \in DOMAIN h : f[k] = i

HistoriesMirror ==
  /\ \A p \in Plugin : Mirrors(pluginHistory[p], SentBy(p))
  /\ \A p \in Plugin, s \in Session : Mirrors(sessionHistory[<<p, s>>], SentTo(p, s))

OutboxInv == OutboxTypes /\ LogInOrder /\ HistoriesMirror

-----------------------------------------------------------------------------
(* Pruning. *)

LEMMA LogTyped ==
  ASSUME OutboxTypes
  PROVE  /\ DOMAIN log = 1 .. Len(log) /\ Len(log) \in Nat
         /\ \A i \in DOMAIN log : /\ log[i].plugin \in Plugin /\ log[i].session \in Session
                                  /\ log[i].at \in Int
         /\ now \in Int /\ Window \in Int
<1> DEFINE Sends == [plugin : Plugin, session : Session, at : Time]
<1>1. log \in Seq(Sends)
  BY DEF OutboxTypes
<1>2. DOMAIN log = 1 .. Len(log) /\ Len(log) \in Nat /\ \A i \in DOMAIN log : log[i] \in Sends
  <2> HIDE DEF Sends
  <2> QED
    BY <1>1, LenProperties, ElementOfSeq
<1> QED
  BY <1>2, OutboxAssumption DEF OutboxTypes, Time

LEMMA LeastNatural ==
  ASSUME NEW T, T \subseteq Nat, T # {}
  PROVE  Min(T) \in T /\ \A y \in T : Min(T) <= y
<1> DEFINE R == OpToRel(<, Nat)
<1>1. \A x, y \in Nat : y < x => <<y, x>> \in R
  BY DEF OpToRel
<1>2. \E x \in T : \A y \in T : ~ (<<y, x>> \in R)
  <2> HIDE DEF R
  <2>1. IsWellFoundedOn(R, Nat)
    BY NatLessThanWellFounded DEF R
  <2> QED
    BY <2>1, WFMin
<1> HIDE DEF R
<1>3. PICK x \in T : \A y \in T : ~ (<<y, x>> \in R)
  BY <1>2
<1>4. ASSUME NEW y \in T PROVE x <= y
  <2>1. ~ (y < x)
    BY <1>1, <1>3
  <2> QED
    BY <2>1
<1> QED
  BY <1>4 DEF Min

\* What is left of a history whose times do not decrease: the entries inside the window.
LEMMA PurgedKeepsTheYoung ==
  ASSUME OutboxTypes, NEW h \in Seq(Time), \A k, l \in DOMAIN h : k < l => h[k] <= h[l]
  PROVE  \E m \in 1 .. Len(h) + 1 :
           /\ Purged(h) \in Seq(Time) /\ Len(Purged(h)) = Len(h) - m + 1
           /\ \A k \in 1 .. Len(h) - m + 1 : Purged(h)[k] = h[m + k - 1]
           /\ \A k \in DOMAIN h : h[k] > now - Window <=> k >= m
<1> DEFINE young == {k \in DOMAIN h : h[k] > now - Window}
<1>1. /\ DOMAIN h = 1 .. Len(h) /\ Len(h) \in Nat /\ \A k \in DOMAIN h : h[k] \in Int
      /\ now \in Int /\ Window \in Int
  BY OutboxAssumption DEF OutboxTypes, Time
<1>2. CASE young = {}
  <2>1. Purged(h) = << >>
    BY <1>2 DEF Purged
  <2>2. \A k \in DOMAIN h : h[k] > now - Window <=> k >= Len(h) + 1
    BY <1>1, <1>2
  <2> QED
    BY <1>1, <2>1, <2>2
<1>3. CASE young # {}
  <2> DEFINE m == Min(young)
  <2>1. m \in young /\ \A y \in young : m <= y
    <3>1. young \subseteq Nat
      BY <1>1
    <3> QED
      BY <1>3, <3>1, LeastNatural
  <2>2. Purged(h) = SubSeq(h, m, Len(h))
    BY <1>3 DEF Purged
  <2> HIDE DEF m
  <2>3. m \in 1 .. Len(h)
    BY <1>1, <2>1
  <2>4. \A k \in DOMAIN h : h[k] > now - Window <=> k >= m
    <3>1. ASSUME NEW k \in DOMAIN h, k > m PROVE h[k] > now - Window
      <4>1. h[m] > now - Window /\ h[m] <= h[k]
        BY <1>1, <2>1, <2>3, <3>1
      <4> QED
        BY <1>1, <2>3, <4>1
    <3> QED
      BY <1>1, <2>1, <2>3, <3>1
  <2>5. /\ SubSeq(h, m, Len(h)) \in Seq(Time)
        /\ Len(SubSeq(h, m, Len(h))) = Len(h) - m + 1
        /\ \A k \in 1 .. Len(h) - m + 1 : SubSeq(h, m, Len(h))[k] = h[m + k - 1]
    BY <1>1, <2>3, SubSeqProperties
  <2> QED
    BY <1>1, <2>2, <2>3, <2>4, <2>5
<1> QED
  BY <1>2, <1>3

\* A history that mirrors sends does so after pruning, and holds then nothing else.
LEMMA PurgedMirrors ==
  ASSUME OutboxTypes, LogInOrder, NEW h \in Seq(Time), NEW I \in SUBSET DOMAIN log, Mirrors(h, I)
  PROVE  /\ Purged(h) \in Seq(Time) /\ Mirrors(Purged(h), I)
         /\ \A k \in DOMAIN Purged(h) : Purged(h)[k] > now - Window
<1>1. PICK f \in [DOMAIN h -> I] :
        /\ \A k, l \in DOMAIN h : k < l => f[k] < f[l]
        /\ \A k \in DOMAIN h : h[k] = log[f[k]].at
        /\ \A i \in I : log[i].at > now - Window => \E k \in DOMAIN h : f[k] = i
  BY DEF Mirrors
<1>2. \A k, l \in DOMAIN h : k < l => h[k] <= h[l]
  BY <1>1 DEF LogInOrder
<1>3. PICK m \in 1 .. Len(h) + 1 :
        /\ Purged(h) \in Seq(Time) /\ Len(Purged(h)) = Len(h) - m + 1
        /\ \A k \in 1 .. Len(h) - m + 1 : Purged(h)[k] = h[m + k - 1]
        /\ \A k \in DOMAIN h : h[k] > now - Window <=> k >= m
  BY <1>2, PurgedKeepsTheYoung
<1> DEFINE n == Len(h) - m + 1
           g == [k \in 1 .. n |-> f[m + k - 1]]
<1>4. /\ DOMAIN h = 1 .. Len(h) /\ DOMAIN Purged(h) = 1 .. n
      /\ \A k \in 1 .. n : m + k - 1 \in DOMAIN h /\ m + k - 1 >= m
  BY <1>3
<1>5. \A k \in 1 .. n : Purged(h)[k] > now - Window
  BY <1>3, <1>4
<1>6. g \in [DOMAIN Purged(h) -> I]
  BY <1>1, <1>4
<1>7. ASSUME NEW k \in 1 .. n, NEW l \in 1 .. n, k < l PROVE g[k] < g[l]
  <2>1. m + k - 1 < m + l - 1
    BY <1>7
  <2> QED
    BY <1>1, <1>4, <2>1
<1>8. \A k \in 1 .. n : Purged(h)[k] = log[g[k]].at
  BY <1>1, <1>3, <1>4
<1>9. ASSUME NEW i \in I, log[i].at > now - Window PROVE \E k \in 1 .. n : g[k] = i
  <2>1. PICK l \in DOMAIN h : f[l] = i
    BY <1>1, <1>9
  <2>2. l >= m
    BY <1>1, <1>3, <1>9, <2>1
  <2>3. l - m + 1 \in 1 .. n /\ m + (l - m + 1) - 1 = l
    BY <1>4, <2>2
  <2> QED
    BY <2>1, <2>3
<1>10. /\ g \in [DOMAIN Purged(h) -> I]
       /\ \A k, l \in DOMAIN Purged(h) : k < l => g[k] < g[l]
       /\ \A k \in DOMAIN Purged(h) : Purged(h)[k] = log[g[k]].at
       /\ \A i \in I : log[i].at > now - Window => \E k \in DOMAIN Purged(h) : g[k] = i
  <2> HIDE DEF g, n
  <2> QED
    BY <1>4, <1>6, <1>7, <1>8, <1>9
<1>11. Mirrors(Purged(h), I)
  <2> HIDE DEF g
  <2> QED
    BY <1>10 DEF Mirrors
<1> QED
  BY <1>3, <1>4, <1>5, <1>11

\* So its length is the number of those sends in the window that ends now.
LEMMA PurgedCounts ==
  ASSUME OutboxTypes, LogInOrder, NEW h \in Seq(Time), NEW I \in SUBSET DOMAIN log, Mirrors(h, I)
  PROVE  Len(Purged(h)) = Cardinality(InWindow(I, now))
<1> DEFINE q == Purged(h)
           T == InWindow(I, now)
<1>1. q \in Seq(Time) /\ Mirrors(q, I) /\ \A k \in DOMAIN q : q[k] > now - Window
  BY PurgedMirrors
<1> HIDE DEF q
<1>2. PICK f \in [DOMAIN q -> I] :
        /\ \A k, l \in DOMAIN q : k < l => f[k] < f[l]
        /\ \A k \in DOMAIN q : q[k] = log[f[k]].at
        /\ \A i \in I : log[i].at > now - Window => \E k \in DOMAIN q : f[k] = i
  BY <1>1 DEF Mirrors
<1>3. DOMAIN q = 1 .. Len(q) /\ Len(q) \in Nat
  BY <1>1
<1>4. \A i \in I : log[i].at \in Int /\ log[i].at <= now
  BY LogTyped DEF LogInOrder
<1>5. now \in Int /\ Window \in Int
  BY LogTyped
<1>6. \A i \in T : \E k \in 1 .. Len(q) : f[k] = i
  BY <1>2, <1>3, <1>4, <1>5 DEF InWindow
<1>7. \A k \in 1 .. Len(q) : f[k] \in T
  BY <1>1, <1>2, <1>3, <1>4, <1>5 DEF InWindow
<1>8. \A k, l \in 1 .. Len(q) : f[k] = f[l] => k = l
  <2>1. I \subseteq Int
    OBVIOUS
  <2> QED
    BY <1>2, <1>3, <2>1
<1>9. f \in Bijection(1 .. Len(q), T)
  BY <1>2, <1>3, <1>6, <1>7, <1>8 DEF Bijection, Injection, Surjection, IsInjective
<1>10. Cardinality(T) = Len(q)
  BY <1>3, <1>9, FS_CountingElements DEF ExistsBijection
<1> QED
  BY <1>10 DEF q

-----------------------------------------------------------------------------
(* The invariant. *)

LEMMA SentAreLogged ==
  /\ \A p : SentBy(p) \in SUBSET DOMAIN log
  /\ \A p, s : SentTo(p, s) \in SUBSET DOMAIN log
BY DEF SentBy, SentTo

\* Nothing is accepted, the clock may advance: what was mirrored is.
LEMMA MirrorsKept ==
  ASSUME OutboxTypes, now' \in Int, now' >= now, UNCHANGED log,
         NEW h, NEW I \in SUBSET DOMAIN log, Mirrors(h, I)
  PROVE  Mirrors(h, I)'
<1>1. \A i \in I : log[i].at > now' - Window => log[i].at > now - Window
  BY LogTyped
<1>2. log' = log
  OBVIOUS
<1> QED
  BY <1>1, <1>2 DEF Mirrors

LEMMA LogAppended ==
  ASSUME OutboxTypes, NEW e, log' = Append(log, e)
  PROVE  /\ \A i \in DOMAIN log : log'[i] = log[i] /\ i < Len(log) + 1
         /\ log'[Len(log) + 1] = e
<1>1. log \in Seq([plugin : Plugin, session : Session, at : Time])
  BY DEF OutboxTypes
<1>2. DOMAIN log = 1 .. Len(log) /\ Len(log) \in Nat
  BY <1>1
<1> QED
  BY <1>1, <1>2

\* What else is accepted does not disturb what is mirrored.
LEMMA MirrorsOthers ==
  ASSUME OutboxTypes, UNCHANGED now, NEW e, log' = Append(log, e),
         NEW h, NEW I \in SUBSET DOMAIN log, Mirrors(h, I)
  PROVE  Mirrors(h, I)'
<1>1. \A i \in I : log'[i] = log[i]
  BY LogTyped
<1> QED
  BY <1>1 DEF Mirrors

\* A send that is accepted is mirrored by the history it is added to.
LEMMA MirrorsAppended ==
  ASSUME OutboxTypes, UNCHANGED now, NEW e, e.at = now, log' = Append(log, e),
         NEW h \in Seq(Time), NEW I \in SUBSET DOMAIN log, Mirrors(h, I),
         NEW q, q = h \o <<now>>, NEW J, J = I \cup {Len(log) + 1}
  PROVE  Mirrors(q, J)'
<1> DEFINE n == Len(h) + 1
<1>1. PICK f \in [DOMAIN h -> I] :
        /\ \A k, l \in DOMAIN h : k < l => f[k] < f[l]
        /\ \A k \in DOMAIN h : h[k] = log[f[k]].at
        /\ \A i \in I : log[i].at > now - Window => \E k \in DOMAIN h : f[k] = i
  BY DEF Mirrors
<1> DEFINE g == [k \in 1 .. n |-> IF k = n THEN Len(log) + 1 ELSE f[k]]
<1>2. /\ DOMAIN h = 1 .. Len(h) /\ Len(h) \in Nat
      /\ DOMAIN q = 1 .. n /\ q[n] = now /\ \A k \in DOMAIN h : q[k] = h[k]
  BY DEF OutboxTypes
<1>3. /\ \A i \in DOMAIN log : log'[i] = log[i] /\ i < Len(log) + 1
      /\ log'[Len(log) + 1] = e
  BY LogAppended
<1>4. /\ \A k \in DOMAIN q : k = n \/ k \in DOMAIN h
      /\ n \in DOMAIN q /\ n \notin DOMAIN h
      /\ \A k \in DOMAIN h : k \in DOMAIN q /\ k < n
  BY <1>2
<1>5. g \in [DOMAIN q -> J] /\ g[n] = Len(log) + 1 /\ \A k \in DOMAIN h : g[k] = f[k]
  BY <1>1, <1>2, <1>4
<1> HIDE DEF g, n
<1>6. \A k, l \in DOMAIN q : k < l => g[k] < g[l]
  BY <1>1, <1>2, <1>3, <1>4, <1>5 DEF n
<1>7. \A k \in DOMAIN q : q[k] = log'[g[k]].at
  BY <1>1, <1>2, <1>3, <1>4, <1>5
<1>8. \A i \in J : log'[i].at > now - Window => \E k \in DOMAIN q : g[k] = i
  BY <1>1, <1>3, <1>4, <1>5
<1>9. now' = now
  OBVIOUS
<1> QED
  BY <1>5, <1>6, <1>7, <1>8, <1>9 DEF Mirrors

LEMMA OutboxBegins == OutboxInit => OutboxInv
<1> SUFFICES ASSUME OutboxInit PROVE OutboxInv
  OBVIOUS
<1>1. OutboxTypes
  BY OutboxAssumption DEF OutboxInit, OutboxTypes, Time
<1>2. LogInOrder
  BY DEF OutboxInit, LogInOrder
<1>3. HistoriesMirror
  <2>1. \A p : SentBy(p) = {}
    BY DEF OutboxInit, SentBy
  <2>2. \A p, s : SentTo(p, s) = {}
    BY DEF OutboxInit, SentTo
  <2>3. Mirrors(<< >>, {})
    <3>1. << >> \in [DOMAIN << >> -> {}] /\ DOMAIN << >> = {}
      OBVIOUS
    <3> QED
      BY <3>1 DEF Mirrors
  <2> QED
    BY <2>1, <2>2, <2>3 DEF OutboxInit, HistoriesMirror
<1> QED
  BY <1>1, <1>2, <1>3 DEF OutboxInv

\* What Send does, in terms of what is left of the histories.
LEMMA SendEffects ==
  ASSUME OutboxTypes, NEW p \in Plugin, NEW s \in Session, Send(p, s)
  PROVE  /\ now' = now
         /\ \A r \in Plugin \ {p} : pluginHistory'[r] = pluginHistory[r]
         /\ \A r \in Plugin, q \in Session : <<r, q>> # <<p, s>> =>
              sessionHistory'[<<r, q>>] = sessionHistory[<<r, q>>]
         /\ \/ /\ Verdict(p, s) = "accepted"
               /\ log' = Append(log, [plugin |-> p, session |-> s, at |-> now])
               /\ pluginHistory'[p] = Purged(pluginHistory[p]) \o <<now>>
               /\ sessionHistory'[<<p, s>>] = Purged(sessionHistory[<<p, s>>]) \o <<now>>
            \/ /\ Verdict(p, s) # "accepted"
               /\ log' = log
               /\ pluginHistory'[p] = Purged(pluginHistory[p]) \o << >>
               /\ sessionHistory'[<<p, s>>] = Purged(sessionHistory[<<p, s>>]) \o << >>
BY DEF Send, OutboxTypes

LEMMA PurgedHistories ==
  ASSUME OutboxInv, NEW p \in Plugin, NEW s \in Session
  PROVE  /\ Purged(pluginHistory[p]) \in Seq(Time) /\ Purged(sessionHistory[<<p, s>>]) \in Seq(Time)
         /\ Mirrors(Purged(pluginHistory[p]), SentBy(p))
         /\ Mirrors(Purged(sessionHistory[<<p, s>>]), SentTo(p, s))
         /\ Len(Purged(pluginHistory[p])) = Cardinality(InWindow(SentBy(p), now))
         /\ Len(Purged(sessionHistory[<<p, s>>])) = Cardinality(InWindow(SentTo(p, s), now))
<1>1. pluginHistory[p] \in Seq(Time) /\ sessionHistory[<<p, s>>] \in Seq(Time)
  BY DEF OutboxInv, OutboxTypes
<1>2. Mirrors(pluginHistory[p], SentBy(p)) /\ Mirrors(sessionHistory[<<p, s>>], SentTo(p, s))
  BY DEF OutboxInv, HistoriesMirror
<1> QED
  BY <1>1, <1>2, SentAreLogged, PurgedMirrors, PurgedCounts DEF OutboxInv

LEMMA SendTyped ==
  ASSUME OutboxInv, NEW p \in Plugin, NEW s \in Session, Send(p, s)
  PROVE  OutboxTypes' /\ LogInOrder'
<1>1. Purged(pluginHistory[p]) \in Seq(Time) /\ Purged(sessionHistory[<<p, s>>]) \in Seq(Time)
  BY PurgedHistories
<1>2. now \in Time /\ OutboxTypes
  BY DEF OutboxInv, OutboxTypes
<1>3. /\ Purged(pluginHistory[p]) \o <<now>> \in Seq(Time) /\ Purged(pluginHistory[p]) \o << >> \in Seq(Time)
      /\ Purged(sessionHistory[<<p, s>>]) \o <<now>> \in Seq(Time)
      /\ Purged(sessionHistory[<<p, s>>]) \o << >> \in Seq(Time)
  BY <1>1, <1>2
<1>4. pluginHistory' \in [Plugin -> Seq(Time)] /\ sessionHistory' \in [Plugin \X Session -> Seq(Time)]
  BY <1>2, <1>3 DEF Send, OutboxTypes
<1>5. log' = log \/ log' = Append(log, [plugin |-> p, session |-> s, at |-> now])
  BY DEF Send
<1> DEFINE Sends == [plugin : Plugin, session : Session, at : Time]
<1>6. [plugin |-> p, session |-> s, at |-> now] \in Sends
  BY <1>2
<1>7. log \in Seq(Sends)
  BY <1>2 DEF OutboxTypes
<1>8. log' \in Seq(Sends)
  <2> HIDE DEF Sends
  <2> QED
    BY <1>5, <1>6, <1>7, AppendProperties
<1>9. OutboxTypes'
  BY <1>2, <1>4, <1>8 DEF Send, OutboxTypes
<1>10. LogInOrder'
  <2>1. now' = now
    BY DEF Send
  <2>2. CASE log' = log
    BY <2>1, <2>2 DEF OutboxInv, LogInOrder
  <2>3. CASE log' = Append(log, [plugin |-> p, session |-> s, at |-> now])
    <3>1. /\ DOMAIN log' = 1 .. Len(log) + 1
          /\ \A i \in DOMAIN log : log'[i] = log[i]
          /\ log'[Len(log) + 1].at = now
      BY <1>2, <2>3, LogTyped
    <3> QED
      BY <1>2, <2>1, <3>1, LogTyped DEF OutboxInv, LogInOrder
  <2> QED
    BY <1>5, <2>2, <2>3
<1> QED
  BY <1>9, <1>10

\* Which sends are to whom, after a send that was accepted.
LEMMA SentAfter ==
  ASSUME OutboxTypes, NEW p \in Plugin, NEW s \in Session,
         log' = Append(log, [plugin |-> p, session |-> s, at |-> now])
  PROVE  /\ \A r \in Plugin : SentBy(r)' = IF r = p THEN SentBy(r) \cup {Len(log) + 1} ELSE SentBy(r)
         /\ \A r \in Plugin, q \in Session :
              SentTo(r, q)' = IF r = p /\ q = s THEN SentTo(r, q) \cup {Len(log) + 1} ELSE SentTo(r, q)
         /\ \A i \in DOMAIN log : log'[i] = log[i]
         /\ log'[Len(log) + 1].at = now /\ Len(log) + 1 \notin DOMAIN log
<1>1. /\ DOMAIN log' = DOMAIN log \cup {Len(log) + 1} /\ Len(log) + 1 \notin DOMAIN log
      /\ \A i \in DOMAIN log : log'[i] = log[i]
      /\ log'[Len(log) + 1] = [plugin |-> p, session |-> s, at |-> now]
  BY LogTyped
<1> QED
  BY <1>1 DEF SentBy, SentTo

LEMMA SendMirrors ==
  ASSUME OutboxInv, NEW p \in Plugin, NEW s \in Session, Send(p, s)
  PROVE  HistoriesMirror'
<1>1. OutboxTypes /\ now' = now /\ now \in Int
  BY LogTyped DEF OutboxInv, Send
<1>2. PICK h : h = Purged(pluginHistory[p])
  OBVIOUS
<1>3. PICK g : g = Purged(sessionHistory[<<p, s>>])
  OBVIOUS
<1>4. PICK I : I = SentBy(p)
  OBVIOUS
<1>5. PICK J : J = SentTo(p, s)
  OBVIOUS
<1>6. /\ h \in Seq(Time) /\ Mirrors(h, I) /\ I \in SUBSET DOMAIN log
      /\ g \in Seq(Time) /\ Mirrors(g, J) /\ J \in SUBSET DOMAIN log
  BY <1>2, <1>3, <1>4, <1>5, PurgedHistories, SentAreLogged
<1>7. CASE Verdict(p, s) = "accepted"
  <2>1. PICK e : e = [plugin |-> p, session |-> s, at |-> now]
    OBVIOUS
  <2>2. /\ log' = Append(log, e) /\ e.at = now
        /\ pluginHistory'[p] = h \o <<now>> /\ sessionHistory'[<<p, s>>] = g \o <<now>>
    BY <1>1, <1>2, <1>3, <1>7, <2>1, SendEffects
  <2>3. PICK n : n = now
    OBVIOUS
  <2>4. PICK K : K = I \cup {Len(log) + 1}
    OBVIOUS
  <2>5. PICK L : L = J \cup {Len(log) + 1}
    OBVIOUS
  <2>6. Mirrors(h \o <<n>>, K)' /\ Mirrors(g \o <<n>>, L)'
    <3>1. PICK a : a = h \o <<now>>
      OBVIOUS
    <3>2. PICK b : b = g \o <<now>>
      OBVIOUS
    <3>3. Mirrors(a, K)'
      BY <1>1, <1>6, <2>2, <2>4, <3>1, MirrorsAppended
    <3>4. Mirrors(b, L)'
      BY <1>1, <1>6, <2>2, <2>5, <3>2, MirrorsAppended
    <3> QED
      BY <2>3, <3>1, <3>2, <3>3, <3>4
  <2>7. /\ \A r \in Plugin : SentBy(r)' = IF r = p THEN K ELSE SentBy(r)
        /\ \A r \in Plugin, q \in Session : SentTo(r, q)' = IF r = p /\ q = s THEN L ELSE SentTo(r, q)
    BY <1>1, <1>4, <1>5, <2>1, <2>2, <2>4, <2>5, SentAfter
  <2>8. ASSUME NEW r \in Plugin PROVE Mirrors(pluginHistory[r], SentBy(r))'
    <3>1. CASE r = p
      <4>1. pluginHistory'[r] = h \o <<n>> /\ SentBy(r)' = K
        BY <2>2, <2>3, <2>7, <3>1
      <4> QED
        BY <2>6, <4>1
    <3>2. CASE r # p
      <4>1. PICK f : f = pluginHistory[r]
        OBVIOUS
      <4>2. PICK M : M = SentBy(r)
        OBVIOUS
      <4>3. Mirrors(f, M)'
        BY <1>1, <2>2, <4>1, <4>2, SentAreLogged, MirrorsOthers DEF OutboxInv, HistoriesMirror
      <4>4. pluginHistory'[r] = f /\ SentBy(r)' = M
        <5>1. pluginHistory'[r] = pluginHistory[r]
          BY <1>1, <3>2, SendEffects
        <5>2. SentBy(r)' = M
          BY <2>7, <3>2, <4>2
        <5> QED
          BY <4>1, <5>1, <5>2
      <4> QED
        BY <4>3, <4>4
    <3> QED
      BY <3>1, <3>2
  <2>9. ASSUME NEW r \in Plugin, NEW q \in Session PROVE Mirrors(sessionHistory[<<r, q>>], SentTo(r, q))'
    <3>1. CASE r = p /\ q = s
      <4>1. sessionHistory'[<<r, q>>] = g \o <<n>> /\ SentTo(r, q)' = L
        BY <2>2, <2>3, <2>7, <3>1
      <4> QED
        BY <2>6, <4>1
    <3>2. CASE ~ (r = p /\ q = s)
      <4>1. PICK f : f = sessionHistory[<<r, q>>]
        OBVIOUS
      <4>2. PICK M : M = SentTo(r, q)
        OBVIOUS
      <4>3. Mirrors(f, M)'
        BY <1>1, <2>2, <4>1, <4>2, SentAreLogged, MirrorsOthers DEF OutboxInv, HistoriesMirror
      <4>4. sessionHistory'[<<r, q>>] = f /\ SentTo(r, q)' = M
        <5>1. <<r, q>> # <<p, s>>
          BY <3>2
        <5>2. sessionHistory'[<<r, q>>] = sessionHistory[<<r, q>>]
          BY <1>1, <5>1, SendEffects
        <5>3. SentTo(r, q)' = M
          BY <2>7, <3>2, <4>2
        <5> QED
          BY <4>1, <5>2, <5>3
      <4> QED
        BY <4>3, <4>4
    <3> QED
      BY <3>1, <3>2
  <2> QED
    BY <2>8, <2>9 DEF HistoriesMirror
<1>8. CASE Verdict(p, s) # "accepted"
  <2>1. log' = log /\ pluginHistory'[p] = h /\ sessionHistory'[<<p, s>>] = g
    <3>1. h \o << >> = h /\ g \o << >> = g
      BY <1>6, ConcatEmptySeq
    <3> QED
      BY <1>1, <1>2, <1>3, <1>8, <3>1, SendEffects
  <2>2. (\A r : SentBy(r)' = SentBy(r)) /\ (\A r, q : SentTo(r, q)' = SentTo(r, q))
    BY <2>1 DEF SentBy, SentTo
  <2>3. ASSUME NEW r \in Plugin PROVE Mirrors(pluginHistory[r], SentBy(r))'
    <3>1. PICK f : f = IF r = p THEN h ELSE pluginHistory[r]
      OBVIOUS
    <3>2. PICK M : M = SentBy(r)
      OBVIOUS
    <3>3. Mirrors(f, M) /\ M \in SUBSET DOMAIN log
      BY <1>4, <1>6, <3>1, <3>2, SentAreLogged DEF OutboxInv, HistoriesMirror
    <3>4. Mirrors(f, M)'
      BY <1>1, <2>1, <3>3, MirrorsKept
    <3>5. pluginHistory'[r] = f /\ SentBy(r)' = M
      BY <1>1, <2>1, <2>2, <3>1, <3>2, SendEffects
    <3> QED
      BY <3>4, <3>5
  <2>4. ASSUME NEW r \in Plugin, NEW q \in Session PROVE Mirrors(sessionHistory[<<r, q>>], SentTo(r, q))'
    <3>1. PICK f : f = IF r = p /\ q = s THEN g ELSE sessionHistory[<<r, q>>]
      OBVIOUS
    <3>2. PICK M : M = SentTo(r, q)
      OBVIOUS
    <3>3. Mirrors(f, M) /\ M \in SUBSET DOMAIN log
      BY <1>5, <1>6, <3>1, <3>2, SentAreLogged DEF OutboxInv, HistoriesMirror
    <3>4. Mirrors(f, M)'
      BY <1>1, <2>1, <3>3, MirrorsKept
    <3>5. sessionHistory'[<<r, q>>] = f /\ SentTo(r, q)' = M
      BY <1>1, <2>1, <2>2, <3>1, <3>2, SendEffects
    <3> QED
      BY <3>4, <3>5
  <2> QED
    BY <2>3, <2>4 DEF HistoriesMirror
<1> QED
  BY <1>7, <1>8

LEMMA TickMirrors == OutboxInv /\ (Tick \/ UNCHANGED outboxVars) => OutboxInv'
<1> SUFFICES ASSUME OutboxInv, Tick \/ UNCHANGED outboxVars PROVE OutboxInv'
  OBVIOUS
<1>1. OutboxTypes /\ now' \in Int /\ now' >= now /\ UNCHANGED <<sessionHistory, pluginHistory, log>>
  BY LogTyped DEF OutboxInv, Tick, outboxVars
<1>2. OutboxTypes'
  BY <1>1, OutboxAssumption DEF OutboxTypes, Tick, outboxVars, Time
<1>3. LogInOrder'
  BY <1>1, LogTyped DEF OutboxInv, LogInOrder
<1>4. (\A p : SentBy(p)' = SentBy(p)) /\ (\A p, s : SentTo(p, s)' = SentTo(p, s))
  BY <1>1 DEF SentBy, SentTo
<1>5. ASSUME NEW p \in Plugin PROVE Mirrors(pluginHistory[p], SentBy(p))'
  <2>1. PICK f : f = pluginHistory[p]
    OBVIOUS
  <2>2. PICK M : M = SentBy(p)
    OBVIOUS
  <2>3. Mirrors(f, M)'
    BY <1>1, <2>1, <2>2, SentAreLogged, MirrorsKept DEF OutboxInv, HistoriesMirror
  <2> QED
    BY <1>1, <1>4, <2>1, <2>2, <2>3
<1>6. ASSUME NEW p \in Plugin, NEW s \in Session PROVE Mirrors(sessionHistory[<<p, s>>], SentTo(p, s))'
  <2>1. PICK f : f = sessionHistory[<<p, s>>]
    OBVIOUS
  <2>2. PICK M : M = SentTo(p, s)
    OBVIOUS
  <2>3. Mirrors(f, M)'
    BY <1>1, <2>1, <2>2, SentAreLogged, MirrorsKept DEF OutboxInv, HistoriesMirror
  <2> QED
    BY <1>1, <1>4, <2>1, <2>2, <2>3
<1> QED
  BY <1>2, <1>3, <1>5, <1>6 DEF OutboxInv, HistoriesMirror

LEMMA OutboxInvStep == OutboxInv /\ [OutboxNext]_outboxVars => OutboxInv'
BY SendTyped, SendMirrors, TickMirrors DEF OutboxInv, OutboxNext

\* The types, and that each history holds what its window reaches of what was accepted.
THEOREM HistoriesAreExact == OutboxSpec => []OutboxInv
BY OutboxBegins, OutboxInvStep, PTL DEF OutboxSpec

-----------------------------------------------------------------------------
(* The limits. *)

\* The interval is judged against every send in the window, not against the last only.
LEMMA TooSoonForSome ==
  ASSUME OutboxInv, NEW p \in Plugin, NEW s \in Session
  PROVE  TooSoon(p, s) <=> \E i \in InWindow(SentTo(p, s), now) : now - log[i].at < MinInterval
<1>1. PICK h : h = Purged(sessionHistory[<<p, s>>])
  OBVIOUS
<1>2. PICK I : I = SentTo(p, s)
  OBVIOUS
<1>3. /\ h \in Seq(Time) /\ Mirrors(h, I) /\ I \in SUBSET DOMAIN log
      /\ \A k \in DOMAIN h : h[k] > now - Window
  <2>1. sessionHistory[<<p, s>>] \in Seq(Time) /\ Mirrors(sessionHistory[<<p, s>>], SentTo(p, s))
    BY DEF OutboxInv, HistoriesMirror, OutboxTypes
  <2> QED
    BY <1>1, <1>2, <2>1, SentAreLogged, PurgedMirrors DEF OutboxInv
<1>4. PICK f \in [DOMAIN h -> I] :
        /\ \A k, l \in DOMAIN h : k < l => f[k] < f[l]
        /\ \A k \in DOMAIN h : h[k] = log[f[k]].at
        /\ \A i \in I : log[i].at > now - Window => \E k \in DOMAIN h : f[k] = i
  BY <1>3 DEF Mirrors
<1>5. /\ DOMAIN h = 1 .. Len(h) /\ Len(h) \in Nat
      /\ \A i \in DOMAIN log : log[i].at \in Int /\ log[i].at <= now
      /\ \A i, j \in DOMAIN log : i < j => log[i].at <= log[j].at
      /\ now \in Int /\ Window \in Int /\ MinInterval \in Int
  BY <1>3, LogTyped, OutboxAssumption DEF OutboxInv, LogInOrder
<1>6. TooSoon(p, s) <=> h # << >> /\ now - h[Len(h)] < MinInterval
  BY <1>1 DEF TooSoon
<1>7. ASSUME TooSoon(p, s) PROVE \E i \in InWindow(I, now) : now - log[i].at < MinInterval
  <2>1. Len(h) \in DOMAIN h
    BY <1>3, <1>5, <1>6, <1>7, EmptySeq
  <2>2. f[Len(h)] \in InWindow(I, now)
    BY <1>3, <1>4, <1>5, <2>1 DEF InWindow
  <2> QED
    BY <1>4, <1>6, <1>7, <2>1, <2>2
<1>8. ASSUME NEW i \in InWindow(I, now), now - log[i].at < MinInterval PROVE TooSoon(p, s)
  <2>1. i \in I /\ log[i].at > now - Window
    BY <1>3, <1>5 DEF InWindow
  <2>2. PICK k \in DOMAIN h : f[k] = i
    BY <1>4, <2>1
  <2>3. Len(h) \in DOMAIN h /\ (k = Len(h) \/ k < Len(h))
    BY <1>5
  <2>4. log[i].at <= h[Len(h)] /\ h[Len(h)] \in Int
    BY <1>3, <1>4, <1>5, <2>2, <2>3
  <2>5. h # << >>
    BY <1>5, <2>2
  <2> QED
    BY <1>3, <1>5, <1>6, <1>8, <2>1, <2>4, <2>5
<1> QED
  BY <1>2, <1>7, <1>8

\* The verdict by what was sent, not by what the histories remember.
LEMMA VerdictByTheLog ==
  ASSUME OutboxInv, NEW p \in Plugin, NEW s \in Session
  PROVE  Verdict(p, s) = "accepted" <=>
           /\ \A i \in InWindow(SentTo(p, s), now) : now - log[i].at >= MinInterval
           /\ Cardinality(InWindow(SentTo(p, s), now)) < MaxPerSession
           /\ Cardinality(InWindow(SentBy(p), now)) < MaxPerPlugin
<1>1. /\ \A i \in InWindow(SentTo(p, s), now) : log[i].at \in Int
      /\ now \in Int /\ MinInterval \in Int
  BY SentAreLogged, LogTyped, OutboxAssumption DEF OutboxInv, InWindow
<1>2. TooSoon(p, s) <=> ~ \A i \in InWindow(SentTo(p, s), now) : now - log[i].at >= MinInterval
  BY <1>1, TooSoonForSome
<1>3. /\ Cardinality(InWindow(SentTo(p, s), now)) = Len(Purged(sessionHistory[<<p, s>>]))
      /\ Cardinality(InWindow(SentBy(p), now)) = Len(Purged(pluginHistory[p]))
      /\ Len(Purged(sessionHistory[<<p, s>>])) \in Nat /\ Len(Purged(pluginHistory[p])) \in Nat
  BY PurgedHistories
<1> QED
  BY <1>2, <1>3, OutboxAssumption DEF Verdict

LEMMA NothingRefusedFalsely == OutboxInv => NoFalseRefusal
<1> SUFFICES ASSUME OutboxInv, NEW p \in Plugin, NEW s \in Session,
                    \A i \in SentTo(p, s) : now - log[i].at >= MinInterval,
                    Cardinality(InWindow(SentTo(p, s), now)) < MaxPerSession,
                    Cardinality(InWindow(SentBy(p), now)) < MaxPerPlugin
             PROVE  Verdict(p, s) = "accepted"
  BY DEF NoFalseRefusal
<1>1. InWindow(SentTo(p, s), now) \subseteq SentTo(p, s)
  BY DEF InWindow
<1> QED
  BY <1>1, VerdictByTheLog

\* The windows that end before an accepted send do not change; what the others reach was
\* counted when it was accepted.
LEMMA WindowsAfter ==
  ASSUME OutboxTypes, LogInOrder, NEW I \in SUBSET DOMAIN log, NEW t \in Time, now' = now,
         NEW n, n = Len(log) + 1, NEW J, J \in {I, I \cup {n}},
         \A i \in DOMAIN log : log'[i] = log[i], log'[n].at = now,
         NEW max \in Nat, Cardinality(InWindow(I, t)) <= max,
         J = I \cup {n} => Cardinality(InWindow(I, now)) < max
  PROVE  Cardinality(InWindow(J, t)') <= max
<1>1. /\ \A i \in DOMAIN log : log[i].at \in Int /\ log[i].at <= now /\ i # n
      /\ now \in Int /\ Window \in Int /\ t \in Int
  BY LogTyped DEF LogInOrder, Time
<1>2. IsFiniteSet(DOMAIN log)
  <2>1. DOMAIN log = 1 .. Len(log) /\ Len(log) \in Nat
    BY LogTyped
  <2>2. IsFiniteSet(1 .. Len(log))
    BY <2>1, FS_Interval
  <2> QED
    BY <2>1, <2>2
<1>3. \A T \in SUBSET DOMAIN log : IsFiniteSet(T) /\ Cardinality(T) \in Nat
  BY <1>2, FS_Subset, FS_CardinalityType
<1>4. InWindow(I, t) \in SUBSET DOMAIN log /\ InWindow(I, now) \in SUBSET DOMAIN log
  BY DEF InWindow
<1>5. CASE J = I \/ t < now
  <2>1. InWindow(J, t)' = InWindow(I, t)
    BY <1>1, <1>5 DEF InWindow
  <2> QED
    BY <2>1
<1>6. CASE J = I \cup {n} /\ ~ (t < now)
  <2> DEFINE T == InWindow(I, now)
  <2>1. InWindow(J, t)' \in SUBSET (T \cup {n})
    BY <1>1, <1>6 DEF InWindow
  <2>2. n \notin T
    BY <1>1 DEF InWindow
  <2>3. IsFiniteSet(T) /\ Cardinality(T) \in Nat /\ Cardinality(T) < max
    BY <1>3, <1>4, <1>6
  <2> HIDE DEF T
  <2>4. IsFiniteSet(T \cup {n}) /\ Cardinality(T \cup {n}) = Cardinality(T) + 1
    BY <2>2, <2>3, FS_AddElement
  <2>5. Cardinality(InWindow(J, t)') <= Cardinality(T \cup {n}) /\ IsFiniteSet(InWindow(J, t)')
    BY <2>1, <2>4, FS_Subset
  <2>6. Cardinality(InWindow(J, t)') \in Nat
    BY <2>5, FS_CardinalityType
  <2> QED
    BY <2>3, <2>4, <2>5, <2>6
<1> QED
  BY <1>5, <1>6

Interval == IF MinInterval <= Window THEN MinInterval ELSE Window

\* An accepted send is far enough from all earlier ones, those that were forgotten too.
LEMMA SpacedAfter ==
  ASSUME OutboxInv, Spaced, NEW p \in Plugin, NEW s \in Session, Send(p, s)
  PROVE  Spaced'
<1>1. /\ \A i \in DOMAIN log : log[i].at \in Int /\ log[i].at <= now /\ i # Len(log) + 1
      /\ now \in Int /\ Window \in Int /\ MinInterval \in Int
  BY LogTyped, OutboxAssumption DEF OutboxInv, LogInOrder
<1>2. CASE Verdict(p, s) # "accepted"
  <2>1. log' = log
    BY <1>2 DEF Send
  <2> QED
    BY <2>1 DEF Spaced, SentTo
<1>3. CASE Verdict(p, s) = "accepted"
  <2>1. log' = Append(log, [plugin |-> p, session |-> s, at |-> now]) /\ OutboxTypes
    BY <1>3 DEF Send, OutboxInv
  <2>2. /\ \A r \in Plugin, q \in Session :
             SentTo(r, q)' = IF r = p /\ q = s THEN SentTo(r, q) \cup {Len(log) + 1} ELSE SentTo(r, q)
        /\ \A i \in DOMAIN log : log'[i] = log[i]
        /\ log'[Len(log) + 1].at = now
    BY <2>1, SentAfter
  <2>3. \A i \in SentTo(p, s) : now - log[i].at >= Interval
    <3>1. ASSUME NEW i \in SentTo(p, s) PROVE now - log[i].at >= Interval
      <4>1. i \in DOMAIN log
        BY DEF SentTo
      <4>2. CASE log[i].at > now - Window
        <5>1. i \in InWindow(SentTo(p, s), now)
          BY <1>1, <4>1, <4>2 DEF InWindow
        <5>2. now - log[i].at >= MinInterval
          BY <1>3, <5>1, VerdictByTheLog
        <5> QED
          BY <1>1, <4>1, <5>2 DEF Interval
      <4>3. CASE ~ (log[i].at > now - Window)
        BY <1>1, <4>1, <4>3 DEF Interval
      <4> QED
        BY <4>2, <4>3
    <3> QED
      BY <3>1
  <2>4. ASSUME NEW r \in Plugin, NEW q \in Session, NEW i \in SentTo(r, q)', NEW j \in SentTo(r, q)', i < j
        PROVE  log'[j].at - log'[i].at >= Interval
    <3>1. SentTo(r, q) \in SUBSET DOMAIN log /\ \A k \in DOMAIN log : k < Len(log) + 1 /\ k \in Nat
      BY <2>1, SentAreLogged, LogTyped
    <3>2. CASE j \in SentTo(r, q)
      <4>1. i \in SentTo(r, q)
        BY <2>2, <2>4, <3>1, <3>2, LogTyped, <2>1
      <4> QED
        BY <2>2, <2>4, <3>1, <3>2, <4>1 DEF Spaced, Interval
    <3>3. CASE j \notin SentTo(r, q)
      <4>1. r = p /\ q = s /\ j = Len(log) + 1 /\ i \in SentTo(p, s)
        BY <2>2, <2>4, <3>1, <3>3
      <4> QED
        BY <2>2, <2>3, <3>1, <4>1
    <3> QED
      BY <3>2, <3>3
  <2> QED
    BY <2>4 DEF Spaced, Interval
<1> QED
  BY <1>2, <1>3

LEMMA WindowsStep == OutboxInv /\ WindowsAreBounded /\ [OutboxNext]_outboxVars => WindowsAreBounded'
<1> SUFFICES ASSUME OutboxInv, WindowsAreBounded, [OutboxNext]_outboxVars PROVE WindowsAreBounded'
  OBVIOUS
<1>1. ASSUME NEW p \in Plugin, NEW s \in Session, Send(p, s) PROVE WindowsAreBounded'
  <2>1. Spaced'
    BY <1>1, SpacedAfter DEF WindowsAreBounded
  <2>2. OutboxTypes /\ LogInOrder /\ now' = now /\ MaxPerPlugin \in Nat /\ MaxPerSession \in Nat
    BY <1>1, OutboxAssumption DEF OutboxInv, Send
  <2>3. CASE Verdict(p, s) # "accepted"
    <3>1. log' = log
      BY <1>1, <2>3 DEF Send
    <3> QED
      BY <2>1, <3>1 DEF WindowsAreBounded, InWindow, SentBy, SentTo
  <2>4. CASE Verdict(p, s) = "accepted"
    <3>1. log' = Append(log, [plugin |-> p, session |-> s, at |-> now])
      BY <1>1, <2>4 DEF Send
    <3>2. PICK n : n = Len(log) + 1
      OBVIOUS
    <3>3. /\ \A r \in Plugin : SentBy(r)' = IF r = p THEN SentBy(r) \cup {n} ELSE SentBy(r)
          /\ \A r \in Plugin, q \in Session :
               SentTo(r, q)' = IF r = p /\ q = s THEN SentTo(r, q) \cup {n} ELSE SentTo(r, q)
          /\ \A i \in DOMAIN log : log'[i] = log[i]
          /\ log'[n].at = now /\ n \notin DOMAIN log
      BY <2>2, <3>1, <3>2, SentAfter
    <3>4. /\ Cardinality(InWindow(SentTo(p, s), now)) < MaxPerSession
          /\ Cardinality(InWindow(SentBy(p), now)) < MaxPerPlugin
      BY <2>4, VerdictByTheLog
    <3>5. ASSUME NEW r \in Plugin, NEW t \in Time
          PROVE  Cardinality(InWindow(SentBy(r), t)') <= MaxPerPlugin
      <4>1. PICK I : I = SentBy(r)
        OBVIOUS
      <4>2. PICK J : J = IF r = p THEN I \cup {n} ELSE I
        OBVIOUS
      <4>3. I \in SUBSET DOMAIN log /\ J \in {I, I \cup {n}} /\ n \notin I /\ (J = I \cup {n} => r = p)
        BY <3>3, <4>1, <4>2, SentAreLogged
      <4>4. Cardinality(InWindow(I, t)) <= MaxPerPlugin
        BY <4>1 DEF WindowsAreBounded
      <4>5. J = I \cup {n} => Cardinality(InWindow(I, now)) < MaxPerPlugin
        BY <3>4, <4>1, <4>3
      <4>6. Cardinality(InWindow(J, t)') <= MaxPerPlugin
        BY <2>2, <3>2, <3>3, <4>3, <4>4, <4>5, WindowsAfter
      <4>7. SentBy(r)' = J
        BY <3>3, <4>1, <4>2
      <4> QED
        BY <4>6, <4>7
    <3>6. ASSUME NEW r \in Plugin, NEW q \in Session, NEW t \in Time
          PROVE  Cardinality(InWindow(SentTo(r, q), t)') <= MaxPerSession
      <4>1. PICK I : I = SentTo(r, q)
        OBVIOUS
      <4>2. PICK J : J = IF r = p /\ q = s THEN I \cup {n} ELSE I
        OBVIOUS
      <4>3. I \in SUBSET DOMAIN log /\ J \in {I, I \cup {n}} /\ n \notin I /\ (J = I \cup {n} => r = p /\ q = s)
        BY <3>3, <4>1, <4>2, SentAreLogged
      <4>4. Cardinality(InWindow(I, t)) <= MaxPerSession
        BY <4>1 DEF WindowsAreBounded
      <4>5. J = I \cup {n} => Cardinality(InWindow(I, now)) < MaxPerSession
        BY <3>4, <4>1, <4>3
      <4>6. Cardinality(InWindow(J, t)') <= MaxPerSession
        BY <2>2, <3>2, <3>3, <4>3, <4>4, <4>5, WindowsAfter
      <4>7. SentTo(r, q)' = J
        BY <3>3, <4>1, <4>2
      <4> QED
        BY <4>6, <4>7
    <3> QED
      BY <2>1, <3>5, <3>6 DEF WindowsAreBounded
  <2> QED
    BY <2>3, <2>4
<1>2. CASE Tick \/ UNCHANGED outboxVars
  <2>1. log' = log
    BY <1>2 DEF Tick, outboxVars
  <2> QED
    BY <2>1 DEF WindowsAreBounded, Spaced, InWindow, SentBy, SentTo
<1> QED
  BY <1>1, <1>2 DEF OutboxNext

LEMMA WindowsInit == OutboxInit => WindowsAreBounded
<1> SUFFICES ASSUME OutboxInit PROVE WindowsAreBounded
  OBVIOUS
<1>1. (\A p : SentBy(p) = {}) /\ (\A p, s : SentTo(p, s) = {})
  BY DEF OutboxInit, SentBy, SentTo
<1>2. \A t : InWindow({}, t) = {}
  BY DEF InWindow
<1>3. Cardinality({}) = 0
  BY FS_EmptySet
<1> QED
  BY <1>1, <1>2, <1>3, OutboxAssumption DEF WindowsAreBounded, Spaced

\* The limits hold on every window wherever it is laid, and the limiter refuses nothing
\* that respects them, for all limits, windows and numbers of sends.
THEOREM TheLimitsAreExact == OutboxSpec => []LimitsAreExact
BY HistoriesAreExact, NothingRefusedFalsely, WindowsInit, WindowsStep, PTL DEF OutboxSpec, LimitsAreExact


\* Why a first reload finds the loop: until then the coroutine of the loop is the one in the
\* table, and before the start there is none.
LoopInv ==
  /\ phase = "new" => reloads = 0 /\ \A c \in Coro : id[c] # Loop
  /\ phase = "started" /\ reloads = 0 => \A c \in Coro : id[c] = Loop => managed[Loop] = c
  /\ reloads <= 1 => OneLoop

TableInv == TypeOK /\ EntryIsLive /\ LoopInv

-----------------------------------------------------------------------------
(* The operators that create coroutines. *)

LEMMA IdsDiffer ==
  /\ Loop \in Ids /\ Restore \in Ids /\ Loop # Restore
  /\ \A t \in Task : Run(t) \in Ids /\ Retry(t) \in Ids
  /\ \A t \in Task : Run(t) # Loop /\ Retry(t) # Loop
BY DEF Ids, Loop, Restore, Run, Retry

\* Fresh coroutines are free, and one for each id.
LEMMA FreshAreFree ==
  ASSUME NEW I, NEW f \in Fresh(I)
  PROVE  /\ f \in [I -> Free]
         /\ \A i, j \in I : f[i] = f[j] => i = j
         /\ \A i \in I : f[i] \in Coro /\ pc[f[i]] = "free"
<1>1. f \in Injections(I)
  BY DEF Fresh
<1> QED
  BY <1>1 DEF Injections, Free

\* What creating coroutines does to each of them: the new ones begin under their ids, the
\* others are left as they are.
LEMMA CreatedOneByOne ==
  ASSUME NEW I, NEW f \in Fresh(I), NEW p
  PROVE  /\ \A i \in I : Created(f, p)[f[i]] = Beginning(i) /\ Named(f)[f[i]] = i
         /\ \A c \in Coro : (\A i \in I : f[i] # c) => Created(f, p)[c] = p[c] /\ Named(f)[c] = id[c]
         /\ \A c \in Coro : pc[c] # "free" => Created(f, p)[c] = p[c] /\ Named(f)[c] = id[c]
         /\ \A c \in Coro : Created(f, p)[c] = p[c] \/ Created(f, p)[c] \in {"reading", "sleeping"}
         /\ Created(f, p) = [c \in Coro |-> Created(f, p)[c]]
         /\ Named(f) = [c \in Coro |-> Named(f)[c]]
<1>1. /\ DOMAIN f = I
      /\ \A i, j \in I : f[i] = f[j] => i = j
      /\ \A i \in I : f[i] \in Coro /\ pc[f[i]] = "free"
  BY FreshAreFree
<1>2. ASSUME NEW i \in I
      PROVE  Created(f, p)[f[i]] = Beginning(i) /\ Named(f)[f[i]] = i
  <2>1. (CHOOSE j \in DOMAIN f : f[j] = f[i]) = i
    BY <1>1
  <2> QED
    BY <1>1, <2>1 DEF Created, Named
<1>3. ASSUME NEW c \in Coro, \A i \in I : f[i] # c
      PROVE  Created(f, p)[c] = p[c] /\ Named(f)[c] = id[c]
  BY <1>1, <1>3 DEF Created, Named
<1>4. \A i : Beginning(i) \in {"reading", "sleeping"}
  BY DEF Beginning
<1>5. Created(f, p) = [c \in Coro |-> Created(f, p)[c]] /\ Named(f) = [c \in Coro |-> Named(f)[c]]
  BY DEF Created, Named
<1> QED
  BY <1>1, <1>2, <1>3, <1>4, <1>5

LEMMA CreatedTyped ==
  ASSUME TypeOK, NEW I \in SUBSET Ids, NEW f \in Fresh(I),
         NEW p \in [Coro -> Active \cup {"free", "unwinding", "done"}],
         NEW m \in [Ids -> Coro \cup {None}]
  PROVE  /\ Tracked(f, m) \in [Ids -> Coro \cup {None}]
         /\ Named(f) \in [Coro -> Ids \cup {None}]
         /\ Created(f, p) \in [Coro -> Active \cup {"free", "unwinding", "done"}]
<1>1. f \in [I -> Coro]
  BY FreshAreFree
<1>2. Tracked(f, m) \in [Ids -> Coro \cup {None}]
  BY <1>1 DEF Tracked
<1>3. ASSUME NEW c \in Coro PROVE Named(f)[c] \in Ids \cup {None}
  <2>1. CASE \E i \in I : f[i] = c
    BY <2>1, CreatedOneByOne
  <2>2. CASE \A i \in I : f[i] # c
    <3>1. Named(f)[c] = id[c]
      BY <2>2, CreatedOneByOne
    <3> QED
      BY <3>1 DEF TypeOK
  <2> QED
    BY <2>1, <2>2
<1>4. ASSUME NEW c \in Coro PROVE Created(f, p)[c] \in Active \cup {"free", "unwinding", "done"}
  <2>1. Created(f, p)[c] = p[c] \/ Created(f, p)[c] \in {"reading", "sleeping"}
    BY CreatedOneByOne
  <2> QED
    BY <2>1 DEF Active
<1> QED
  BY <1>2, <1>3, <1>4, CreatedOneByOne

LEMMA CancelledTyped ==
  ASSUME TypeOK, NEW C
  PROVE  /\ Cancelled(C) \in [Coro -> Active \cup {"free", "unwinding", "done"}]
         /\ \A c \in Coro : Cancelled(C)[c] = "free" <=> pc[c] = "free"
         /\ \A c \in Coro : Cancelled(C)[c] \in Active => pc[c] \in Active /\ c \notin C
BY DEF TypeOK, Cancelled, Active

LEMMA AdoptedAreIds == ASSUME NEW S \in SUBSET Task PROVE Adopted(S) \in SUBSET Ids /\ Loop \notin Adopted(S)
BY IdsDiffer DEF Adopted

-----------------------------------------------------------------------------
(* The types. *)

LEMMA TypesInit == ManagedAssumption /\ Init => TypeOK
BY DEF ManagedAssumption, Init, TypeOK

\* Launching the coroutines f over the table m and the program counters p.
LEMMA LaunchTyped ==
  ASSUME TypeOK, NEW I \in SUBSET Ids, NEW f \in Fresh(I),
         NEW p \in [Coro -> Active \cup {"free", "unwinding", "done"}],
         NEW m \in [Ids -> Coro \cup {None}],
         managed' = Tracked(f, m), id' = Named(f),
         \/ pc' = Created(f, p)
         \/ \E c \in Coro : pc' = [Created(f, p) EXCEPT ![c] = "done"]
  PROVE  /\ managed' \in [Ids -> Coro \cup {None}]
         /\ id' \in [Coro -> Ids \cup {None}]
         /\ pc' \in [Coro -> Active \cup {"free", "unwinding", "done"}]
<1>1. /\ Tracked(f, m) \in [Ids -> Coro \cup {None}]
      /\ Named(f) \in [Coro -> Ids \cup {None}]
      /\ Created(f, p) \in [Coro -> Active \cup {"free", "unwinding", "done"}]
  BY CreatedTyped
<1> QED
  BY <1>1

LEMMA TypesStep == ManagedAssumption /\ TypeOK /\ [Next]_vars => TypeOK'
<1> SUFFICES ASSUME ManagedAssumption, TypeOK, [Next]_vars PROVE TypeOK'
  OBVIOUS
<1> USE DEF ManagedAssumption
<1>1. /\ managed \in [Ids -> Coro \cup {None}]
      /\ pc \in [Coro -> Active \cup {"free", "unwinding", "done"}]
      /\ NoEntries \in [Ids -> Coro \cup {None}]
      /\ \A C : Cancelled(C) \in [Coro -> Active \cup {"free", "unwinding", "done"}]
  BY CancelledTyped DEF TypeOK, NoEntries
<1>2. CASE Start
  <2>1. PICK f \in Fresh({i \in {Loop, Restore} : managed[i] = None}) :
          managed' = Tracked(f, managed) /\ id' = Named(f) /\ pc' = Created(f, pc)
    BY <1>2 DEF Start
  <2>2. {i \in {Loop, Restore} : managed[i] = None} \in SUBSET Ids
    BY IdsDiffer
  <2>3. /\ managed' \in [Ids -> Coro \cup {None}]
        /\ id' \in [Coro -> Ids \cup {None}]
        /\ pc' \in [Coro -> Active \cup {"free", "unwinding", "done"}]
    BY <1>1, <2>1, <2>2, LaunchTyped
  <2> QED
    BY <1>2, <2>3 DEF Start, TypeOK
<1>3. CASE Shutdown
  <2>1. pc' \in [Coro -> Active \cup {"free", "unwinding", "done"}]
    BY <1>1, <1>3 DEF Shutdown
  <2> QED
    BY <1>1, <1>3, <2>1 DEF Shutdown, TypeOK
<1>4. CASE Reload
  <2>1. PICK f \in Fresh({Loop, Restore}) :
          managed' = Tracked(f, NoEntries) /\ id' = Named(f) /\ pc' = Created(f, Cancelled(Handles))
    BY <1>4 DEF Reload
  <2>2. {Loop, Restore} \in SUBSET Ids
    BY IdsDiffer
  <2>3. /\ managed' \in [Ids -> Coro \cup {None}]
        /\ id' \in [Coro -> Ids \cup {None}]
        /\ pc' \in [Coro -> Active \cup {"free", "unwinding", "done"}]
    BY <1>1, <2>1, <2>2, LaunchTyped
  <2> QED
    BY <1>4, <2>3 DEF Reload, TypeOK
<1>5. ASSUME NEW t \in Task, ScheduleOnce(t) PROVE TypeOK'
  <2>1. PICK f \in Fresh({Run(t)}) :
          managed' = Tracked(f, managed) /\ id' = Named(f) /\ pc' = Created(f, pc)
    BY <1>5 DEF ScheduleOnce
  <2>2. {Run(t)} \in SUBSET Ids
    BY IdsDiffer
  <2>3. /\ managed' \in [Ids -> Coro \cup {None}]
        /\ id' \in [Coro -> Ids \cup {None}]
        /\ pc' \in [Coro -> Active \cup {"free", "unwinding", "done"}]
    BY <1>1, <2>1, <2>2, LaunchTyped
  <2> QED
    BY <1>5, <2>3 DEF ScheduleOnce, TypeOK
<1>6. CASE ScanRead
  BY <1>6 DEF ScanRead, Listable, TypeOK
<1>7. CASE ScanAdopt
  <2>1. PICK f \in Fresh(Adopted(scanned)) :
          managed' = Tracked(f, managed) /\ id' = Named(f) /\ pc' = Created(f, pc)
    BY <1>7 DEF ScanAdopt
  <2>2. Adopted(scanned) \in SUBSET Ids
    BY AdoptedAreIds DEF TypeOK
  <2>3. /\ managed' \in [Ids -> Coro \cup {None}]
        /\ id' \in [Coro -> Ids \cup {None}]
        /\ pc' \in [Coro -> Active \cup {"free", "unwinding", "done"}]
    BY <1>1, <2>1, <2>2, LaunchTyped
  <2> QED
    BY <1>7, <2>3 DEF ScanAdopt, TypeOK
<1>8. ASSUME NEW c \in Coro, RestoreAdopt(c) PROVE TypeOK'
  <2>1. PICK f \in Fresh(Adopted(read[c])) :
          managed' = Tracked(f, managed) /\ id' = Named(f) /\ pc' = [Created(f, pc) EXCEPT ![c] = "done"]
    BY <1>8 DEF RestoreAdopt
  <2>2. Adopted(read[c]) \in SUBSET Ids
    BY AdoptedAreIds DEF TypeOK
  <2>3. /\ managed' \in [Ids -> Coro \cup {None}]
        /\ id' \in [Coro -> Ids \cup {None}]
        /\ pc' \in [Coro -> Active \cup {"free", "unwinding", "done"}]
    BY <1>1, <2>1, <2>2, LaunchTyped
  <2> QED
    BY <1>8, <2>3 DEF RestoreAdopt, TypeOK
<1>9. ASSUME NEW c \in Coro, NEW t \in Task, RunRetry(c, t) PROVE TypeOK'
  <2>1. PICK f \in Fresh({Retry(t)}) :
          /\ managed' = Tracked(f, managed) /\ id' = Named(f)
          /\ pc' = [Created(f, pc) EXCEPT ![c] = "done"]
          /\ parent' = [parent EXCEPT ![f[Retry(t)]] = c]
    BY <1>9 DEF RunRetry
  <2>2. {Retry(t)} \in SUBSET Ids
    BY IdsDiffer
  <2>3. /\ managed' \in [Ids -> Coro \cup {None}]
        /\ id' \in [Coro -> Ids \cup {None}]
        /\ pc' \in [Coro -> Active \cup {"free", "unwinding", "done"}]
    BY <1>1, <2>1, <2>2, LaunchTyped
  <2>4. parent' \in [Coro -> Coro \cup {None}]
    BY <2>1 DEF TypeOK
  <2> QED
    BY <1>9, <2>3, <2>4 DEF RunRetry, TypeOK
<1>10. ASSUME NEW c \in Coro, NEW t \in Task, RetryPop(c, t) PROVE TypeOK'
  <2>1. CASE phase = "started"
    <3>1. PICK f \in Fresh({Run(t)}) :
            managed' = Tracked(f, managed) /\ id' = Named(f) /\ pc' = [Created(f, pc) EXCEPT ![c] = "done"]
      BY <1>10, <2>1 DEF RetryPop
    <3>2. {Run(t)} \in SUBSET Ids
      BY IdsDiffer
    <3>3. /\ managed' \in [Ids -> Coro \cup {None}]
          /\ id' \in [Coro -> Ids \cup {None}]
          /\ pc' \in [Coro -> Active \cup {"free", "unwinding", "done"}]
      BY <1>1, <3>1, <3>2, LaunchTyped
    <3> QED
      BY <1>10, <3>3 DEF RetryPop, TypeOK
  <2>2. CASE phase # "started"
    BY <1>10, <2>2 DEF RetryPop, TypeOK
  <2> QED
    BY <2>1, <2>2
<1>11. ASSUME NEW t \in Task, CancelPop(t) PROVE TypeOK'
  BY <1>11, IdsDiffer DEF CancelPop, TypeOK
<1>12. ASSUME NEW c \in Coro, NEW t \in Task, CancelStop(c, t) PROVE TypeOK'
  <2>1. pc' \in [Coro -> Active \cup {"free", "unwinding", "done"}]
    BY <1>1, <1>12 DEF CancelStop
  <2> QED
    BY <1>12, <2>1 DEF CancelStop, TypeOK
<1>13. ASSUME NEW c \in Coro, NEW t \in Task, RunClaim(c, t) \/ RunEnd(c, t) \/ RunFail(c, t)
       PROVE  TypeOK'
  BY <1>13 DEF RunClaim, RunEnd, RunFail, TypeOK, Active
<1>14. ASSUME NEW c \in Coro, RestoreRead(c) \/ LoopWake(c) \/ LoopRound(c)
       PROVE  TypeOK'
  BY <1>14 DEF RestoreRead, LoopWake, LoopRound, TypeOK, Active
<1>15. ASSUME NEW c \in Coro, Unwind(c) \/ Forget(c)
       PROVE  TypeOK'
  BY <1>15 DEF Unwind, Forget, TypeOK
<1>16. CASE UNCHANGED vars
  BY <1>16 DEF vars, TypeOK
<1> QED
  BY <1>2, <1>3, <1>4, <1>5, <1>6, <1>7, <1>8, <1>9, <1>10, <1>11, <1>12, <1>13, <1>14, <1>15, <1>16
     DEF Next, Step

\* The states of the table are typed.
THEOREM TableTypes == Spec => []TypeOK
<1>1. Init => TypeOK
  BY TypesInit, ManagedAssumption
<1>2. TypeOK /\ [Next]_vars => TypeOK'
  BY TypesStep, ManagedAssumption
<1> QED
  BY <1>1, <1>2, PTL DEF Spec

-----------------------------------------------------------------------------
(* The table and the loops. *)

\* Launching coroutines keeps the entries live: a new coroutine was free, so no entry held it.
LEMMA LaunchKeepsEntries ==
  ASSUME TypeOK, EntryIsLive, NEW I \in SUBSET Ids, NEW f \in Fresh(I),
         NEW p, \A c \in Coro : p[c] = "free" => pc[c] = "free",
         NEW m, \A i \in Ids : m[i] \in {managed[i], None},
         managed' = Tracked(f, m), id' = Named(f),
         \A c \in Coro : pc'[c] \in {Created(f, p)[c], "done"}
  PROVE  EntryIsLive'
<1> SUFFICES ASSUME NEW i \in Ids, managed'[i] # None
             PROVE  id'[managed'[i]] = i /\ pc'[managed'[i]] # "free"
  BY DEF EntryIsLive
<1>1. DOMAIN f = I
  BY FreshAreFree
<1>2. CASE i \in I
  <2>1. managed'[i] = f[i] /\ f[i] \in Coro
    BY <1>1, <1>2, FreshAreFree DEF Tracked
  <2>2. Named(f)[f[i]] = i /\ Created(f, p)[f[i]] = Beginning(i)
    BY <1>2, CreatedOneByOne
  <2> QED
    BY <2>1, <2>2 DEF Beginning
<1>3. CASE i \notin I
  <2>1. managed'[i] = managed[i] /\ managed[i] # None
    BY <1>1, <1>3 DEF Tracked
  <2>2. managed[i] \in Coro /\ id[managed[i]] = i /\ pc[managed[i]] # "free"
    BY <2>1 DEF EntryIsLive, TypeOK
  <2>3. Named(f)[managed[i]] = i /\ Created(f, p)[managed[i]] = p[managed[i]]
    BY <2>2, CreatedOneByOne
  <2> QED
    BY <2>1, <2>2, <2>3
<1> QED
  BY <1>2, <1>3

\* A step that leaves the table and the ids alone and frees no coroutine.
LEMMA EntriesKept ==
  ASSUME TypeOK, EntryIsLive, UNCHANGED <<managed, id>>,
         \A c \in Coro : pc'[c] = "free" => pc[c] = "free"
  PROVE  EntryIsLive'
BY DEF EntryIsLive, TypeOK

\* A step that starts no loop and keeps the entry of the loop keeps the invariant.
LEMMA NoNewLoop ==
  ASSUME LoopInv, reloads' = reloads,
         phase' = phase \/ phase' = "stopped",
         \A c \in Coro : id'[c] = Loop => id[c] = Loop /\ (pc'[c] \in Active => pc[c] \in Active),
         \A c \in Coro : id'[c] = Loop => managed'[Loop] = managed[Loop] \/ phase' = "stopped"
  PROVE  LoopInv'
BY DEF LoopInv, OneLoop

\* Launching coroutines that are not loops is such a step.
LEMMA LaunchKeepsLoops ==
  ASSUME TypeOK, LoopInv, NEW I \in SUBSET Ids, NEW f \in Fresh(I), Loop \notin I,
         managed' = Tracked(f, managed), id' = Named(f), reloads' = reloads, phase' = phase,
         \A c \in Coro : pc'[c] \in {Created(f, pc)[c], "done"}
  PROVE  LoopInv'
<1>1. DOMAIN f = I
  BY FreshAreFree
<1>2. managed'[Loop] = managed[Loop]
  BY <1>1, IdsDiffer DEF Tracked
<1>3. ASSUME NEW c \in Coro, id'[c] = Loop
      PROVE  id[c] = Loop /\ (pc'[c] \in Active => pc[c] \in Active)
  <2>1. \A i \in I : f[i] # c
    BY <1>3, CreatedOneByOne
  <2>2. Named(f)[c] = id[c] /\ Created(f, pc)[c] = pc[c]
    BY <2>1, CreatedOneByOne
  <2> QED
    BY <1>3, <2>2 DEF Active
<1> QED
  BY <1>2, <1>3, NoNewLoop

LEMMA LaunchKeepsTable ==
  ASSUME TypeOK, EntryIsLive, LoopInv, NEW I \in SUBSET Ids, NEW f \in Fresh(I), Loop \notin I,
         managed' = Tracked(f, managed), id' = Named(f), reloads' = reloads, phase' = phase,
         \A c \in Coro : pc'[c] \in {Created(f, pc)[c], "done"}
  PROVE  EntryIsLive' /\ LoopInv'
<1>1. \A i \in Ids : managed[i] \in {managed[i], None}
  OBVIOUS
<1>2. \A c \in Coro : pc[c] = "free" => pc[c] = "free"
  OBVIOUS
<1>3. EntryIsLive'
  BY <1>1, <1>2, LaunchKeepsEntries
<1> QED
  BY <1>3, LaunchKeepsLoops

\* What starts the loop leaves it as the only active one.
LEMMA LaunchTheLoop ==
  ASSUME TypeOK, NEW I \in SUBSET Ids, NEW f \in Fresh(I), Loop \in I,
         NEW p, \A c \in Coro : id[c] = Loop => p[c] \notin Active,
         NEW m, managed' = Tracked(f, m), id' = Named(f), pc' = Created(f, p)
  PROVE  /\ managed'[Loop] = f[Loop]
         /\ \A c \in Coro : id'[c] = Loop => c = f[Loop] \/ id[c] = Loop
         /\ \A c \in Coro : id'[c] = Loop /\ pc'[c] \in Active => c = f[Loop]
         /\ OneLoop'
<1>1. DOMAIN f = I
  BY FreshAreFree
<1>2. managed'[Loop] = f[Loop]
  BY <1>1, IdsDiffer DEF Tracked
<1>3. ASSUME NEW c \in Coro, id'[c] = Loop, c # f[Loop]
      PROVE  id[c] = Loop /\ pc'[c] \notin Active
  <2>1. \A i \in I : f[i] # c
    BY <1>3, CreatedOneByOne
  <2>2. Named(f)[c] = id[c] /\ Created(f, p)[c] = p[c]
    BY <2>1, CreatedOneByOne
  <2> QED
    BY <1>3, <2>2
<1> QED
  BY <1>2, <1>3 DEF OneLoop

LEMMA TableInit == ManagedAssumption /\ Init => EntryIsLive /\ LoopInv
BY IdsDiffer DEF ManagedAssumption, Init, EntryIsLive, LoopInv, OneLoop, Ids

LEMMA TableStep ==
  ManagedAssumption /\ TypeOK /\ TypeOK' /\ EntryIsLive /\ LoopInv /\ [Next]_vars
    => EntryIsLive' /\ LoopInv'
<1> SUFFICES ASSUME ManagedAssumption, TypeOK, TypeOK', EntryIsLive, LoopInv, [Next]_vars
             PROVE  EntryIsLive' /\ LoopInv'
  OBVIOUS
<1>1. CASE Start
  <2> DEFINE I == {i \in {Loop, Restore} : managed[i] = None}
  <2>1. PICK f \in Fresh(I) :
          managed' = Tracked(f, managed) /\ id' = Named(f) /\ pc' = Created(f, pc)
    BY <1>1 DEF Start
  <2>2. I \in SUBSET Ids
    BY IdsDiffer
  <2>3. managed[Loop] = None
    BY <1>1, IdsDiffer DEF Start, LoopInv, EntryIsLive, TypeOK
  <2>4. Loop \in I
    BY <2>3
  <2> HIDE DEF I
  <2>5. EntryIsLive'
    BY <2>1, <2>2, LaunchKeepsEntries
  <2>6. /\ managed'[Loop] = f[Loop] /\ OneLoop'
        /\ \A c \in Coro : id'[c] = Loop => c = f[Loop] \/ id[c] = Loop
    BY <1>1, <2>1, <2>2, <2>4, LaunchTheLoop DEF Start, LoopInv
  <2> QED
    BY <1>1, <2>5, <2>6 DEF Start, LoopInv
<1>2. CASE Shutdown
  <2>1. EntryIsLive'
    BY <1>2 DEF Shutdown, EntryIsLive, NoEntries
  <2>2. \A c \in Coro : pc'[c] \in Active => pc[c] \in Active
    BY <1>2, CancelledTyped DEF Shutdown
  <2> QED
    BY <1>2, <2>1, <2>2, NoNewLoop DEF Shutdown
<1>3. CASE Reload
  <2>1. PICK f \in Fresh({Loop, Restore}) :
          managed' = Tracked(f, NoEntries) /\ id' = Named(f) /\ pc' = Created(f, Cancelled(Handles))
    BY <1>3 DEF Reload
  <2>2. {Loop, Restore} \in SUBSET Ids
    BY IdsDiffer
  <2>3. EntryIsLive'
    <3>1. \A i \in Ids : NoEntries[i] \in {managed[i], None}
      BY DEF NoEntries
    <3>2. \A c \in Coro : Cancelled(Handles)[c] = "free" => pc[c] = "free"
      BY CancelledTyped
    <3> QED
      BY <2>1, <2>2, <3>1, <3>2, LaunchKeepsEntries
  <2>4. phase' = "started" /\ reloads' = reloads + 1 /\ reloads \in Nat
    BY <1>3 DEF ManagedAssumption, Reload, TypeOK
  <2>5. CASE reloads # 0
    BY <2>3, <2>4, <2>5 DEF LoopInv
  <2>6. CASE reloads = 0
    <3>1. ASSUME NEW c \in Coro, id[c] = Loop PROVE Cancelled(Handles)[c] \notin Active
      <4>1. c \in Handles
        BY <1>3, <2>6, <3>1, IdsDiffer DEF ManagedAssumption, Reload, LoopInv, Handles
      <4> QED
        BY <4>1, CancelledTyped
    <3>2. OneLoop'
      BY <2>1, <2>2, <3>1, LaunchTheLoop
    <3> QED
      BY <2>3, <2>4, <2>6, <3>2 DEF LoopInv
  <2> QED
    BY <2>5, <2>6
<1>4. ASSUME NEW t \in Task, ScheduleOnce(t) PROVE EntryIsLive' /\ LoopInv'
  <2>1. PICK f \in Fresh({Run(t)}) :
          managed' = Tracked(f, managed) /\ id' = Named(f) /\ pc' = Created(f, pc)
    BY <1>4 DEF ScheduleOnce
  <2>2. {Run(t)} \in SUBSET Ids /\ Loop \notin {Run(t)}
    BY IdsDiffer
  <2> QED
    BY <1>4, <2>1, <2>2, LaunchKeepsTable DEF ScheduleOnce
<1>5. CASE ScanAdopt
  <2>1. PICK f \in Fresh(Adopted(scanned)) :
          managed' = Tracked(f, managed) /\ id' = Named(f) /\ pc' = Created(f, pc)
    BY <1>5 DEF ScanAdopt
  <2>2. Adopted(scanned) \in SUBSET Ids /\ Loop \notin Adopted(scanned)
    BY AdoptedAreIds DEF TypeOK
  <2> QED
    BY <1>5, <2>1, <2>2, LaunchKeepsTable DEF ScanAdopt
<1>6. ASSUME NEW c \in Coro, RestoreAdopt(c) PROVE EntryIsLive' /\ LoopInv'
  <2>1. PICK f \in Fresh(Adopted(read[c])) :
          managed' = Tracked(f, managed) /\ id' = Named(f) /\ pc' = [Created(f, pc) EXCEPT ![c] = "done"]
    BY <1>6 DEF RestoreAdopt
  <2>2. Adopted(read[c]) \in SUBSET Ids /\ Loop \notin Adopted(read[c])
    BY AdoptedAreIds DEF TypeOK
  <2>3. \A d \in Coro : pc'[d] \in {Created(f, pc)[d], "done"}
    BY <2>1, CreatedOneByOne
  <2> QED
    BY <1>6, <2>1, <2>2, <2>3, LaunchKeepsTable DEF RestoreAdopt
<1>7. ASSUME NEW c \in Coro, NEW t \in Task, RunRetry(c, t) PROVE EntryIsLive' /\ LoopInv'
  <2>1. PICK f \in Fresh({Retry(t)}) :
          managed' = Tracked(f, managed) /\ id' = Named(f) /\ pc' = [Created(f, pc) EXCEPT ![c] = "done"]
    BY <1>7 DEF RunRetry
  <2>2. {Retry(t)} \in SUBSET Ids /\ Loop \notin {Retry(t)}
    BY IdsDiffer
  <2>3. \A d \in Coro : pc'[d] \in {Created(f, pc)[d], "done"}
    BY <2>1, CreatedOneByOne
  <2> QED
    BY <1>7, <2>1, <2>2, <2>3, LaunchKeepsTable DEF RunRetry
<1>8. ASSUME NEW c \in Coro, NEW t \in Task, RetryPop(c, t) PROVE EntryIsLive' /\ LoopInv'
  <2>1. CASE phase = "started"
    <3>1. PICK f \in Fresh({Run(t)}) :
            managed' = Tracked(f, managed) /\ id' = Named(f) /\ pc' = [Created(f, pc) EXCEPT ![c] = "done"]
      BY <1>8, <2>1 DEF RetryPop
    <3>2. {Run(t)} \in SUBSET Ids /\ Loop \notin {Run(t)}
      BY IdsDiffer
    <3>3. \A d \in Coro : pc'[d] \in {Created(f, pc)[d], "done"}
      BY <3>1, CreatedOneByOne
    <3> QED
      BY <1>8, <3>1, <3>2, <3>3, LaunchKeepsTable DEF RetryPop
  <2>2. CASE phase # "started"
    <3>1. EntryIsLive'
      BY <1>8, <2>2 DEF RetryPop, EntryIsLive, TypeOK
    <3>2. \A d \in Coro : pc'[d] \in Active => pc[d] \in Active
      BY <1>8, <2>2 DEF RetryPop, Active, TypeOK
    <3> QED
      BY <1>8, <2>2, <3>1, <3>2, NoNewLoop DEF RetryPop
  <2> QED
    BY <2>1, <2>2
<1>9. ASSUME NEW t \in Task, CancelPop(t) PROVE EntryIsLive' /\ LoopInv'
  <2>1. managed'[Loop] = managed[Loop]
    BY <1>9, IdsDiffer DEF CancelPop, TypeOK
  <2>2. EntryIsLive'
    BY <1>9 DEF CancelPop, EntryIsLive, TypeOK
  <2> QED
    BY <1>9, <2>1, <2>2, NoNewLoop DEF CancelPop
<1>10. ASSUME NEW c \in Coro, NEW t \in Task, CancelStop(c, t) PROVE EntryIsLive' /\ LoopInv'
  <2>1. \A d \in Coro : /\ pc'[d] = "free" <=> pc[d] = "free"
                        /\ pc'[d] \in Active => pc[d] \in Active
    BY <1>10, CancelledTyped DEF CancelStop
  <2>2. EntryIsLive'
    BY <1>10, <2>1, EntriesKept DEF CancelStop
  <2> QED
    BY <1>10, <2>1, <2>2, NoNewLoop DEF CancelStop
<1>11. ASSUME NEW c \in Coro,
              \/ RestoreRead(c) \/ LoopWake(c) \/ LoopRound(c) \/ Unwind(c)
              \/ \E t \in Task : RunClaim(c, t) \/ RunEnd(c, t) \/ RunFail(c, t)
       PROVE  EntryIsLive' /\ LoopInv'
  <2>1. \A d \in Coro : /\ pc'[d] = "free" => pc[d] = "free"
                        /\ pc'[d] \in Active => pc[d] \in Active
    BY <1>11 DEF RestoreRead, LoopWake, LoopRound, Unwind, RunClaim, RunEnd, RunFail, Active, TypeOK
  <2>2. UNCHANGED <<phase, managed, id, reloads>>
    BY <1>11 DEF RestoreRead, LoopWake, LoopRound, Unwind, RunClaim, RunEnd, RunFail
  <2>3. EntryIsLive'
    BY <2>1, <2>2, EntriesKept
  <2> QED
    BY <2>1, <2>2, <2>3, NoNewLoop
<1>12. ASSUME NEW c \in Coro, Forget(c) PROVE EntryIsLive' /\ LoopInv'
  <2>1. EntryIsLive'
    BY <1>12 DEF Forget, EntryIsLive, TypeOK
  <2>2. \A d \in Coro : id'[d] = Loop => d # c /\ id[d] = Loop
    BY <1>12, IdsDiffer DEF ManagedAssumption, Forget, TypeOK, Loop
  <2>3. \A d \in Coro : pc'[d] \in Active => pc[d] \in Active
    BY <1>12 DEF Forget, Active, TypeOK
  <2> QED
    BY <1>12, <2>1, <2>2, <2>3 DEF Forget, LoopInv, OneLoop, TypeOK
<1>13. CASE ScanRead
  BY <1>13 DEF ScanRead, EntryIsLive, LoopInv, OneLoop
<1>14. CASE UNCHANGED vars
  BY <1>14 DEF vars, EntryIsLive, LoopInv, OneLoop
<1> QED
  BY <1>1, <1>2, <1>3, <1>4, <1>5, <1>6, <1>7, <1>8, <1>9, <1>10, <1>11, <1>12, <1>13, <1>14
     DEF Next, Step

\* An entry of _managed_tasks is a coroutine of that id whose done callback is still to
\* come, whatever was cancelled, forgotten or replaced before; and until a first reload
\* the loop of a definition is the one in the table.
THEOREM EntriesAreLive == Spec => [](EntryIsLive /\ LoopInv)
<1>1. Init => EntryIsLive /\ LoopInv
  BY TableInit, ManagedAssumption
<1>2. TypeOK /\ TypeOK' /\ EntryIsLive /\ LoopInv /\ [Next]_vars => EntryIsLive' /\ LoopInv'
  BY TableStep, ManagedAssumption
<1>3. Spec => []TypeOK
  BY TableTypes
<1> QED
  BY <1>1, <1>2, <1>3, PTL DEF Spec

\* For every number of reloads: a first one leaves one loop, whatever ran, was cancelled,
\* retried or forgotten around it.
THEOREM OneLoopAfterAReload == Spec => [](reloads <= 1 => OneLoop)
<1>1. LoopInv => (reloads <= 1 => OneLoop)
  BY DEF LoopInv
<1>2. Spec => [](EntryIsLive /\ LoopInv)
  BY EntriesAreLive
<1> QED
  BY <1>1, <1>2, PTL

\* So the table holds as long as a plugin is reloaded at most once.
THEOREM TheTableHolds == ASSUME MaxReloads <= 1 PROVE Spec => []TableHolds
<1>1. TypeOK /\ EntryIsLive /\ LoopInv => TableHolds
  BY ManagedAssumption, MaxReloads <= 1 DEF ManagedAssumption, TypeOK, LoopInv, TableHolds
<1>2. Spec => []TypeOK
  BY TableTypes
<1>3. Spec => [](EntryIsLive /\ LoopInv)
  BY EntriesAreLive
<1> QED
  BY <1>1, <1>2, <1>3, PTL

-----------------------------------------------------------------------------
(* The words behind a command: what they mean. *)

\* Each word that follows one that asks for a value is that value, in turn.
ValuesAlternate(n, O, f) ==
  f \in [1 .. n -> BOOLEAN] /\ \A k \in 1 .. n : f[k] = (k > 1 /\ k - 1 \in O /\ ~ f[k - 1])

LEMMA ValuesExist == ASSUME NEW n \in Nat, NEW O PROVE \E f : ValuesAlternate(n, O, f)
<1> DEFINE Bad == {k \in Nat : ~ \E f : ValuesAlternate(k, O, f)}
<1>1. ASSUME Bad # {} PROVE FALSE
  <2>1. PICK k \in Bad : \A l \in Bad : k <= l
    <3>1. Bad \subseteq Nat
      OBVIOUS
    <3> HIDE DEF Bad
    <3> QED
      BY <1>1, <3>1, LeastNatural
  <2>2. k # 0
    <3>1. PICK f : f = [i \in 1 .. 0 |-> TRUE]
      OBVIOUS
    <3>2. ValuesAlternate(0, O, f)
      BY <3>1 DEF ValuesAlternate
    <3> QED
      BY <3>2
  <2>3. PICK f : ValuesAlternate(k - 1, O, f)
    <3>1. k - 1 \in Nat /\ ~ (k <= k - 1)
      BY <2>2
    <3>2. k - 1 \notin Bad
      BY <2>1, <3>1
    <3> QED
      BY <3>1, <3>2
  <2>4. PICK g : g = [i \in 1 .. k |-> IF i = k THEN k > 1 /\ k - 1 \in O /\ ~ f[k - 1] ELSE f[i]]
    OBVIOUS
  <2>5. k \in Nat /\ k \in 1 .. k /\ \A i \in 1 .. k : i # k => i \in 1 .. k - 1 /\ (i > 1 => i - 1 \in 1 .. k /\ i - 1 # k)
    BY <2>2
  <2>6. g \in [1 .. k -> BOOLEAN]
    BY <2>3, <2>4, <2>5 DEF ValuesAlternate
  <2>7. ASSUME NEW i \in 1 .. k PROVE g[i] = (i > 1 /\ i - 1 \in O /\ ~ g[i - 1])
    <3>1. CASE i = k
      <4>1. k > 1 => k - 1 \in 1 .. k /\ k - 1 # k
        BY <2>5
      <4>2. k > 1 => g[k - 1] = f[k - 1]
        BY <2>4, <4>1
      <4> QED
        BY <2>4, <3>1, <4>2
    <3>2. CASE i # k
      <4>1. g[i] = f[i] /\ f[i] = (i > 1 /\ i - 1 \in O /\ ~ f[i - 1])
        BY <2>3, <2>4, <2>5, <3>2 DEF ValuesAlternate
      <4>2. i > 1 => g[i - 1] = f[i - 1]
        BY <2>4, <2>5, <3>2
      <4> QED
        BY <4>1, <4>2
    <3> QED
      BY <3>1, <3>2
  <2>8. ValuesAlternate(k, O, g)
    BY <2>6, <2>7 DEF ValuesAlternate
  <2> QED
    BY <2>1, <2>8
<1> QED
  BY <1>1

LEMMA ValuesInTurn ==
  ASSUME words \in Seq(Word)
  PROVE  \A k \in DOMAIN words :
           /\ IsValue[k] \in BOOLEAN
           /\ IsValue[k] = (k > 1 /\ Opens(words[k - 1]) /\ ~ IsValue[k - 1])
<1>1. PICK O : O = {k \in DOMAIN words : Opens(words[k])}
  OBVIOUS
<1>2. PICK n : n = Len(words)
  OBVIOUS
<1>3. n \in Nat /\ DOMAIN words = 1 .. n
  BY <1>2
<1>4. PICK f : ValuesAlternate(n, O, f)
  BY <1>3, ValuesExist
<1>5. ASSUME NEW k \in DOMAIN words PROVE (k > 1 /\ k - 1 \in O) = (k > 1 /\ Opens(words[k - 1]))
  <2>1. k > 1 => k - 1 \in DOMAIN words
    BY <1>3
  <2> QED
    BY <1>1, <2>1
<1>6. f = [k \in DOMAIN words |-> k > 1 /\ Opens(words[k - 1]) /\ ~ f[k - 1]]
  <2>1. f = [k \in DOMAIN words |-> f[k]]
    BY <1>3, <1>4 DEF ValuesAlternate
  <2>2. \A k \in DOMAIN words : f[k] = (k > 1 /\ Opens(words[k - 1]) /\ ~ f[k - 1])
    BY <1>3, <1>4, <1>5 DEF ValuesAlternate
  <2> QED
    BY <2>1, <2>2
<1>7. IsValue = [k \in DOMAIN words |-> k > 1 /\ Opens(words[k - 1]) /\ ~ IsValue[k - 1]]
  BY <1>6, Zenon DEF IsValue
<1>8. \A k \in DOMAIN words : IsValue[k] = (k > 1 /\ Opens(words[k - 1]) /\ ~ IsValue[k - 1])
  BY <1>7, Zenon
<1> QED
  BY <1>8

-----------------------------------------------------------------------------
(* What has been read of the words. *)

\* The rank of a plain word among the plain words.
RankOf(k) == Cardinality({j \in Plain : j <= k})

\* What word k gives to the parameter i that it names.
GivenAt(i, k) ==
  IF words[k].inline # NoInline THEN words[k].inline
  ELSE IF signature[i].kind = "flag" THEN "true"
  ELSE words[1 + k].text

Texts == {w.text : w \in Word}

ArgumentTypes ==
  /\ Usable(signature) /\ words \in Seq(Word)
  /\ index \in 1 .. Len(words) + 1
  /\ index \in DOMAIN words => ~ IsValue[index]
  /\ positionals \in Seq(Texts)
  /\ parameter \in 1 .. Len(signature) + 1
  /\ used \in 0 .. Len(positionals) /\ anyBound \in BOOLEAN
  /\ outcome \in {"idle", "reading", "binding", "refused", "called", "failed"}

\* The options are what the words before the next one give.
OptionsRead ==
  /\ DOMAIN options \subseteq ByName
  /\ \A i \in ByName \ DOMAIN options : \A k \in Naming(i) : index <= k
  /\ \A i \in DOMAIN options :
       \E k \in Naming(i) :
         /\ k < index /\ options[i] = GivenAt(i, k)
         /\ \A l \in Naming(i) : l < index => l = k

\* The positionals are the plain words before the next one.
PlainRead ==
  /\ Len(positionals) = Cardinality({k \in Plain : k < index})
  /\ \A n \in 1 .. Len(positionals) : \E k \in Plain : k < index /\ RankOf(k) = n
  /\ \A k \in Plain : k < index => positionals[RankOf(k)] = words[k].text

LEMMA Singles ==
  ASSUME ArgumentTypes, NEW k \in DOMAIN words, NEW i \in NamedBy(words[k])
  PROVE  NamedBy(words[k]) = {i}
BY DEF ArgumentTypes, Usable, NamedBy, ByName

\* Which words follow the next one that are values.
LEMMA ValueAfter ==
  ASSUME ArgumentTypes, index \in DOMAIN words
  PROVE  /\ index \in Nat /\ DOMAIN words = 1 .. Len(words) /\ Len(words) \in Nat
         /\ index + 1 \in DOMAIN words => IsValue[index + 1] = Opens(words[index])
         /\ index + 2 \in DOMAIN words /\ IsValue[index + 1] => ~ IsValue[index + 2]
<1>1. words \in Seq(Word) /\ ~ IsValue[index]
  BY DEF ArgumentTypes
<1>2. Len(words) \in Nat /\ DOMAIN words = 1 .. Len(words)
  BY <1>1
<1>3. index \in Nat /\ index >= 1
  BY <1>2
<1>4. \A k \in DOMAIN words : IsValue[k] = (k > 1 /\ Opens(words[k - 1]) /\ ~ IsValue[k - 1])
  BY <1>1, ValuesInTurn
<1>5. index + 1 > 1 /\ (index + 1) - 1 = index /\ (index + 2) - 1 = index + 1
  BY <1>3
<1>6. index + 1 \in DOMAIN words => IsValue[index + 1] = Opens(words[index])
  <2>1. Opens(words[index]) \in BOOLEAN
    BY DEF Opens
  <2> QED
    BY <1>1, <1>4, <1>5, <2>1
<1>7. index + 2 \in DOMAIN words /\ IsValue[index + 1] => ~ IsValue[index + 2]
  BY <1>4, <1>5
<1> QED
  BY <1>2, <1>3, <1>6, <1>7

\* A step of the reader goes on behind the next word and its value.
Passes(next) ==
  /\ next \in {index + 1, index + 2} /\ next \in 1 .. Len(words) + 1
  /\ next = index + 1 => ~ Opens(words[index])
  /\ next = index + 2 => Opens(words[index])

LEMMA PassedOver ==
  ASSUME ArgumentTypes, index \in DOMAIN words, NEW next, Passes(next)
  PROVE  /\ next \in DOMAIN words => ~ IsValue[next]
         /\ \A i : \A k \in Naming(i) : k < next <=> k < index \/ k = index
         /\ \A k \in Plain : k < next <=> k < index \/ k = index
         /\ \A i : index \in Naming(i) <=> i \in NamedBy(words[index])
         /\ index \in Plain <=> NamedBy(words[index]) = {}
<1>1. /\ index \in Nat /\ DOMAIN words = 1 .. Len(words) /\ Len(words) \in Nat
      /\ index + 1 \in DOMAIN words => IsValue[index + 1] = Opens(words[index])
      /\ index + 2 \in DOMAIN words /\ IsValue[index + 1] => ~ IsValue[index + 2]
  BY ValueAfter
<1>2. next \in DOMAIN words => ~ IsValue[next]
  <2>1. CASE next = index + 1
    BY <1>1, <2>1 DEF Passes
  <2>2. CASE next = index + 2
    <3>1. next \in DOMAIN words => index + 1 \in DOMAIN words
      BY <1>1, <2>2
    <3> QED
      BY <1>1, <2>2, <3>1 DEF Passes
  <2> QED
    BY <2>1, <2>2 DEF Passes
<1>3. \A k \in DOMAIN words : ~ IsValue[k] => (k < next <=> k < index \/ k = index)
  <2> TAKE k \in DOMAIN words
  <2> HAVE ~ IsValue[k]
  <2>1. next = index + 2 => k # index + 1
    BY <1>1 DEF Passes
  <2>2. next = index + 1 \/ next = index + 2
    BY DEF Passes
  <2> QED
    BY <1>1, <2>1, <2>2
<1>4. ~ IsValue[index]
  BY DEF ArgumentTypes
<1> QED
  BY <1>2, <1>3, <1>4 DEF Naming, Plain

\* What words mean depends on nothing that is done with them.
LEMMA Unmoved ==
  ASSUME UNCHANGED <<signature, words>>
  PROVE  /\ ByName' = ByName /\ Plain' = Plain /\ IsValue' = IsValue
         /\ \A i : Naming(i)' = Naming(i)
         /\ \A k : RankOf(k)' = RankOf(k)
         /\ \A i, k : GivenAt(i, k)' = GivenAt(i, k)
         /\ \A w : NamedBy(w)' = NamedBy(w)
<1>1. ByName' = ByName
  BY DEF ByName
<1>2. \A w : NamedBy(w)' = NamedBy(w)
  BY <1>1 DEF NamedBy
<1>3. \A w : Opens(w)' = Opens(w)
  BY <1>2 DEF Opens
<1>4. IsValue' = IsValue
  BY <1>3, Zenon DEF IsValue
<1>5. Plain' = Plain /\ \A i : Naming(i)' = Naming(i)
  BY <1>2, <1>4 DEF Plain, Naming
<1>6. \A k : RankOf(k)' = RankOf(k)
  BY <1>5 DEF RankOf
<1>7. \A i, k : GivenAt(i, k)' = GivenAt(i, k)
  BY DEF GivenAt
<1> QED
  BY <1>1, <1>2, <1>4, <1>5, <1>6, <1>7

\* A word that names a parameter for the first time.
LEMMA NamedIsRead ==
  ASSUME ArgumentTypes, OptionsRead, PlainRead, index \in DOMAIN words,
         NEW next, Passes(next), NEW i \in NamedBy(words[index]), i \notin DOMAIN options,
         UNCHANGED <<signature, words, positionals>>, index' = next,
         options' = With(options, i, GivenAt(i, index))
  PROVE  OptionsRead' /\ PlainRead'
<1>1. /\ \A j : \A k \in Naming(j) : k < next <=> k < index \/ k = index
      /\ \A k \in Plain : k < next <=> k < index \/ k = index
      /\ \A j : index \in Naming(j) <=> j \in NamedBy(words[index])
      /\ index \notin Plain
  BY PassedOver
<1>2. NamedBy(words[index]) = {i} /\ i \in ByName
  BY Singles DEF NamedBy
<1>3. /\ DOMAIN words = 1 .. Len(words) /\ Len(words) \in Nat /\ index \in Nat /\ next \in Nat /\ index < next
  BY ValueAfter DEF Passes
<1>4. \A j : Naming(j) \subseteq Nat
  BY <1>3 DEF Naming
<1>5. /\ DOMAIN options' = DOMAIN options \cup {i} /\ options'[i] = GivenAt(i, index)
      /\ \A j \in DOMAIN options : options'[j] = options[j]
  BY DEF With
<1>6. PlainRead'
  <2>1. \A k \in Plain : k < next <=> k < index
    BY <1>1
  <2>2. {k \in Plain : k < next} = {k \in Plain : k < index}
    BY <2>1
  <2> QED
    BY <2>1, <2>2, Unmoved DEF PlainRead
<1>7. DOMAIN options' \subseteq ByName'
  BY <1>2, <1>5, Unmoved DEF OptionsRead
<1>8. ASSUME NEW j \in ByName \ DOMAIN options', NEW k \in Naming(j) PROVE next <= k
  <2>1. index <= k /\ k # index
    BY <1>1, <1>2, <1>5, <1>8 DEF OptionsRead
  <2> QED
    BY <1>1, <1>3, <1>4, <2>1
<1>9. ASSUME NEW j \in DOMAIN options'
      PROVE  \E k \in Naming(j) : /\ k < next /\ options'[j] = GivenAt(j, k)
                                  /\ \A l \in Naming(j) : l < next => l = k
  <2>1. CASE j = i
    <3>1. \A k \in Naming(i) : index <= k
      BY <1>2 DEF OptionsRead
    <3>2. \A k \in Naming(i) : k < next => k = index
      BY <1>1, <1>3, <1>4, <3>1
    <3> QED
      BY <1>1, <1>2, <1>3, <1>5, <2>1, <3>2
  <2>2. CASE j # i
    <3>1. PICK k \in Naming(j) : /\ k < index /\ options[j] = GivenAt(j, k)
                                 /\ \A l \in Naming(j) : l < index => l = k
      BY <1>5, <2>2 DEF OptionsRead
    <3>2. index \notin Naming(j)
      BY <1>1, <1>2, <2>2
    <3> QED
      BY <1>1, <1>5, <2>2, <3>1, <3>2
  <2> QED
    BY <2>1, <2>2
<1> QED
  BY <1>6, <1>7, <1>8, <1>9, Unmoved DEF OptionsRead

LEMMA Ranks ==
  ASSUME ArgumentTypes, index \in DOMAIN words, NamedBy(words[index]) = {}
  PROVE  /\ IsFiniteSet({k \in Plain : k < index})
         /\ index \in Plain /\ index \in Nat
         /\ RankOf(index) = Cardinality({k \in Plain : k < index}) + 1
         /\ \A k \in Plain : k < index => RankOf(k) \in 1 .. Cardinality({l \in Plain : l < index})
<1>1. Len(words) \in Nat /\ DOMAIN words = 1 .. Len(words) /\ index \in Nat
  BY ValueAfter
<1>2. IsFiniteSet(1 .. Len(words)) /\ Plain \subseteq 1 .. Len(words)
  <2>1. IsFiniteSet(1 .. Len(words))
    BY <1>1, FS_Interval
  <2> QED
    BY <1>1, <2>1 DEF Plain
<1>3. PICK S : S = {k \in Plain : k < index}
  OBVIOUS
<1>4. IsFiniteSet(S) /\ S \subseteq 1 .. Len(words)
  BY <1>2, <1>3, FS_Subset
<1>5. index \in Plain
  BY DEF ArgumentTypes, Plain
<1>6. RankOf(index) = Cardinality(S) + 1
  <2>1. {j \in Plain : j <= index} = S \cup {index} /\ index \notin S
    BY <1>1, <1>2, <1>3, <1>5
  <2> QED
    BY <1>4, <2>1, FS_AddElement DEF RankOf
<1>7. ASSUME NEW k \in Plain, k < index PROVE RankOf(k) \in 1 .. Cardinality(S)
  <2>1. PICK T : T = {j \in Plain : j <= k}
    OBVIOUS
  <2>2. T \subseteq S /\ k \in T
    <3>1. \A j \in Plain : j \in Nat
      BY <1>1, <1>2
    <3>2. \A j \in Plain : j <= k => j < index
      BY <1>1, <1>7, <3>1
    <3> QED
      BY <1>3, <1>7, <2>1, <3>1, <3>2
  <2>3. IsFiniteSet(T) /\ Cardinality(T) \in Nat /\ Cardinality(T) <= Cardinality(S) /\ Cardinality(T) # 0
    BY <1>4, <2>2, FS_Subset, FS_CardinalityType, FS_EmptySet
  <2> QED
    BY <1>4, <2>1, <2>3, FS_CardinalityType DEF RankOf
<1> QED
  BY <1>1, <1>3, <1>4, <1>5, <1>6, <1>7

\* A word that names nothing.
LEMMA PlainIsRead ==
  ASSUME ArgumentTypes, OptionsRead, PlainRead, index \in DOMAIN words,
         NamedBy(words[index]) = {},
         UNCHANGED <<signature, words, options>>, index' = index + 1,
         positionals' = Append(positionals, words[index].text)
  PROVE  OptionsRead' /\ PlainRead' /\ positionals' \in Seq(Texts)
<1>1. Passes(index + 1)
  BY DEF Passes, Opens, ArgumentTypes
<1>2. PICK next : next = index + 1
  OBVIOUS
<1>3. /\ \A j : \A k \in Naming(j) : k < next <=> k < index \/ k = index
      /\ \A k \in Plain : k < next <=> k < index \/ k = index
      /\ \A j : index \notin Naming(j)
      /\ index \in Plain
  BY <1>1, <1>2, PassedOver
<1>4. index \in Nat /\ \A j : Naming(j) \subseteq Nat
  BY ValueAfter DEF Naming
<1>5. \A j : \A k \in Naming(j) : (k < next <=> k < index) /\ (index <= k => next <= k)
  BY <1>2, <1>3, <1>4
<1>6. OptionsRead'
  BY <1>2, <1>5, Unmoved DEF OptionsRead
<1>7. PICK S : S = {k \in Plain : k < index}
  OBVIOUS
<1>8. /\ IsFiniteSet(S) /\ RankOf(index) = Cardinality(S) + 1
      /\ \A k \in Plain : k < index => RankOf(k) \in 1 .. Cardinality(S)
  BY <1>7, Ranks
<1>9. {k \in Plain : k < next} = S \cup {index} /\ index \notin S
  BY <1>2, <1>3, <1>4, <1>7
<1>10. Cardinality(S \cup {index}) = Cardinality(S) + 1 /\ Cardinality(S) \in Nat
  BY <1>8, <1>9, FS_AddElement, FS_CardinalityType
<1>11. words[index] \in Word
  BY DEF ArgumentTypes
<1>12. positionals \in Seq(Texts) /\ Len(positionals) = Cardinality(S)
  BY <1>7 DEF ArgumentTypes, PlainRead
<1>13. words[index].text \in Texts
  BY <1>11 DEF Texts
<1>14. /\ positionals' \in Seq(Texts) /\ Len(positionals') = Len(positionals) + 1
       /\ \A n \in 1 .. Len(positionals) : positionals'[n] = positionals[n]
       /\ positionals'[Len(positionals) + 1] = words[index].text
  BY <1>12, <1>13, AppendProperties
<1>15. Len(positionals') = Cardinality({k \in Plain : k < next})
  BY <1>9, <1>10, <1>12, <1>14
<1>16. ASSUME NEW n \in 1 .. Len(positionals') PROVE \E k \in Plain : k < next /\ RankOf(k) = n
  <2>1. CASE n = Len(positionals) + 1
    BY <1>2, <1>3, <1>4, <1>8, <1>12, <2>1
  <2>2. CASE n \in 1 .. Len(positionals)
    BY <1>3, <2>2 DEF PlainRead
  <2>3. n = Len(positionals) + 1 \/ n \in 1 .. Len(positionals)
    BY <1>10, <1>12, <1>14
  <2> QED
    BY <2>1, <2>2, <2>3
<1>17. ASSUME NEW k \in Plain, k < next PROVE positionals'[RankOf(k)] = words[k].text
  <2>1. CASE k = index
    BY <1>8, <1>12, <1>14, <2>1
  <2>2. CASE k < index
    BY <1>8, <1>12, <1>14, <2>2 DEF PlainRead
  <2> QED
    BY <1>3, <1>17, <2>1, <2>2
<1>18. PlainRead'
  BY <1>2, <1>15, <1>16, <1>17, Unmoved DEF PlainRead
<1> QED
  BY <1>6, <1>14, <1>18

-----------------------------------------------------------------------------
(* What has been bound. *)

ByPosition == {"positional", "rest"}

LEMMA RankSteps ==
  ASSUME Usable(signature)
  PROVE  /\ Rank(0) = 0
         /\ \A i \in DOMAIN signature :
              /\ Rank(i) \in Nat /\ Rank(i - 1) \in Nat
              /\ Rank(i) = IF signature[i].kind \in ByPosition THEN Rank(i - 1) + 1 ELSE Rank(i - 1)
<1>1. Rank(0) = 0
  <2>1. {j \in 1 .. 0 : signature[j].kind \in {"positional", "rest"}} = {}
    OBVIOUS
  <2> QED
    BY <2>1, FS_EmptySet DEF Rank
<1>2. ASSUME NEW i \in DOMAIN signature
      PROVE  /\ Rank(i) \in Nat /\ Rank(i - 1) \in Nat
             /\ Rank(i) = IF signature[i].kind \in ByPosition THEN Rank(i - 1) + 1 ELSE Rank(i - 1)
  <2>1. PICK S : S = {j \in 1 .. i - 1 : signature[j].kind \in {"positional", "rest"}}
    OBVIOUS
  <2>2. i \in Nat /\ i - 1 \in Nat /\ \A j : j \in 1 .. i <=> j \in 1 .. i - 1 \/ j = i
    BY DEF Usable
  <2>3. i \notin 1 .. i - 1
    BY <2>2
  <2>4. IsFiniteSet(S) /\ Cardinality(S) \in Nat /\ i \notin S
    <3>1. IsFiniteSet(1 .. i - 1)
      BY <2>2, FS_Interval
    <3> QED
      BY <2>1, <2>3, <3>1, FS_Subset, FS_CardinalityType
  <2>5. {j \in 1 .. i : signature[j].kind \in {"positional", "rest"}}
          = IF signature[i].kind \in ByPosition THEN S \cup {i} ELSE S
    BY <2>1, <2>2 DEF ByPosition
  <2>6. Cardinality(S \cup {i}) = Cardinality(S) + 1
    BY <2>4, FS_AddElement
  <2>7. Rank(i) = IF signature[i].kind \in ByPosition THEN Cardinality(S) + 1 ELSE Cardinality(S)
    BY <2>5, <2>6 DEF Rank
  <2>8. Rank(i - 1) = Cardinality(S)
    BY <2>1 DEF Rank
  <2> QED
    BY <2>4, <2>7, <2>8
<1> QED
  BY <1>1, <1>2

\* What the handler gets for parameter i, from what was read.
MeantAt(i) ==
  /\ signature[i].kind = "injected" => i \in DOMAIN bound /\ bound[i] = signature[i].what
  /\ signature[i].kind = "next" => i \notin DOMAIN bound
  /\ i \in ByName =>
       IF i \in DOMAIN options THEN i \in DOMAIN bound /\ bound[i] = options[i] ELSE i \notin DOMAIN bound
  /\ signature[i].kind \in ByPosition =>
       IF Rank(i) > Len(positionals) THEN i \notin DOMAIN bound
       ELSE /\ i \in DOMAIN bound
            /\ signature[i].kind = "positional" => bound[i] = positionals[Rank(i)]
            /\ signature[i].kind = "rest" =>
                 bound[i] = [n \in 1 .. Len(positionals) - Rank(i) + 1 |-> positionals[Rank(i) + n - 1]]

MeantSoFar ==
  /\ \A i \in DOMAIN signature : i < parameter => MeantAt(i)
  /\ \A i \in DOMAIN bound : i \in DOMAIN signature /\ i < parameter
  /\ \A i \in DOMAIN signature :
       i < parameter /\ signature[i].required /\ i \notin DOMAIN bound
         => signature[i].kind \in {"flag", "next"}

\* The positionals are used up in the order of the parameters, and by the rest at once.
UsedSoFar ==
  /\ (\E i \in DOMAIN signature : i < parameter /\ signature[i].kind = "rest") => used = Len(positionals)
  /\ (\A i \in DOMAIN signature : i < parameter => signature[i].kind # "rest") =>
       used = IF Rank(parameter - 1) <= Len(positionals) THEN Rank(parameter - 1) ELSE Len(positionals)
  /\ anyBound = (\E i \in DOMAIN bound : signature[i].kind # "injected")

LEMMA Lefts ==
  ASSUME ArgumentTypes
  PROVE  /\ Len(positionals) \in Nat
         /\ Left = <<>> <=> used >= Len(positionals)
         /\ used < Len(positionals) => Head(Left) = positionals[used + 1]
         /\ Left = [n \in 1 .. Len(positionals) - used |-> positionals[n + used]]
<1>1. used \in 0 .. Len(positionals) /\ positionals \in Seq(Texts)
  BY DEF ArgumentTypes
<1>2. Len(positionals) \in Nat
  BY <1>1
<1>3. PICK n : n = Len(positionals)
  OBVIOUS
<1>4. /\ Left \in Seq(Texts) /\ Len(Left) = n - (used + 1) + 1
      /\ \A i \in 1 .. n - (used + 1) + 1 : Left[i] = positionals[(used + 1) + i - 1]
  <2>1. used + 1 \in 1 .. Len(positionals) + 1 /\ n \in (used + 1) - 1 .. Len(positionals)
    BY <1>1, <1>2, <1>3
  <2> QED
    BY <1>1, <1>3, <2>1, SubSeqProperties DEF Left
<1>5. n - (used + 1) + 1 = n - used /\ \A i \in 1 .. n - used : (used + 1) + i - 1 = i + used
  BY <1>1, <1>2, <1>3
<1>6. Left = [i \in 1 .. n - used |-> positionals[i + used]]
  <2>1. DOMAIN Left = 1 .. n - used /\ Left = [i \in DOMAIN Left |-> Left[i]]
    BY <1>4, <1>5
  <2>2. \A i \in 1 .. n - used : Left[i] = positionals[i + used]
    BY <1>4, <1>5
  <2> QED
    BY <2>1, <2>2
<1>7. CASE used >= n
  <2>1. 1 .. n - used = {}
    BY <1>1, <1>2, <1>3, <1>7
  <2>2. Left = <<>>
    BY <1>6, <2>1
  <2> QED
    BY <1>1, <1>2, <1>3, <1>6, <1>7, <2>2
<1>8. CASE ~ (used >= n)
  <2>1. 1 \in 1 .. n - used
    BY <1>1, <1>2, <1>3, <1>8
  <2>2. Left[1] = positionals[1 + used] /\ 1 \in DOMAIN Left
    BY <1>6, <2>1
  <2>3. Left # <<>>
    BY <2>2
  <2>4. Head(Left) = Left[1]
    BY <1>4, <2>3
  <2> QED
    BY <1>1, <1>2, <1>3, <1>6, <1>8, <2>2, <2>3, <2>4
<1> QED
  BY <1>7, <1>8

\* A parameter that is bound or passed over, with what that does to the positionals left.
LEMMA GoesOn ==
  ASSUME ArgumentTypes, MeantSoFar, UsedSoFar, parameter <= Len(signature),
         UNCHANGED <<signature, words, positionals, options>>, parameter' = parameter + 1,
         \A i \in DOMAIN bound : i \in DOMAIN bound' /\ bound'[i] = bound[i],
         \A i \in DOMAIN bound' : i \in DOMAIN bound \/ i = parameter,
         NEW n, n = parameter, MeantAt(n)',
         signature[parameter].required /\ parameter \notin DOMAIN bound'
           => signature[parameter].kind \in {"flag", "next"},
         anyBound' = (anyBound \/ (parameter \in DOMAIN bound' /\ signature[parameter].kind # "injected")),
         CASE signature[parameter].kind = "rest" -> used' = Len(positionals)
           [] signature[parameter].kind = "positional" ->
                used' = IF used < Len(positionals) THEN used + 1 ELSE used
           [] OTHER -> used' = used
  PROVE  MeantSoFar' /\ UsedSoFar'
<1>1. /\ Len(signature) \in Nat /\ DOMAIN signature = 1 .. Len(signature)
      /\ parameter \in DOMAIN signature /\ parameter \in Nat /\ parameter \notin DOMAIN bound
      /\ \A i \in DOMAIN signature : i < parameter' <=> i < parameter \/ i = parameter
      /\ \A i \in DOMAIN signature : i < parameter => i # parameter
      /\ parameter' - 1 = parameter
  <2>1. Len(signature) \in Nat /\ DOMAIN signature = 1 .. Len(signature)
    BY DEF ArgumentTypes, Usable
  <2>2. parameter \in DOMAIN signature /\ parameter \in Nat
    BY <2>1 DEF ArgumentTypes
  <2>3. parameter \notin DOMAIN bound
    BY <2>2 DEF MeantSoFar
  <2>4. \A i \in DOMAIN signature : i < parameter + 1 <=> i < parameter \/ i = parameter
    BY <2>1, <2>2
  <2>5. (\A i \in DOMAIN signature : i < parameter => i # parameter) /\ (parameter + 1) - 1 = parameter
    BY <2>1, <2>2
  <2> QED
    BY <2>1, <2>2, <2>3, <2>4, <2>5
<1>2. \A i : Rank(i)' = Rank(i)
  BY DEF Rank
<1>3. ByName' = ByName
  BY DEF ByName
<1>4. ASSUME NEW i \in DOMAIN signature, i < parameter PROVE MeantAt(i)'
  <2>1. MeantAt(i)
    BY <1>4 DEF MeantSoFar
  <2>2. (i \in DOMAIN bound' <=> i \in DOMAIN bound) /\ (i \in DOMAIN bound => bound'[i] = bound[i])
    BY <1>1, <1>4
  <2> QED
    BY <1>2, <1>3, <2>1, <2>2 DEF MeantAt
<1>5. MeantSoFar'
  <2>1. ASSUME NEW i \in DOMAIN signature, i < parameter' PROVE MeantAt(i)'
    <3>1. CASE i = parameter
      BY <3>1
    <3>2. CASE i < parameter
      BY <1>4, <3>2
    <3> QED
      BY <1>1, <2>1, <3>1, <3>2
  <2>2. \A i \in DOMAIN bound' : i \in DOMAIN signature /\ i < parameter'
    BY <1>1 DEF MeantSoFar
  <2>3. \A i \in DOMAIN signature :
          i < parameter' /\ signature[i].required /\ i \notin DOMAIN bound'
            => signature[i].kind \in {"flag", "next"}
    BY <1>1 DEF MeantSoFar
  <2> QED
    BY <2>1, <2>2, <2>3 DEF MeantSoFar
<1>6. anyBound' = (\E i \in DOMAIN bound' : signature[i].kind # "injected")
  BY <1>1 DEF UsedSoFar, ArgumentTypes
<1>7. /\ Rank(parameter) \in Nat /\ Rank(parameter - 1) \in Nat
      /\ Rank(parameter) = IF signature[parameter].kind \in ByPosition THEN Rank(parameter - 1) + 1
                           ELSE Rank(parameter - 1)
  BY <1>1, RankSteps DEF ArgumentTypes
<1>8. Len(positionals) \in Nat /\ used \in 0 .. Len(positionals)
  BY Lefts DEF ArgumentTypes
<1>9. (\E i \in DOMAIN signature : i < parameter' /\ signature[i].kind = "rest") => used' = Len(positionals)
  <2>1. CASE signature[parameter].kind = "rest"
    BY <2>1
  <2>2. CASE signature[parameter].kind # "rest"
    <3>1. ASSUME \E i \in DOMAIN signature : i < parameter' /\ signature[i].kind = "rest"
          PROVE  used' = Len(positionals)
      <4>1. used = Len(positionals)
        BY <1>1, <2>2, <3>1 DEF UsedSoFar
      <4> QED
        BY <1>8, <2>2, <4>1
    <3> QED
      BY <3>1
  <2> QED
    BY <2>1, <2>2
<1>10. ASSUME \A i \in DOMAIN signature : i < parameter' => signature[i].kind # "rest"
       PROVE  used' = IF Rank(parameter) <= Len(positionals) THEN Rank(parameter) ELSE Len(positionals)
  <2>1. signature[parameter].kind # "rest"
    BY <1>1, <1>10
  <2>2. used = IF Rank(parameter - 1) <= Len(positionals) THEN Rank(parameter - 1) ELSE Len(positionals)
    BY <1>1, <1>10 DEF UsedSoFar
  <2>3. CASE signature[parameter].kind = "positional"
    <3>1. used' = IF used < Len(positionals) THEN used + 1 ELSE used
      BY <2>3
    <3>2. Rank(parameter) = Rank(parameter - 1) + 1
      BY <1>7, <2>3 DEF ByPosition
    <3> QED
      BY <1>7, <1>8, <2>2, <3>1, <3>2
  <2>4. CASE signature[parameter].kind # "positional"
    <3>1. used' = used
      BY <2>1, <2>4
    <3>2. Rank(parameter) = Rank(parameter - 1)
      BY <1>7, <2>1, <2>4 DEF ByPosition
    <3> QED
      BY <2>2, <3>1, <3>2
  <2> QED
    BY <2>3, <2>4
<1> QED
  BY <1>1, <1>2, <1>5, <1>6, <1>9, <1>10 DEF UsedSoFar

\* What is left for a parameter that takes words by position.
LEMMA LeftByRank ==
  ASSUME ArgumentTypes, UsedSoFar, parameter <= Len(signature), signature[parameter].kind \in ByPosition
  PROVE  /\ Rank(parameter) \in Nat /\ Rank(parameter) >= 1
         /\ used < Len(positionals) => Rank(parameter) = used + 1
         /\ used >= Len(positionals) => Rank(parameter) > Len(positionals)
<1>1. /\ Len(signature) \in Nat /\ DOMAIN signature = 1 .. Len(signature)
      /\ parameter \in DOMAIN signature /\ parameter \in Nat
  BY DEF ArgumentTypes, Usable
<1>2. /\ Rank(parameter) \in Nat /\ Rank(parameter - 1) \in Nat
      /\ Rank(parameter) = Rank(parameter - 1) + 1
  BY <1>1, RankSteps DEF ArgumentTypes
<1>3. \A i \in DOMAIN signature : i < parameter => signature[i].kind # "rest"
  BY <1>1 DEF ArgumentTypes, Usable, ByPosition
<1>4. used = IF Rank(parameter - 1) <= Len(positionals) THEN Rank(parameter - 1) ELSE Len(positionals)
  BY <1>3 DEF UsedSoFar
<1>5. Len(positionals) \in Nat
  BY Lefts
<1> QED
  BY <1>2, <1>4, <1>5

-----------------------------------------------------------------------------
(* What the words mean, once all are read. *)

LEMMA AllRead ==
  ASSUME ArgumentTypes, OptionsRead, PlainRead, index = Len(words) + 1
  PROVE  /\ Len(positionals) = Cardinality(Plain)
         /\ \A n \in 1 .. Len(positionals) : PlainAt(n) = positionals[n]
         /\ \A i \in ByName : (Naming(i) = {}) = (i \notin DOMAIN options)
         /\ \A i \in DOMAIN options : i \in ByName /\ options[i] = Given(i)
         /\ \A i \in ByName : Cardinality(Naming(i)) <= 1
<1>1. Len(words) \in Nat /\ DOMAIN words = 1 .. Len(words)
  BY DEF ArgumentTypes
<1>2. (\A k \in Plain : k < index) /\ (\A i : \A k \in Naming(i) : k < index /\ ~ (index <= k))
  BY <1>1 DEF Plain, Naming
<1>3. {k \in Plain : k < index} = Plain
  BY <1>2
<1>4. Len(positionals) = Cardinality(Plain)
  BY <1>3 DEF PlainRead
<1>5. ASSUME NEW n \in 1 .. Len(positionals) PROVE PlainAt(n) = positionals[n]
  <2>1. \E k \in Plain : RankOf(k) = n
    BY <1>5 DEF PlainRead
  <2>2. PICK k : k = CHOOSE l \in Plain : RankOf(l) = n
    OBVIOUS
  <2>3. k \in Plain /\ RankOf(k) = n
    BY <2>1, <2>2
  <2>4. positionals[n] = words[k].text
    BY <1>2, <2>3 DEF PlainRead
  <2> QED
    BY <2>2, <2>4, Zenon DEF PlainAt, RankOf
<1>6. \A i \in ByName \ DOMAIN options : Naming(i) = {}
  BY <1>2 DEF OptionsRead
<1>7. ASSUME NEW i \in DOMAIN options
      PROVE  \E k : Naming(i) = {k} /\ options[i] = GivenAt(i, k)
  BY <1>2 DEF OptionsRead
<1>8. ASSUME NEW i \in DOMAIN options
      PROVE  Naming(i) # {} /\ Cardinality(Naming(i)) = 1 /\ options[i] = Given(i)
  <2>1. PICK k : Naming(i) = {k} /\ options[i] = GivenAt(i, k)
    BY <1>7
  <2>2. (CHOOSE l \in Naming(i) : TRUE) = k
    BY <2>1
  <2>3. Given(i) = GivenAt(i, k)
    <3>1. PICK l : l = CHOOSE m \in Naming(i) : TRUE
      OBVIOUS
    <3>2. Given(i) = GivenAt(i, l)
      BY <3>1 DEF Given, GivenAt
    <3> QED
      BY <2>2, <3>1, <3>2
  <2> QED
    BY <2>1, <2>3, FS_Singleton
<1>9. ASSUME NEW i \in ByName PROVE Cardinality(Naming(i)) <= 1
  <2>1. CASE i \in DOMAIN options
    BY <1>8, <2>1
  <2>2. CASE i \notin DOMAIN options
    <3>1. Naming(i) = {} /\ Cardinality({}) = 0
      BY <1>6, <2>2, FS_EmptySet
    <3> QED
      BY <3>1
  <2> QED
    BY <2>1, <2>2
<1> QED
  BY <1>4, <1>5, <1>6, <1>8, <1>9 DEF OptionsRead

-----------------------------------------------------------------------------
(* What holds while words become arguments. *)

Stages ==
  /\ outcome = "idle" => signature = <<>> /\ words = <<>> /\ index = 1 /\ positionals = <<>> /\ options = <<>>
  /\ outcome \in {"idle", "reading"} => parameter = 1 /\ used = 0 /\ ~ anyBound /\ bound = <<>>
  /\ outcome \in {"binding", "called", "failed"} => index = Len(words) + 1
  /\ outcome \in {"called", "failed"} => parameter = Len(signature) + 1 /\ (anyBound => Left = <<>>)
  /\ outcome = "failed" => \E i \in DOMAIN signature : signature[i].required /\ i \notin DOMAIN bound
  /\ outcome = "refused" => Wrong

ArgumentsInv == ArgumentTypes /\ OptionsRead /\ PlainRead /\ MeantSoFar /\ UsedSoFar /\ Stages

\* Nothing is read yet.
NothingRead ==
  /\ Usable(signature) /\ words \in Seq(Word)
  /\ index = 1 /\ positionals = <<>> /\ options = <<>>
  /\ parameter = 1 /\ used = 0 /\ anyBound = FALSE /\ bound = <<>>
  /\ outcome \in {"idle", "reading"} /\ (outcome = "idle" => signature = <<>> /\ words = <<>>)

LEMMA NothingReadYet == NothingRead => ArgumentsInv
<1> SUFFICES ASSUME NothingRead PROVE ArgumentsInv
  OBVIOUS
<1>1. /\ DOMAIN signature = 1 .. Len(signature) /\ Len(signature) \in Nat
      /\ words \in Seq(Word) /\ Len(words) \in Nat /\ DOMAIN words = 1 .. Len(words)
  BY DEF NothingRead, Usable
<1>2. ArgumentTypes
  <2>1. index \in DOMAIN words => ~ IsValue[index]
    BY <1>1, ValuesInTurn DEF NothingRead
  <2>2. positionals \in Seq(Texts) /\ Len(positionals) = 0
    BY DEF NothingRead
  <2>3. index \in 1 .. Len(words) + 1 /\ parameter \in 1 .. Len(signature) + 1 /\ used \in 0 .. Len(positionals)
    BY <1>1, <2>2 DEF NothingRead
  <2> QED
    BY <2>1, <2>2, <2>3 DEF NothingRead, ArgumentTypes
<1>3. OptionsRead
  <2>1. DOMAIN options = {}
    BY DEF NothingRead
  <2>2. \A i : \A k \in Naming(i) : index <= k
    BY <1>1 DEF Naming, NothingRead
  <2> QED
    BY <2>1, <2>2 DEF OptionsRead
<1>4. PlainRead
  <2>1. \A k \in Plain : ~ (k < index)
    BY <1>1 DEF Plain, NothingRead
  <2>2. {k \in Plain : k < index} = {} /\ Cardinality({}) = 0 /\ Len(positionals) = 0
    BY <2>1, FS_EmptySet DEF NothingRead
  <2>3. 1 .. Len(positionals) = {}
    BY <2>2
  <2> QED
    BY <2>1, <2>2, <2>3 DEF PlainRead
<1>5. (\A i \in DOMAIN signature : ~ (i < parameter)) /\ DOMAIN bound = {}
  BY <1>1 DEF NothingRead
<1>6. MeantSoFar
  BY <1>5 DEF MeantSoFar
<1>7. UsedSoFar
  <2>1. Rank(0) = 0
    BY RankSteps DEF NothingRead
  <2>2. parameter - 1 = 0 /\ Len(positionals) = 0 /\ used = 0 /\ anyBound = FALSE
    BY DEF NothingRead
  <2> QED
    BY <1>5, <2>1, <2>2 DEF UsedSoFar
<1>8. Stages
  BY DEF NothingRead, Stages
<1> QED
  BY <1>2, <1>3, <1>4, <1>6, <1>7, <1>8 DEF ArgumentsInv

LEMMA Begins == ASSUME ArgumentsInit PROVE ArgumentsInv
<1>1. NothingRead
  <2>1. Usable(<<>>)
    BY DEF Usable
  <2> QED
    BY <2>1 DEF ArgumentsInit, NothingRead
<1> QED
  BY <1>1, NothingReadYet

LEMMA Received ==
  ASSUME ArgumentsInv, NEW s, Usable(s), Receive(s)
  PROVE  ArgumentsInv'
<1>1. NothingRead'
  <2>1. words' \in Seq(Word)
    <3>1. words' \in UNION {[1 .. m -> Word] : m \in 0 .. MaxWords}
      BY DEF Receive, BoundedSeq, SeqOf
    <3>2. PICK m \in 0 .. MaxWords : words' \in [1 .. m -> Word]
      BY <3>1
    <3>3. m \in Nat
      BY ArgumentsAssumption
    <3> QED
      BY <3>2, <3>3
  <2>2. /\ index = 1 /\ positionals = <<>> /\ options = <<>>
        /\ parameter = 1 /\ used = 0 /\ anyBound = FALSE /\ bound = <<>>
    BY DEF ArgumentsInv, ArgumentTypes, Stages, Receive
  <2> QED
    BY <2>1, <2>2 DEF Receive, NothingRead
<1> QED
  BY <1>1, NothingReadYet, PTL

\* Steps that leave what was read as it is.
LEMMA StillRead ==
  ASSUME OptionsRead, PlainRead, UNCHANGED <<signature, words, index, positionals, options>>
  PROVE  OptionsRead' /\ PlainRead'
BY Unmoved DEF OptionsRead, PlainRead

\* Steps that leave what was bound as it is.
LEMMA StillMeant ==
  ASSUME MeantSoFar, UsedSoFar, UNCHANGED <<signature, positionals, options, parameter, used, anyBound, bound>>
  PROVE  MeantSoFar' /\ UsedSoFar'
<1>1. ByName' = ByName /\ \A i : Rank(i)' = Rank(i)
  BY DEF ByName, Rank
<1>2. \A i : MeantAt(i)' = MeantAt(i)
  BY <1>1 DEF MeantAt
<1> QED
  BY <1>1, <1>2 DEF MeantSoFar, UsedSoFar

\* While words are read nothing is bound.
LEMMA ReadsOn ==
  ASSUME ArgumentsInv, outcome = "reading", index \in DOMAIN words, NEW next, Passes(next), index' = next,
         UNCHANGED <<signature, words, parameter, used, anyBound, bound, outcome>>,
         positionals' \in Seq(Texts), OptionsRead', PlainRead'
  PROVE  ArgumentsInv'
<1>1. ArgumentTypes'
  <2>1. next \in DOMAIN words => ~ IsValue[next]
    BY PassedOver DEF ArgumentsInv
  <2>2. used' \in 0 .. Len(positionals')
    BY DEF ArgumentsInv, Stages
  <2>3. IsValue' = IsValue
    BY Unmoved
  <2> QED
    BY <2>1, <2>2, <2>3 DEF ArgumentsInv, ArgumentTypes, Passes
<1>2. parameter = 1 /\ used = 0 /\ ~ anyBound /\ bound = <<>>
  BY DEF ArgumentsInv, Stages
<1>3. Usable(signature)
  BY DEF ArgumentsInv, ArgumentTypes
<1>4. (\A i \in DOMAIN signature' : ~ (i < parameter')) /\ DOMAIN bound' = {} /\ anyBound' = FALSE
  BY <1>2, <1>3 DEF Usable, ArgumentsInv, ArgumentTypes
<1>5. MeantSoFar'
  BY <1>4 DEF MeantSoFar
<1>6. UsedSoFar'
  <2>1. Rank(0) = 0 /\ Rank(0)' = Rank(0)
    BY <1>3, RankSteps DEF Rank
  <2>2. parameter' - 1 = 0 /\ used' = 0 /\ Len(positionals') \in Nat
    BY <1>2
  <2>3. Rank(parameter - 1)' = 0
    <3>1. PICK n : n = parameter' - 1
      OBVIOUS
    <3>2. Rank(n)' = 0
      BY <2>1, <2>2, <3>1
    <3> QED
      BY <3>1, <3>2, Zenon DEF Rank
  <2>4. (IF Rank(parameter - 1)' <= Len(positionals') THEN Rank(parameter - 1)' ELSE Len(positionals')) = 0
    BY <2>2, <2>3
  <2> QED
    BY <1>4, <2>2, <2>4 DEF UsedSoFar
<1>7. Stages'
  BY <1>2 DEF Stages
<1> QED
  BY <1>1, <1>5, <1>6, <1>7 DEF ArgumentsInv

\* The next word.
LEMMA NextWord ==
  ASSUME ArgumentsInv, Reading
  PROVE  /\ index \in DOMAIN words /\ outcome = "reading" /\ ~ IsValue[index]
         /\ ArgumentTypes /\ OptionsRead /\ PlainRead
BY DEF ArgumentsInv, ArgumentTypes, Reading

LEMMA PositionalRead == ASSUME ArgumentsInv, ReadPositional PROVE ArgumentsInv'
<1>1. index \in DOMAIN words /\ outcome = "reading" /\ ArgumentTypes /\ OptionsRead /\ PlainRead
  BY NextWord DEF ReadPositional
<1>2. OptionsRead' /\ PlainRead' /\ positionals' \in Seq(Texts)
  BY <1>1, PlainIsRead DEF ReadPositional
<1>3. Passes(index + 1)
  BY <1>1 DEF Passes, Opens, ArgumentTypes, ReadPositional
<1> QED
  BY <1>1, <1>2, <1>3, ReadsOn DEF ReadPositional

LEMMA OptionRead ==
  ASSUME ArgumentsInv, NEW i, ReadFlag(i) \/ ReadInline(i) \/ ReadNext(i)
  PROVE  ArgumentsInv'
<1>1. index \in DOMAIN words /\ outcome = "reading" /\ ArgumentTypes /\ OptionsRead /\ PlainRead
  <2>1. Reading
    BY DEF ReadFlag, ReadInline, ReadNext
  <2> QED
    BY <2>1, NextWord
<1>2. i \in NamedBy(words[index]) /\ i \notin DOMAIN options
  BY DEF ReadFlag, ReadInline, ReadNext, ReadNamed
<1>3. NamedBy(words[index]) = {i}
  BY <1>1, <1>2, Singles
<1>4. Len(words) \in Nat /\ DOMAIN words = 1 .. Len(words) /\ index \in 1 .. Len(words)
  BY <1>1 DEF ArgumentTypes
<1>5. \E next : Passes(next) /\ ReadNamed(i, GivenAt(i, index), next)
  <2>1. CASE ReadFlag(i)
    <3>1. ~ Opens(words[index])
      BY <1>3, <2>1 DEF Opens, ReadFlag
    <3>2. ReadNamed(i, GivenAt(i, index), index + 1)
      BY <2>1 DEF ReadFlag, GivenAt
    <3> QED
      BY <1>4, <3>1, <3>2 DEF Passes
  <2>2. CASE ReadInline(i)
    <3>1. ~ Opens(words[index])
      BY <2>2 DEF Opens, ReadInline
    <3>2. ReadNamed(i, GivenAt(i, index), index + 1)
      BY <2>2 DEF ReadInline, GivenAt
    <3> QED
      BY <1>4, <3>1, <3>2 DEF Passes
  <2>3. CASE ReadNext(i)
    <3>1. Opens(words[index]) /\ index < Len(words)
      BY <1>2, <2>3 DEF Opens, ReadNext, ValueFollows
    <3>2. 1 + index = index + 1
      BY <1>4
    <3>3. ReadNamed(i, GivenAt(i, index), index + 2)
      BY <2>3, <3>2 DEF ReadNext, GivenAt
    <3> QED
      BY <1>4, <3>1, <3>3 DEF Passes
  <2> QED
    BY <2>1, <2>2, <2>3
<1>6. PICK next : Passes(next) /\ ReadNamed(i, GivenAt(i, index), next)
  BY <1>5
<1>7. OptionsRead' /\ PlainRead'
  BY <1>1, <1>2, <1>6, NamedIsRead DEF ReadNamed
<1>8. positionals' \in Seq(Texts)
  BY <1>1, <1>6 DEF ArgumentTypes, ReadNamed
<1> QED
  BY <1>1, <1>6, <1>7, <1>8, ReadsOn DEF ReadNamed

LEMMA AllIsRead == ASSUME ArgumentsInv, Read PROVE ArgumentsInv'
<1>1. OptionsRead' /\ PlainRead' /\ MeantSoFar' /\ UsedSoFar'
  BY StillRead, StillMeant DEF ArgumentsInv, Read
<1>2. IsValue' = IsValue
  BY Unmoved DEF Read
<1>3. ArgumentTypes'
  BY <1>2 DEF ArgumentsInv, ArgumentTypes, Read
<1>4. index = Len(words) + 1
  BY DEF ArgumentsInv, ArgumentTypes, Read
<1>5. Stages'
  BY <1>4 DEF Read, Stages
<1> QED
  BY <1>1, <1>3, <1>5 DEF ArgumentsInv

-----------------------------------------------------------------------------
(* What is refused is wrong. *)

LEMMA WrongStays == ASSUME UNCHANGED <<signature, words>> PROVE Wrong' = Wrong
<1>1. /\ ByName' = ByName /\ Plain' = Plain
      /\ \A i : Naming(i)' = Naming(i)
      /\ \A w : NamedBy(w)' = NamedBy(w)
  BY Unmoved
<1>2. ASSUME NEW i PROVE Given(i)' = Given(i)
  <2>1. Naming(i)' = Naming(i)
    BY <1>1
  <2>2. PICK k : k = CHOOSE l \in Naming(i) : TRUE
    OBVIOUS
  <2>3. (CHOOSE l \in Naming(i)' : TRUE) = k
    BY <2>1, <2>2
  <2>4. Given(i) = GivenAt(i, k)
    BY <2>2 DEF Given, GivenAt
  <2>5. Given(i)' = GivenAt(i, k)'
    <3>1. PICK l : l = CHOOSE m \in Naming(i)' : TRUE
      OBVIOUS
    <3>2. l = k
      BY <2>3, <3>1
    <3>3. Given(i)' = GivenAt(i, l)'
      BY <3>1 DEF Given, GivenAt
    <3> QED
      BY <3>2, <3>3 DEF GivenAt
  <2> QED
    BY <2>4, <2>5, Unmoved
<1>3. \A i : Rank(i)' = Rank(i) /\ PlainAt(i)' = PlainAt(i)
  BY <1>1, Zenon DEF Rank, PlainAt
<1>4. \A w : Opens(w)' = Opens(w)
  BY <1>1 DEF Opens
<1> QED
  BY <1>1, <1>2, <1>3, <1>4 DEF Wrong

LEMMA Refused == ASSUME ArgumentsInv, Refuse, Wrong PROVE ArgumentsInv'
<1>1. OptionsRead' /\ PlainRead' /\ MeantSoFar' /\ UsedSoFar'
  BY StillRead, StillMeant DEF ArgumentsInv, Refuse
<1>2. /\ ByName' = ByName /\ Plain' = Plain /\ IsValue' = IsValue
      /\ \A i : Naming(i)' = Naming(i)
  BY Unmoved DEF Refuse
<1>3. ArgumentTypes'
  BY <1>2 DEF ArgumentsInv, ArgumentTypes, Refuse
<1>4. Wrong'
  BY WrongStays DEF Refuse
<1>5. Stages'
  BY <1>4 DEF Refuse, Stages
<1> QED
  BY <1>1, <1>3, <1>5 DEF ArgumentsInv

LEMMA UnknownIsWrong == ASSUME ArgumentsInv, RefuseUnknown PROVE Wrong
<1>1. index \in DOMAIN words /\ ~ IsValue[index]
  BY NextWord DEF RefuseUnknown
<1>2. index \in Plain
  BY <1>1 DEF Plain, RefuseUnknown
<1> QED
  BY <1>2 DEF Wrong, RefuseUnknown

LEMMA RepeatedIsWrong == ASSUME ArgumentsInv, RefuseRepeated PROVE Wrong
<1>1. PICK i \in NamedBy(words[index]) : i \in DOMAIN options
  BY DEF RefuseRepeated
<1>2. index \in DOMAIN words /\ ~ IsValue[index]
  BY NextWord DEF RefuseRepeated
<1>3. index \in Naming(i) /\ i \in ByName
  BY <1>2 DEF Naming, NamedBy
<1>4. PICK k \in Naming(i) : k < index
  BY <1>1 DEF ArgumentsInv, OptionsRead
<1>5. Len(words) \in Nat /\ Naming(i) \subseteq 1 .. Len(words)
  BY DEF ArgumentsInv, ArgumentTypes, Naming
<1>6. IsFiniteSet(Naming(i))
  <2>1. IsFiniteSet(1 .. Len(words))
    BY <1>5, FS_Interval
  <2> QED
    BY <1>5, <2>1, FS_Subset
<1>7. k # index
  BY <1>3, <1>4, <1>5
<1>8. Cardinality({k}) = 1 /\ IsFiniteSet({k})
  BY FS_Singleton
<1>9. Cardinality({k} \cup {index}) = 2
  <2>1. index \notin {k}
    BY <1>7
  <2>2. Cardinality({k} \cup {index}) = Cardinality({k}) + 1
    BY <1>8, <2>1, FS_AddElement
  <2> QED
    BY <1>8, <2>2
<1>10. Cardinality({k} \cup {index}) <= Cardinality(Naming(i)) /\ Cardinality(Naming(i)) \in Nat
  BY <1>3, <1>4, <1>6, FS_Subset, FS_CardinalityType
<1>11. Cardinality(Naming(i)) > 1
  BY <1>9, <1>10
<1> QED
  BY <1>3, <1>11 DEF Wrong

LEMMA MissingIsWrong == ASSUME ArgumentsInv, RefuseMissing PROVE Wrong
<1>1. PICK i \in NamedBy(words[index]) :
        /\ signature[i].kind = "option"
        /\ words[index].inline = "" \/ (words[index].inline = NoInline /\ ~ ValueFollows)
  BY DEF RefuseMissing
<1>2. index \in DOMAIN words /\ ~ IsValue[index]
  BY NextWord DEF RefuseMissing
<1>3. index \in Naming(i) /\ i \in ByName
  BY <1>2 DEF Naming, NamedBy
<1>4. words[index].inline = NoInline => Opens(words[index])
  BY <1>1 DEF Opens
<1>5. ~ ValueFollows => index = Len(words) \/ words[index + 1].like
  BY <1>2 DEF ValueFollows, ArgumentsInv, ArgumentTypes
<1> QED
  BY <1>1, <1>3, <1>4, <1>5 DEF Wrong

LEMMA ValueIsWrong == ASSUME ArgumentsInv, RefuseValue PROVE Wrong
<1>1. /\ outcome = "binding" /\ parameter <= Len(signature) /\ parameter \in DOMAIN signature
      /\ ArgumentTypes /\ UsedSoFar
  BY DEF RefuseValue, Binding, ArgumentsInv, ArgumentTypes, Usable
<1>2. /\ Len(positionals) = Cardinality(Plain)
      /\ \A n \in 1 .. Len(positionals) : PlainAt(n) = positionals[n]
      /\ \A i \in DOMAIN options : i \in ByName /\ Naming(i) # {} /\ options[i] = Given(i)
  BY <1>1, AllRead DEF ArgumentsInv, Stages
<1>3. CASE signature[parameter].kind = "positional" /\ Left # <<>> /\ ~ Valid(Head(Left))
  <2>1. used < Len(positionals) /\ used \in Nat /\ Len(positionals) \in Nat /\ Head(Left) = positionals[used + 1]
    BY <1>1, <1>3, Lefts DEF ArgumentTypes
  <2>2. Rank(parameter) = used + 1
    BY <1>1, <1>3, <2>1, LeftByRank DEF ByPosition
  <2>3. Rank(parameter) <= Cardinality(Plain) /\ PlainAt(Rank(parameter)) = Head(Left)
    BY <1>2, <2>1, <2>2
  <2>4. parameter \notin ByName
    BY <1>3 DEF ByName
  <2> QED
    BY <1>1, <1>3, <2>3, <2>4 DEF Wrong, Valid, current
<1>4. CASE signature[parameter].kind \in {"option", "flag"} /\ parameter \in DOMAIN options
           /\ ~ Valid(options[parameter])
  BY <1>1, <1>2, <1>4 DEF Wrong, Valid, current
<1> QED
  BY <1>3, <1>4 DEF RefuseValue, Binding

LEMMA AbsenceIsWrong == ASSUME ArgumentsInv, RefuseAbsent PROVE Wrong
<1>1. /\ outcome = "binding" /\ parameter <= Len(signature) /\ parameter \in DOMAIN signature
      /\ ArgumentTypes /\ UsedSoFar
  BY DEF RefuseAbsent, Absent, Binding, ArgumentsInv, ArgumentTypes, Usable
<1>2. /\ Len(positionals) = Cardinality(Plain)
      /\ \A i \in ByName : (Naming(i) = {}) = (i \notin DOMAIN options)
  BY <1>1, AllRead DEF ArgumentsInv, Stages
<1>3. CASE signature[parameter].kind \in ByPosition /\ Left = <<>>
  <2>1. used >= Len(positionals)
    BY <1>1, <1>3, Lefts
  <2>2. Rank(parameter) > Cardinality(Plain)
    BY <1>1, <1>2, <1>3, <2>1, LeftByRank
  <2>3. parameter \notin ByName /\ signature[parameter].kind \notin {"injected", "next"}
    BY <1>3 DEF ByName, ByPosition
  <2> QED
    BY <1>1, <2>2, <2>3 DEF Wrong, RefuseAbsent, current
<1>4. CASE signature[parameter].kind \in {"option", "flag"} /\ parameter \notin DOMAIN options
  <2>1. parameter \in ByName
    BY <1>1, <1>4 DEF ByName
  <2>2. signature[parameter].kind = "option" /\ Naming(parameter) = {}
    BY <1>2, <1>4, <2>1 DEF RefuseAbsent, current
  <2> QED
    BY <1>1, <2>1, <2>2 DEF Wrong, RefuseAbsent, current
<1> QED
  BY <1>3, <1>4 DEF RefuseAbsent, Absent, Binding, ByPosition

\* If no parameter takes the rest, as many plain words are used as there are positionals.
LEMMA RankOfAll ==
  ASSUME Usable(signature), \A i \in DOMAIN signature : signature[i].kind # "rest"
  PROVE  Rank(Len(signature)) = Cardinality({i \in DOMAIN signature : signature[i].kind = "positional"})
<1>1. {j \in 1 .. Len(signature) : signature[j].kind \in {"positional", "rest"}}
        = {i \in DOMAIN signature : signature[i].kind = "positional"}
  BY DEF Usable
<1> QED
  BY <1>1 DEF Rank

LEMMA SurplusIsWrong == ASSUME ArgumentsInv, RefuseSurplus PROVE Wrong
<1>1. /\ ArgumentTypes /\ UsedSoFar /\ Usable(signature) /\ Left # <<>>
      /\ Len(signature) \in Nat /\ DOMAIN signature = 1 .. Len(signature)
      /\ parameter = Len(signature) + 1
  BY DEF RefuseSurplus, Bound, ArgumentsInv, ArgumentTypes, Usable
<1>2. Len(positionals) = Cardinality(Plain)
  BY AllRead DEF ArgumentsInv, Stages, RefuseSurplus, Bound
<1>3. used < Len(positionals) /\ used \in Nat /\ Len(positionals) \in Nat
  BY <1>1, Lefts DEF ArgumentTypes
<1>4. (\A i \in DOMAIN signature : i < parameter) /\ parameter - 1 = Len(signature)
  BY <1>1
<1>5. ~ \E i \in DOMAIN signature : signature[i].kind = "rest"
  BY <1>1, <1>3, <1>4 DEF UsedSoFar
<1>6. used = IF Rank(Len(signature)) <= Len(positionals) THEN Rank(Len(signature)) ELSE Len(positionals)
  BY <1>1, <1>4, <1>5 DEF UsedSoFar
<1>7. Rank(Len(signature)) = Cardinality({i \in DOMAIN signature : signature[i].kind = "positional"})
  BY <1>1, <1>5, RankOfAll
<1>8. Cardinality(Plain) > Cardinality({i \in DOMAIN signature : signature[i].kind = "positional"})
  BY <1>2, <1>3, <1>6, <1>7
<1> QED
  BY <1>5, <1>8 DEF Wrong

-----------------------------------------------------------------------------
(* Binding. *)

\* A parameter that is bound or passed over.
LEMMA BindsOn ==
  ASSUME ArgumentsInv, outcome = "binding", parameter <= Len(signature),
         UNCHANGED <<signature, words, index, positionals, options, outcome>>, parameter' = parameter + 1,
         used' \in 0 .. Len(positionals), anyBound' \in BOOLEAN, MeantSoFar', UsedSoFar'
  PROVE  ArgumentsInv'
<1>1. OptionsRead' /\ PlainRead'
  BY StillRead DEF ArgumentsInv
<1>2. IsValue' = IsValue
  BY Unmoved
<1>3. parameter' \in 1 .. Len(signature) + 1
  BY DEF ArgumentsInv, ArgumentTypes, Usable
<1>4. ArgumentTypes'
  BY <1>2, <1>3 DEF ArgumentsInv, ArgumentTypes
<1>5. Stages'
  BY DEF ArgumentsInv, Stages
<1> QED
  BY <1>1, <1>4, <1>5 DEF ArgumentsInv

\* Binding(kinds), with the facts about the next parameter.
LEMMA AtParameter ==
  ASSUME ArgumentsInv, NEW kinds, Binding(kinds)
  PROVE  /\ outcome = "binding" /\ parameter <= Len(signature) /\ parameter \in DOMAIN signature
         /\ ArgumentTypes /\ MeantSoFar /\ UsedSoFar /\ signature[parameter].kind \in kinds
         /\ parameter \notin DOMAIN bound
         /\ used \in 0 .. Len(positionals) /\ Len(positionals) \in Nat /\ anyBound \in BOOLEAN
<1>1. /\ outcome = "binding" /\ parameter <= Len(signature) /\ parameter \in DOMAIN signature
      /\ ArgumentTypes /\ MeantSoFar /\ UsedSoFar /\ signature[parameter].kind \in kinds
      /\ parameter \in Nat
  BY DEF Binding, ArgumentsInv, ArgumentTypes, Usable
<1>2. parameter \notin DOMAIN bound
  BY <1>1 DEF MeantSoFar
<1>3. used \in 0 .. Len(positionals) /\ Len(positionals) \in Nat /\ anyBound \in BOOLEAN
  BY <1>1, Lefts DEF ArgumentTypes
<1> QED
  BY <1>1, <1>2, <1>3

LEMMA WithOne ==
  ASSUME NEW f, NEW i, NEW x, i \notin DOMAIN f
  PROVE  /\ DOMAIN With(f, i, x) = DOMAIN f \cup {i} /\ With(f, i, x)[i] = x
         /\ \A j \in DOMAIN f : j \in DOMAIN With(f, i, x) /\ With(f, i, x)[j] = f[j]
         /\ \A j \in DOMAIN With(f, i, x) : j \in DOMAIN f \/ j = i
BY DEF With

LEMMA InjectedIsBound == ASSUME ArgumentsInv, BindInjected PROVE ArgumentsInv'
<1>1. /\ outcome = "binding" /\ parameter <= Len(signature) /\ parameter \in DOMAIN signature
      /\ ArgumentTypes /\ MeantSoFar /\ UsedSoFar /\ signature[parameter].kind \in {"injected"}
      /\ parameter \notin DOMAIN bound
      /\ used \in 0 .. Len(positionals) /\ Len(positionals) \in Nat /\ anyBound \in BOOLEAN
  BY AtParameter DEF BindInjected
<1>2. /\ DOMAIN bound' = DOMAIN bound \cup {parameter} /\ bound'[parameter] = current.what
      /\ \A j \in DOMAIN bound : j \in DOMAIN bound' /\ bound'[j] = bound[j]
      /\ \A j \in DOMAIN bound' : j \in DOMAIN bound \/ j = parameter
  <2>1. PICK x : x = current.what
    OBVIOUS
  <2>2. bound' = With(bound, parameter, x)
    BY <2>1 DEF BindInjected
  <2> QED
    <3>1. parameter \notin DOMAIN bound
      BY <1>1
    <3> QED
      BY <2>1, <2>2, <3>1 DEF With
<1>3. PICK n : n = parameter
  OBVIOUS
<1>4. MeantAt(n)'
  BY <1>1, <1>2, <1>3 DEF MeantAt, ByPosition, ByName, current, BindInjected
<1>5. MeantSoFar' /\ UsedSoFar'
  BY <1>1, <1>2, <1>3, <1>4, GoesOn DEF BindInjected
<1> QED
  BY <1>1, <1>5, BindsOn DEF BindInjected

LEMMA NextIsSkipped == ASSUME ArgumentsInv, SkipNext PROVE ArgumentsInv'
<1>1. /\ outcome = "binding" /\ parameter <= Len(signature) /\ parameter \in DOMAIN signature
      /\ ArgumentTypes /\ MeantSoFar /\ UsedSoFar /\ signature[parameter].kind \in {"next"}
      /\ parameter \notin DOMAIN bound
      /\ used \in 0 .. Len(positionals) /\ Len(positionals) \in Nat /\ anyBound \in BOOLEAN
  BY AtParameter DEF SkipNext
<1>2. PICK n : n = parameter
  OBVIOUS
<1>3. MeantAt(n)'
  BY <1>1, <1>2 DEF MeantAt, ByPosition, ByName, SkipNext, Unset
<1>4. MeantSoFar' /\ UsedSoFar'
  BY <1>1, <1>2, <1>3, GoesOn DEF SkipNext, Unset
<1> QED
  BY <1>1, <1>4, BindsOn DEF SkipNext, Unset

LEMMA PositionalIsBound == ASSUME ArgumentsInv, BindPositional PROVE ArgumentsInv'
<1>1. /\ outcome = "binding" /\ parameter <= Len(signature) /\ parameter \in DOMAIN signature
      /\ ArgumentTypes /\ MeantSoFar /\ UsedSoFar /\ signature[parameter].kind \in {"positional"}
      /\ parameter \notin DOMAIN bound
      /\ used \in 0 .. Len(positionals) /\ Len(positionals) \in Nat /\ anyBound \in BOOLEAN
  BY AtParameter DEF BindPositional
<1>2. /\ DOMAIN bound' = DOMAIN bound \cup {parameter} /\ bound'[parameter] = Head(Left)
      /\ \A j \in DOMAIN bound : j \in DOMAIN bound' /\ bound'[j] = bound[j]
      /\ \A j \in DOMAIN bound' : j \in DOMAIN bound \/ j = parameter
  <2>1. PICK x : x = Head(Left)
    OBVIOUS
  <2>2. bound' = With(bound, parameter, x)
    BY <2>1 DEF BindPositional, Bind
  <2> QED
    <3>1. parameter \notin DOMAIN bound
      BY <1>1
    <3> QED
      BY <2>1, <2>2, <3>1 DEF With
<1>3. used < Len(positionals) /\ Head(Left) = positionals[used + 1]
  BY <1>1, Lefts DEF BindPositional
<1>4. Rank(parameter) = used + 1
  BY <1>1, <1>3, LeftByRank DEF ByPosition
<1>5. PICK n : n = parameter
  OBVIOUS
<1>6. MeantAt(n)'
  <2>1. Rank(n)' = used + 1 /\ ~ (used + 1 > Len(positionals))
    BY <1>1, <1>3, <1>4, <1>5 DEF Rank, BindPositional, Bind
  <2> QED
    BY <1>1, <1>2, <1>3, <1>5, <2>1 DEF MeantAt, ByPosition, ByName, BindPositional, Bind
<1>7. MeantSoFar' /\ UsedSoFar'
  BY <1>1, <1>2, <1>3, <1>5, <1>6, GoesOn DEF BindPositional, Bind
<1>8. used' \in 0 .. Len(positionals)
  BY <1>1, <1>3 DEF BindPositional, Bind
<1> QED
  BY <1>1, <1>7, <1>8, BindsOn DEF BindPositional, Bind

LEMMA RestIsBound == ASSUME ArgumentsInv, BindRest PROVE ArgumentsInv'
<1>1. /\ outcome = "binding" /\ parameter <= Len(signature) /\ parameter \in DOMAIN signature
      /\ ArgumentTypes /\ MeantSoFar /\ UsedSoFar /\ signature[parameter].kind \in {"rest"}
      /\ parameter \notin DOMAIN bound
      /\ used \in 0 .. Len(positionals) /\ Len(positionals) \in Nat /\ anyBound \in BOOLEAN
  BY AtParameter DEF BindRest
<1>2. /\ DOMAIN bound' = DOMAIN bound \cup {parameter} /\ bound'[parameter] = Left
      /\ \A j \in DOMAIN bound : j \in DOMAIN bound' /\ bound'[j] = bound[j]
      /\ \A j \in DOMAIN bound' : j \in DOMAIN bound \/ j = parameter
  <2>1. PICK x : x = Left
    OBVIOUS
  <2>2. bound' = With(bound, parameter, x)
    BY <2>1 DEF BindRest, Bind
  <2> QED
    <3>1. parameter \notin DOMAIN bound
      BY <1>1
    <3> QED
      BY <2>1, <2>2, <3>1 DEF With
<1>3. /\ used < Len(positionals)
      /\ Left = [k \in 1 .. Len(positionals) - used |-> positionals[k + used]]
  BY <1>1, Lefts DEF BindRest
<1>4. Rank(parameter) = used + 1
  BY <1>1, <1>3, LeftByRank DEF ByPosition
<1>5. PICK n : n = parameter
  OBVIOUS
<1>6. MeantAt(n)'
  <2>1. Rank(n)' = used + 1 /\ ~ (used + 1 > Len(positionals))
    BY <1>1, <1>3, <1>4, <1>5 DEF Rank, BindRest, Bind
  <2>2. Len(positionals) - used = Len(positionals) - (used + 1) + 1
        /\ \A k \in 1 .. Len(positionals) - used : k + used = (used + 1) + k - 1
    BY <1>1
  <2>3. Left = [k \in 1 .. Len(positionals) - (used + 1) + 1 |-> positionals[(used + 1) + k - 1]]
    BY <1>3, <2>2
  <2>4. /\ positionals' = positionals /\ signature' = signature
        /\ n \in DOMAIN bound' /\ bound'[n] = Left /\ signature[n].kind = "rest"
    BY <1>1, <1>2, <1>5 DEF BindRest, Bind
  <2>5. n \notin ByName'
    BY <2>4 DEF ByName
  <2> QED
    BY <2>1, <2>3, <2>4, <2>5 DEF MeantAt, ByPosition
<1>7. MeantSoFar' /\ UsedSoFar'
  BY <1>1, <1>2, <1>3, <1>5, <1>6, GoesOn DEF BindRest, Bind
<1>8. used' \in 0 .. Len(positionals)
  BY <1>1 DEF BindRest, Bind
<1> QED
  BY <1>1, <1>7, <1>8, BindsOn DEF BindRest, Bind

LEMMA NamedIsBound == ASSUME ArgumentsInv, BindNamed PROVE ArgumentsInv'
<1>1. /\ outcome = "binding" /\ parameter <= Len(signature) /\ parameter \in DOMAIN signature
      /\ ArgumentTypes /\ MeantSoFar /\ UsedSoFar /\ signature[parameter].kind \in {"option", "flag"}
      /\ parameter \notin DOMAIN bound
      /\ used \in 0 .. Len(positionals) /\ Len(positionals) \in Nat /\ anyBound \in BOOLEAN
  BY AtParameter DEF BindNamed
<1>2. /\ DOMAIN bound' = DOMAIN bound \cup {parameter} /\ bound'[parameter] = options[parameter]
      /\ \A j \in DOMAIN bound : j \in DOMAIN bound' /\ bound'[j] = bound[j]
      /\ \A j \in DOMAIN bound' : j \in DOMAIN bound \/ j = parameter
  <2>1. PICK x : x = options[parameter]
    OBVIOUS
  <2>2. bound' = With(bound, parameter, x)
    BY <2>1 DEF BindNamed, Bind
  <2> QED
    <3>1. parameter \notin DOMAIN bound
      BY <1>1
    <3> QED
      BY <2>1, <2>2, <3>1 DEF With
<1>3. PICK n : n = parameter
  OBVIOUS
<1>4. MeantAt(n)'
  BY <1>1, <1>2, <1>3 DEF MeantAt, ByPosition, ByName, BindNamed, Bind
<1>5. MeantSoFar' /\ UsedSoFar'
  BY <1>1, <1>2, <1>3, <1>4, GoesOn DEF BindNamed, Bind
<1> QED
  BY <1>1, <1>5, BindsOn DEF BindNamed, Bind

LEMMA AbsentIsLeft == ASSUME ArgumentsInv, LeaveUnset PROVE ArgumentsInv'
<1>1. /\ outcome = "binding" /\ parameter <= Len(signature) /\ parameter \in DOMAIN signature
      /\ ArgumentTypes /\ MeantSoFar /\ UsedSoFar
      /\ signature[parameter].kind \in {"positional", "rest", "option", "flag"}
      /\ parameter \notin DOMAIN bound
      /\ used \in 0 .. Len(positionals) /\ Len(positionals) \in Nat /\ anyBound \in BOOLEAN
  <2>1. Binding({"positional", "rest", "option", "flag"})
    BY DEF LeaveUnset, Absent, Binding
  <2> QED
    BY <2>1, AtParameter
<1>2. CASE signature[parameter].kind \in ByPosition
  <2>1. used >= Len(positionals)
    BY <1>1, <1>2, Lefts DEF LeaveUnset, Absent, Binding, ByPosition
  <2>2. Rank(parameter) > Len(positionals)
    BY <1>1, <1>2, <2>1, LeftByRank
  <2>3. PICK n : n = parameter
    OBVIOUS
  <2>4. MeantAt(n)'
    <3>1. Rank(n)' > Len(positionals)
      BY <2>2, <2>3 DEF Rank, LeaveUnset, Unset
    <3> QED
      BY <1>1, <1>2, <2>3, <3>1 DEF MeantAt, ByPosition, ByName, LeaveUnset, Unset
  <2>5. used = Len(positionals) /\ ~ (used < Len(positionals))
    BY <1>1, <2>1
  <2>6. MeantSoFar' /\ UsedSoFar'
    BY <1>1, <1>2, <2>3, <2>4, <2>5, GoesOn DEF LeaveUnset, Unset, current, ByPosition
  <2> QED
    BY <1>1, <2>6, BindsOn DEF LeaveUnset, Unset
<1>3. CASE signature[parameter].kind \in {"option", "flag"}
  <2>1. parameter \notin DOMAIN options
    BY <1>3 DEF LeaveUnset, Absent, Binding
  <2>2. PICK n : n = parameter
    OBVIOUS
  <2>3. MeantAt(n)'
    BY <1>1, <1>3, <2>1, <2>2 DEF MeantAt, ByPosition, ByName, LeaveUnset, Unset
  <2>4. MeantSoFar' /\ UsedSoFar'
    BY <1>1, <1>3, <2>2, <2>3, GoesOn DEF LeaveUnset, Unset, current
  <2> QED
    BY <1>1, <2>4, BindsOn DEF LeaveUnset, Unset
<1> QED
  BY <1>1, <1>2, <1>3 DEF ByPosition

LEMMA Called == ASSUME ArgumentsInv, Call PROVE ArgumentsInv'
<1>1. OptionsRead' /\ PlainRead' /\ MeantSoFar' /\ UsedSoFar'
  BY StillRead, StillMeant DEF ArgumentsInv, Call
<1>2. IsValue' = IsValue /\ Left' = Left
  BY Unmoved DEF Call, Left
<1>3. ArgumentTypes'
  BY <1>2 DEF ArgumentsInv, ArgumentTypes, Call
<1>4. parameter = Len(signature) + 1
  BY DEF ArgumentsInv, ArgumentTypes, Usable, Call, Bound
<1>5. Stages'
  BY <1>2, <1>4 DEF ArgumentsInv, Stages, Call, Bound
<1> QED
  BY <1>1, <1>3, <1>5 DEF ArgumentsInv

-----------------------------------------------------------------------------
(* All steps of the reader. *)

LEMMA ReadAndBindKeeps == ASSUME ArgumentsInv, ReadAndBind PROVE ArgumentsInv'
<1>1. CASE ReadPositional \/ Read
  BY <1>1, PositionalRead, AllIsRead
<1>2. CASE RefuseUnknown \/ RefuseRepeated \/ RefuseMissing \/ RefuseValue \/ RefuseAbsent \/ RefuseSurplus
  <2>1. Wrong
    BY <1>2, UnknownIsWrong, RepeatedIsWrong, MissingIsWrong, ValueIsWrong, AbsenceIsWrong, SurplusIsWrong
  <2>2. Refuse
    BY <1>2 DEF RefuseUnknown, RefuseRepeated, RefuseMissing, RefuseValue, RefuseAbsent, RefuseSurplus
  <2> QED
    BY <2>1, <2>2, Refused
<1>3. CASE \E i \in DOMAIN signature : ReadFlag(i) \/ ReadInline(i) \/ ReadNext(i)
  BY <1>3, OptionRead
<1>4. CASE BindInjected \/ SkipNext \/ BindPositional \/ BindRest \/ BindNamed \/ LeaveUnset
  BY <1>4, InjectedIsBound, NextIsSkipped, PositionalIsBound, RestIsBound, NamedIsBound, AbsentIsLeft
<1>5. CASE Call
  BY <1>5, Called
<1> QED
  BY <1>1, <1>2, <1>3, <1>4, <1>5 DEF ReadAndBind

LEMMA MeansAll == ASSUME ArgumentsInv PROVE BoundAsMeant
<1>1. ArgumentTypes /\ OptionsRead /\ PlainRead /\ MeantSoFar /\ UsedSoFar /\ Usable(signature)
  BY DEF ArgumentsInv, ArgumentTypes
<1>2. outcome = "refused" => Wrong
  BY DEF ArgumentsInv, Stages
<1>3. ASSUME outcome \in {"called", "failed"}
      PROVE  BoundByMeaning /\ (outcome = "failed" =>
               \E i \in DOMAIN signature :
                 signature[i].required /\ ((signature[i].kind = "flag" /\ Naming(i) = {}) \/ signature[i].kind = "next"))
  <2>1. /\ parameter = Len(signature) + 1 /\ Len(signature) \in Nat /\ DOMAIN signature = 1 .. Len(signature)
        /\ anyBound => Left = <<>>
    BY <1>1, <1>3 DEF ArgumentsInv, Stages, Usable
  <2>2. (\A i \in DOMAIN signature : i < parameter) /\ parameter - 1 = Len(signature)
    BY <2>1
  <2>3. /\ Len(positionals) = Cardinality(Plain)
        /\ \A n \in 1 .. Len(positionals) : PlainAt(n) = positionals[n]
        /\ \A i \in ByName : (Naming(i) = {}) = (i \notin DOMAIN options)
        /\ \A i \in DOMAIN options : i \in ByName /\ options[i] = Given(i)
        /\ \A i \in ByName : Cardinality(Naming(i)) <= 1
    BY <1>1, <1>3, AllRead DEF ArgumentsInv, Stages
  <2>4. Len(positionals) \in Nat /\ used \in 0 .. Len(positionals)
    BY <1>1, Lefts DEF ArgumentTypes
  <2>5. ASSUME NEW i \in DOMAIN signature
        PROVE  /\ MeantAt(i) /\ Rank(i) \in Nat
               /\ signature[i].kind \in ByPosition => Rank(i) >= 1
               /\ signature[i].kind \in {"injected", "next", "positional", "rest", "option", "flag"}
    BY <1>1, <2>2, RankSteps DEF MeantSoFar, Usable
  <2>6. ASSUME NEW i \in DOMAIN signature, signature[i].kind \in ByPosition, Rank(i) <= Cardinality(Plain)
        PROVE  /\ i \in DOMAIN bound
               /\ signature[i].kind = "positional" => bound[i] = PlainAt(Rank(i))
               /\ signature[i].kind = "rest" =>
                    bound[i] = [n \in 1 .. Cardinality(Plain) - Rank(i) + 1 |-> PlainAt(Rank(i) + n - 1)]
    <3>1. MeantAt(i) /\ Rank(i) \in Nat /\ Rank(i) >= 1 /\ ~ (Rank(i) > Len(positionals))
      BY <2>3, <2>4, <2>5, <2>6
    <3>2. \A n \in 1 .. Len(positionals) - Rank(i) + 1 :
            PlainAt(Rank(i) + n - 1) = positionals[Rank(i) + n - 1]
      BY <2>3, <2>4, <3>1
    <3>3. [n \in 1 .. Len(positionals) - Rank(i) + 1 |-> PlainAt(Rank(i) + n - 1)]
            = [n \in 1 .. Len(positionals) - Rank(i) + 1 |-> positionals[Rank(i) + n - 1]]
      BY <3>2, Zenon
    <3>4. PlainAt(Rank(i)) = positionals[Rank(i)]
      BY <2>3, <2>4, <3>1
    <3>5. i \in DOMAIN bound /\ (signature[i].kind = "positional" => bound[i] = PlainAt(Rank(i)))
      BY <2>6, <3>1, <3>4 DEF MeantAt
    <3>6. signature[i].kind = "rest" =>
            bound[i] = [n \in 1 .. Len(positionals) - Rank(i) + 1 |-> positionals[Rank(i) + n - 1]]
      BY <2>6, <3>1 DEF MeantAt
    <3> QED
      BY <2>3, <3>3, <3>5, <3>6
  <2>7. ASSUME NEW i \in DOMAIN signature, signature[i].kind \in ByPosition, Rank(i) > Cardinality(Plain)
        PROVE  i \notin DOMAIN bound
    BY <2>3, <2>5, <2>7 DEF MeantAt
  <2>8. ASSUME NEW i \in ByName
        PROVE  /\ i \in DOMAIN signature
               /\ IF Naming(i) = {} THEN i \notin DOMAIN bound
                  ELSE i \in DOMAIN bound /\ bound[i] = Given(i)
    <3>1. i \in DOMAIN signature /\ MeantAt(i)
      BY <2>5, <2>8 DEF ByName
    <3> QED
      BY <2>3, <2>8, <3>1 DEF MeantAt
  <2>9. ASSUME NEW i \in DOMAIN bound, signature[i].kind # "injected",
               ~ \E j \in DOMAIN signature : signature[j].kind = "rest"
        PROVE  Cardinality(Plain) <= Cardinality({j \in DOMAIN signature : signature[j].kind = "positional"})
    <3>1. anyBound
      BY <1>1, <2>9 DEF UsedSoFar
    <3>2. used = Len(positionals)
      BY <1>1, <2>1, <2>4, <3>1, Lefts
    <3>3. used = IF Rank(Len(signature)) <= Len(positionals) THEN Rank(Len(signature)) ELSE Len(positionals)
      BY <1>1, <2>2, <2>9 DEF UsedSoFar
    <3>4. Rank(Len(signature)) = Cardinality({j \in DOMAIN signature : signature[j].kind = "positional"})
      BY <1>1, <2>9, RankOfAll
    <3>5. Rank(Len(signature)) \in Nat
      <4>1. CASE Len(signature) = 0
        BY <1>1, <4>1, RankSteps
      <4>2. CASE Len(signature) # 0
        BY <2>1, <2>5, <4>2
      <4> QED
        BY <4>1, <4>2
    <3> QED
      BY <2>3, <2>4, <3>2, <3>3, <3>4, <3>5
  <2>10. ASSUME NEW i \in DOMAIN signature
         PROVE  CASE signature[i].kind = "injected" -> i \in DOMAIN bound /\ bound[i] = signature[i].what
                  [] signature[i].kind = "next" -> i \notin DOMAIN bound
                  [] i \in ByName -> IF Naming(i) = {} THEN i \notin DOMAIN bound
                                    ELSE i \in DOMAIN bound /\ bound[i] = Given(i)
                  [] signature[i].kind = "positional" ->
                       IF Rank(i) > Cardinality(Plain) THEN i \notin DOMAIN bound
                       ELSE i \in DOMAIN bound /\ bound[i] = PlainAt(Rank(i))
                  [] signature[i].kind = "rest" ->
                       IF Rank(i) > Cardinality(Plain) THEN i \notin DOMAIN bound
                       ELSE bound[i] = [n \in 1 .. Cardinality(Plain) - Rank(i) + 1 |-> PlainAt(Rank(i) + n - 1)]
    <3>1. CASE signature[i].kind = "injected"
      <4>1. i \in DOMAIN bound /\ bound[i] = signature[i].what
        BY <2>5, <3>1 DEF MeantAt
      <4>2. i \notin ByName
        BY <3>1 DEF ByName
      <4> QED
        BY <3>1, <4>1, <4>2
    <3>2. CASE signature[i].kind = "next"
      <4>1. i \notin DOMAIN bound
        BY <2>5, <3>2 DEF MeantAt
      <4>2. i \notin ByName
        BY <3>2 DEF ByName
      <4> QED
        BY <3>2, <4>1, <4>2
    <3>3. CASE signature[i].kind \in {"option", "flag"}
      <4>1. i \in ByName
        BY <3>3 DEF ByName
      <4> QED
        BY <2>8, <3>3, <4>1
    <3>4. CASE signature[i].kind \in ByPosition
      <4>1. i \notin ByName
        BY <3>4 DEF ByName, ByPosition
      <4>2. Rank(i) > Cardinality(Plain) \/ Rank(i) <= Cardinality(Plain)
        BY <2>3, <2>4, <2>5
      <4>3. CASE Rank(i) > Cardinality(Plain)
        BY <2>7, <3>4, <4>1, <4>3 DEF ByPosition
      <4>4. CASE Rank(i) <= Cardinality(Plain)
        <5>1. ~ (Rank(i) > Cardinality(Plain))
          BY <2>3, <2>4, <2>5, <4>4
        <5> QED
          BY <2>6, <3>4, <4>1, <4>4, <5>1 DEF ByPosition
      <4> QED
        BY <4>2, <4>3, <4>4
    <3> QED
      BY <2>5, <3>1, <3>2, <3>3, <3>4 DEF ByPosition
  <2>11. BoundByMeaning
    BY <2>3, <2>9, <2>10 DEF BoundByMeaning
  <2>12. ASSUME outcome = "failed"
         PROVE  \E i \in DOMAIN signature :
                  signature[i].required /\ ((signature[i].kind = "flag" /\ Naming(i) = {}) \/ signature[i].kind = "next")
    <3>1. PICK i \in DOMAIN signature : signature[i].required /\ i \notin DOMAIN bound
      BY <2>12 DEF ArgumentsInv, Stages
    <3>2. signature[i].kind \in {"flag", "next"}
      BY <1>1, <2>2, <3>1 DEF MeantSoFar
    <3>3. signature[i].kind = "flag" => Naming(i) = {}
      BY <2>8, <3>1 DEF ByName
    <3> QED
      BY <3>1, <3>2, <3>3
  <2> QED
    BY <2>11, <2>12
<1>4. BoundByMeaning
  <2>1. CASE outcome \in {"called", "failed"}
    BY <1>3, <2>1
  <2>2. CASE outcome \notin {"called", "failed"}
    BY <2>2 DEF BoundByMeaning
  <2> QED
    BY <2>1, <2>2
<1> QED
  BY <1>2, <1>3, <1>4 DEF BoundAsMeant

\* Whatever the signature of a command and the words behind it: the handler is called with
\* what the words mean, read out of their order, and refused only what has no meaning.
THEOREM ArgumentsAreAsMeant == ArgumentsSpec => []BoundAsMeant
<1>1. ArgumentsInit => ArgumentsInv
  BY Begins
<1>2. ArgumentsInv /\ [(\E s : Usable(s) /\ Receive(s)) \/ ReadAndBind]_argumentVars => ArgumentsInv'
  <2> SUFFICES ASSUME ArgumentsInv, [(\E s : Usable(s) /\ Receive(s)) \/ ReadAndBind]_argumentVars
               PROVE  ArgumentsInv'
    OBVIOUS
  <2>1. CASE \E s : Usable(s) /\ Receive(s)
    BY <2>1, Received
  <2>2. CASE ReadAndBind
    BY <2>2, ReadAndBindKeeps
  <2>3. CASE UNCHANGED argumentVars
    <3>1. OptionsRead' /\ PlainRead' /\ MeantSoFar' /\ UsedSoFar'
      BY <2>3, StillRead, StillMeant DEF ArgumentsInv, argumentVars
    <3>2. IsValue' = IsValue /\ Left' = Left
      BY <2>3, Unmoved DEF argumentVars, Left
    <3>3. ArgumentTypes'
      BY <2>3, <3>2 DEF ArgumentsInv, ArgumentTypes, argumentVars
    <3>4. Wrong' = Wrong
      BY <2>3, WrongStays DEF argumentVars
    <3>5. Stages'
      BY <2>3, <3>2, <3>4 DEF ArgumentsInv, Stages, argumentVars
    <3> QED
      BY <3>1, <3>3, <3>5 DEF ArgumentsInv
  <2> QED
    BY <2>1, <2>2, <2>3
<1> QED
  BY <1>1, <1>2, MeansAll, PTL DEF ArgumentsSpec

-----------------------------------------------------------------------------
(* The folds of PluginRoutes: what they do at step n, in context c. *)

StepOf(what, c, s, n) ==
  IF what = "validated" THEN ValidateOne(s, c.parameters[n], c.kind)
  ELSE IF what = "injected" THEN InjectOne(s, n, c.parameters[n], c.kind)
  ELSE IF what = "taken" THEN ToolOne(s, c.parameters[n], c.arguments)
  ELSE IF what = "prefixed" THEN (IF n \in c.steps THEN Config[c.past[n].to].prefix \o s ELSE s)
  ELSE IF what = "kept" THEN (IF c[n] = <<>> THEN s ELSE Append(s, c[n]))
  ELSE IF what = "joined" THEN Joined(s, c.list[n])
  ELSE s \o c[n]

First(what, c) ==
  IF what = "validated" THEN [slot |-> 0, ok |-> TRUE]
  ELSE IF what = "injected" THEN [slot |-> 0, given |-> <<>>, rejected |-> FALSE]
  ELSE IF what = "taken" THEN [args |-> <<>>, rejected |-> FALSE]
  ELSE IF what = "joined" THEN c.definitions
  ELSE <<>>

FoldStep(what, c, f, n) == IF n = 0 THEN First(what, c) ELSE StepOf(what, c, f[n - 1], n)

\* Such a fold can be computed.
LEMMA FoldSteps ==
  ASSUME NEW what, NEW c, NEW size \in Nat
  PROVE  \E f : f = [n \in 0 .. size |-> FoldStep(what, c, f, n)]
<1> DEFINE Good(k) == \E f : f = [n \in 0 .. k |-> FoldStep(what, c, f, n)]
           Bad == {k \in 0 .. size : ~ Good(k)}
<1>1. Good(0)
  <2>1. PICK f : f = [n \in 0 .. 0 |-> First(what, c)]
    OBVIOUS
  <2>2. \A n \in 0 .. 0 : FoldStep(what, c, f, n) = First(what, c)
    BY DEF FoldStep
  <2>3. f = [n \in 0 .. 0 |-> FoldStep(what, c, f, n)]
    BY <2>1, <2>2
  <2> QED
    BY <2>3
<1>2. ASSUME NEW k \in Nat, Good(k) PROVE Good(k + 1)
  <2>1. PICK f : f = [n \in 0 .. k |-> FoldStep(what, c, f, n)]
    BY <1>2
  <2>2. PICK l : l = k + 1
    OBVIOUS
  <2>3. PICK g : g = [n \in 0 .. l |-> IF n = l THEN FoldStep(what, c, f, l) ELSE f[n]]
    OBVIOUS
  <2>4. /\ l \in 0 .. l
        /\ \A n \in 0 .. l : n # l => n \in 0 .. k
        /\ \A n \in 0 .. k : n \in 0 .. l /\ n # l
        /\ \A n \in 0 .. l : n # 0 => n - 1 \in 0 .. k
    BY <2>2
  <2>5. \A n \in 0 .. k : g[n] = f[n]
    BY <2>3, <2>4
  <2>6. ASSUME NEW n \in 0 .. l PROVE FoldStep(what, c, g, n) = FoldStep(what, c, f, n)
    <3>1. CASE n = 0
      BY <3>1 DEF FoldStep
    <3>2. CASE n # 0
      <4>1. g[n - 1] = f[n - 1]
        BY <2>4, <2>5, <3>2
      <4> QED
        BY <4>1 DEF FoldStep
    <3> QED
      BY <3>1, <3>2
  <2>7. ASSUME NEW n \in 0 .. l PROVE g[n] = FoldStep(what, c, g, n)
    <3>1. CASE n = l
      BY <2>3, <2>4, <2>6, <3>1
    <3>2. CASE n # l
      <4>1. n \in 0 .. k
        BY <2>4, <3>2
      <4>2. f[n] = FoldStep(what, c, f, n)
        BY <2>1, <4>1
      <4> QED
        BY <2>5, <2>6, <4>1, <4>2
    <3> QED
      BY <3>1, <3>2
  <2>8. g = [n \in 0 .. l |-> FoldStep(what, c, g, n)]
    BY <2>3, <2>7
  <2> QED
    BY <2>2, <2>8
<1>3. Bad = {}
  <2> SUFFICES ASSUME Bad # {} PROVE FALSE
    OBVIOUS
  <2>1. PICK k \in Bad : \A j \in Bad : k <= j
    <3>1. Bad \subseteq Nat
      OBVIOUS
    <3> HIDE DEF Bad
    <3> QED
      BY <3>1, LeastNatural
  <2>2. k \in 0 .. size /\ ~ Good(k)
    OBVIOUS
  <2> HIDE DEF Good
  <2>3. k # 0
    BY <1>1, <2>2
  <2>4. k - 1 \in 0 .. size /\ k - 1 \in Nat /\ (k - 1) + 1 = k /\ ~ (k <= k - 1)
    BY <2>2, <2>3
  <2>5. Good(k - 1)
    BY <2>1, <2>4
  <2> QED
    BY <1>2, <2>2, <2>4, <2>5
<1>4. Good(size)
  <2>1. size \in 0 .. size
    OBVIOUS
  <2> HIDE DEF Good
  <2> QED
    BY <1>3, <2>1
<1> QED
  BY <1>4

\* Induction up to n, over a set.
Climbs(T, n) == 0 \in T /\ \A i \in 0 .. n : i < n /\ i \in T => i + 1 \in T

LEMMA Climb ==
  ASSUME NEW n \in Nat, NEW T, Climbs(T, n)
  PROVE  n \in T
<1> DEFINE Bad == {i \in 0 .. n : i \notin T}
<1> SUFFICES ASSUME n \notin T PROVE FALSE
  OBVIOUS
<1>1. PICK i \in Bad : \A j \in Bad : i <= j
  <2>1. Bad \subseteq Nat /\ Bad # {}
    OBVIOUS
  <2> HIDE DEF Bad
  <2> QED
    BY <2>1, LeastNatural
<1>2. i \in 0 .. n /\ i # 0 /\ i \notin T
  BY DEF Climbs
<1>3. i - 1 \in 0 .. n /\ i - 1 < n /\ (i - 1) + 1 = i /\ ~ (i <= i - 1)
  BY <1>2
<1>4. i - 1 \in T
  BY <1>1, <1>3
<1> QED
  BY <1>2, <1>3, <1>4 DEF Climbs

\* What a fold of each kind is.
Folds(what, c, f, size) == \A n \in 0 .. size : f[n] = FoldStep(what, c, f, n)

Case(route) == [parameters |-> route.handler.parameters, kind |-> route.kind]

LEMMA ServableIs ==
  ASSUME NEW route, Len(route.handler.parameters) \in Nat, Servable(route), route.kind # "tool"
  PROVE  \E f : /\ Folds("validated", Case(route), f, Len(route.handler.parameters))
                /\ f[Len(route.handler.parameters)].ok
<1> DEFINE parameters == route.handler.parameters
           validated[n \in 0 .. Len(parameters)] ==
             IF n = 0 THEN [slot |-> 0, ok |-> TRUE]
             ELSE ValidateOne(validated[n - 1], parameters[n], route.kind)
<1>1. \A f, n : FoldStep("validated", Case(route), f, n) =
                  IF n = 0 THEN [slot |-> 0, ok |-> TRUE]
                  ELSE ValidateOne(f[n - 1], parameters[n], route.kind)
  BY DEF FoldStep, StepOf, First, Case
<1>2. \E f : f = [n \in 0 .. Len(parameters) |->
                    IF n = 0 THEN [slot |-> 0, ok |-> TRUE]
                    ELSE ValidateOne(f[n - 1], parameters[n], route.kind)]
  <2>1. PICK f : f = [n \in 0 .. Len(parameters) |-> FoldStep("validated", Case(route), f, n)]
    BY FoldSteps
  <2>2. f = [n \in 0 .. Len(parameters) |->
               IF n = 0 THEN [slot |-> 0, ok |-> TRUE]
               ELSE ValidateOne(f[n - 1], parameters[n], route.kind)]
    BY <1>1, <2>1
  <2> QED
    BY <2>2, Zenon
<1>3. validated = [n \in 0 .. Len(parameters) |->
                     IF n = 0 THEN [slot |-> 0, ok |-> TRUE]
                     ELSE ValidateOne(validated[n - 1], parameters[n], route.kind)]
  BY <1>2, Zenon
<1>4. validated[Len(parameters)].ok
  BY Zenon DEF Servable
<1> HIDE DEF validated
<1>5. Folds("validated", Case(route), validated, Len(parameters))
  BY <1>1, <1>3 DEF Folds
<1> QED
  BY <1>4, <1>5

LEMMA InjectedIs ==
  ASSUME NEW route, Len(route.handler.parameters) \in Nat, CallInjected(route)
  PROVE  \E f : /\ Folds("injected", Case(route), f, Len(route.handler.parameters))
                /\ called' = [route |-> route, given |-> f[Len(route.handler.parameters)].given,
                              ending |-> Ending(route.handler.parameters, f[Len(route.handler.parameters)])]
<1> DEFINE parameters == route.handler.parameters
           injected[n \in 0 .. Len(parameters)] ==
             IF n = 0 THEN [slot |-> 0, given |-> <<>>, rejected |-> FALSE]
             ELSE InjectOne(injected[n - 1], n, parameters[n], route.kind)
<1>1. \A f, n : FoldStep("injected", Case(route), f, n) =
                  IF n = 0 THEN [slot |-> 0, given |-> <<>>, rejected |-> FALSE]
                  ELSE InjectOne(f[n - 1], n, parameters[n], route.kind)
  BY DEF FoldStep, StepOf, First, Case
<1>2. \E f : f = [n \in 0 .. Len(parameters) |->
                    IF n = 0 THEN [slot |-> 0, given |-> <<>>, rejected |-> FALSE]
                    ELSE InjectOne(f[n - 1], n, parameters[n], route.kind)]
  <2>1. PICK f : f = [n \in 0 .. Len(parameters) |-> FoldStep("injected", Case(route), f, n)]
    BY FoldSteps
  <2>2. f = [n \in 0 .. Len(parameters) |->
               IF n = 0 THEN [slot |-> 0, given |-> <<>>, rejected |-> FALSE]
               ELSE InjectOne(f[n - 1], n, parameters[n], route.kind)]
    BY <1>1, <2>1
  <2> QED
    BY <2>2, Zenon
<1>3. injected = [n \in 0 .. Len(parameters) |->
                     IF n = 0 THEN [slot |-> 0, given |-> <<>>, rejected |-> FALSE]
                     ELSE InjectOne(injected[n - 1], n, parameters[n], route.kind)]
  BY <1>2, Zenon
<1>4. called' = [route |-> route, given |-> injected[Len(parameters)].given,
                 ending |-> Ending(parameters, injected[Len(parameters)])]
  BY Zenon DEF CallInjected
<1> HIDE DEF injected
<1>5. Folds("injected", Case(route), injected, Len(parameters))
  BY <1>1, <1>3 DEF Folds
<1> QED
  BY <1>4, <1>5

Taking(route, arguments) == [parameters |-> route.handler.parameters, arguments |-> arguments]

LEMMA TakenIs ==
  ASSUME NEW route, Len(route.handler.parameters) \in Nat, CallTool(route)
  PROVE  \E wellFormed \in BOOLEAN, arguments \in Arguments(route.handler.parameters) : \E f :
           /\ Folds("taken", Taking(route, arguments), f, Len(route.handler.parameters))
           /\ LET s == f[Len(route.handler.parameters)]
                  valid == Validated(route.schema, wellFormed, arguments)
              IN called' = [route |-> route, given |-> IF valid THEN s.args ELSE <<>>,
                            ending |-> IF ~ valid THEN "refused" ELSE IF s.rejected THEN "rejected" ELSE "called"]
<1> DEFINE parameters == route.handler.parameters
           taken(arguments) ==
             LET t[n \in 0 .. Len(parameters)] ==
                   IF n = 0 THEN [args |-> <<>>, rejected |-> FALSE]
                   ELSE ToolOne(t[n - 1], parameters[n], arguments)
             IN t
           calledWith(wellFormed, arguments, s) ==
             called' = [route |-> route,
                        given |-> IF Validated(route.schema, wellFormed, arguments) THEN s.args ELSE <<>>,
                        ending |-> IF ~ Validated(route.schema, wellFormed, arguments) THEN "refused"
                                   ELSE IF s.rejected THEN "rejected" ELSE "called"]
<1>1. PICK wellFormed \in BOOLEAN, arguments \in Arguments(parameters) :
        calledWith(wellFormed, arguments, taken(arguments)[Len(parameters)])
  BY Zenon DEF CallTool
<1> DEFINE t[n \in 0 .. Len(parameters)] ==
             IF n = 0 THEN [args |-> <<>>, rejected |-> FALSE]
             ELSE ToolOne(t[n - 1], parameters[n], arguments)
<1>2. calledWith(wellFormed, arguments, t[Len(parameters)])
  BY <1>1, Zenon
<1>3. \A f, n : FoldStep("taken", Taking(route, arguments), f, n) =
                  IF n = 0 THEN [args |-> <<>>, rejected |-> FALSE]
                  ELSE ToolOne(f[n - 1], parameters[n], arguments)
  BY DEF FoldStep, StepOf, First, Taking
<1>4. \E f : f = [n \in 0 .. Len(parameters) |->
                    IF n = 0 THEN [args |-> <<>>, rejected |-> FALSE]
                    ELSE ToolOne(f[n - 1], parameters[n], arguments)]
  <2>1. PICK f : f = [n \in 0 .. Len(parameters) |-> FoldStep("taken", Taking(route, arguments), f, n)]
    BY FoldSteps
  <2>2. f = [n \in 0 .. Len(parameters) |->
               IF n = 0 THEN [args |-> <<>>, rejected |-> FALSE]
               ELSE ToolOne(f[n - 1], parameters[n], arguments)]
    BY <1>3, <2>1
  <2> QED
    BY <2>2, Zenon
<1>5. t = [n \in 0 .. Len(parameters) |->
             IF n = 0 THEN [args |-> <<>>, rejected |-> FALSE]
             ELSE ToolOne(t[n - 1], parameters[n], arguments)]
  BY <1>4, Zenon
<1> HIDE DEF t
<1>6. Folds("taken", Taking(route, arguments), t, Len(parameters))
  BY <1>3, <1>5 DEF Folds
<1> QED
  BY <1>2, <1>6, Zenon


-----------------------------------------------------------------------------
(* Parameters that are injected. *)

NextNamed(q) == q.name \in {"next", "call_next"}
TakesSlot(q) == q.default = "none" /\ ~ NextNamed(q)

\* What parameter i of a handler is given is what it asks for.
GivenRight(c, i, x) ==
  LET q == c.parameters[i] IN
  IF q.default = "dependency" THEN x = Dependency(q.base) /\ Permitted(x)
  ELSE IF q.name \in Injected THEN x = IF q.name = "request" THEN "request" ELSE "context"
  ELSE IF NextNamed(q) THEN x = "next"
  ELSE IF c.kind = "event" /\ q.name = "event" THEN x = "event"
  ELSE x = IF \E j \in 1 .. i - 1 : TakesSlot(c.parameters[j]) THEN "context" ELSE "request"

Needs(c, i) == c.parameters[i].default = "none" /\ (~ NextNamed(c.parameters[i]) \/ c.kind = "middleware")

\* If the check of a signature has come so far with slot, so has the injection.
SlotKept(c, slot, s, n) ==
  /\ s = [slot |-> s.slot, given |-> s.given, rejected |-> FALSE]
  /\ s.slot \in 0 .. slot
  /\ s.slot = 0 <=> ~ \E j \in 1 .. n : TakesSlot(c.parameters[j])
GivenKept(c, given, n) ==
  /\ DOMAIN given \subseteq 1 .. n
  /\ \A i \in DOMAIN given : GivenRight(c, i, given[i])
  /\ \A i \in 1 .. n : Needs(c, i) => i \in DOMAIN given

InStep(c, v, s, n) ==
  /\ v = [slot |-> v.slot, ok |-> v.ok] /\ v.slot \in 0 .. 2
  /\ v.ok => SlotKept(c, v.slot, s, n) /\ GivenKept(c, s.given, n)

LEMMA Giving ==
  ASSUME NEW c, NEW given, NEW n \in Nat, GivenKept(c, given, n), NEW x, GivenRight(c, n + 1, x)
  PROVE  GivenKept(c, With(given, n + 1, x), n + 1)
<1>1. PICK l : l = n + 1
  OBVIOUS
<1>2. (\A i \in 1 .. n : i \in 1 .. l /\ i # l) /\ (\A i \in 1 .. l : i # l => i \in 1 .. n) /\ l \in 1 .. l
  BY <1>1
<1>3. PICK g : g = With(given, l, x)
  OBVIOUS
<1>4. DOMAIN g = DOMAIN given \cup {l} /\ \A j \in DOMAIN given \cup {l} : g[j] = IF j = l THEN x ELSE given[j]
  BY <1>3 DEF With
<1>5. DOMAIN g \subseteq 1 .. l
  BY <1>2, <1>4 DEF GivenKept
<1>6. \A i \in DOMAIN g : GivenRight(c, i, g[i])
  BY <1>1, <1>2, <1>4 DEF GivenKept
<1>7. \A i \in 1 .. l : Needs(c, i) => i \in DOMAIN g
  BY <1>2, <1>4 DEF GivenKept
<1> QED
  BY <1>1, <1>3, <1>5, <1>6, <1>7 DEF GivenKept

LEMMA NotGiving ==
  ASSUME NEW c, NEW given, NEW n \in Nat, GivenKept(c, given, n), ~ Needs(c, n + 1)
  PROVE  GivenKept(c, given, n + 1)
<1>1. PICK l : l = n + 1
  OBVIOUS
<1>2. (\A i \in 1 .. n : i \in 1 .. l /\ i # l) /\ (\A i \in 1 .. l : i # l => i \in 1 .. n) /\ l \in 1 .. l
  BY <1>1
<1>3. ~ Needs(c, l)
  BY <1>1
<1>4. GivenKept(c, given, l)
  BY <1>2, <1>3 DEF GivenKept
<1> QED
  BY <1>1, <1>4

\* The slots that are used, after one more parameter.
LEMMA SlotTaken ==
  ASSUME NEW c, NEW slot, NEW s, NEW n \in Nat, SlotKept(c, slot, s, n),
         NEW after \in 0 .. 2, NEW new \in 0 .. after, NEW given,
         TakesSlot(c.parameters[n + 1]) => new # 0,
         ~ TakesSlot(c.parameters[n + 1]) => new = s.slot,
         s.slot # 0 => new # 0
  PROVE  SlotKept(c, after, [slot |-> new, given |-> given, rejected |-> FALSE], n + 1)
<1>1. PICK l : l = n + 1
  OBVIOUS
<1>2. (\A i \in 1 .. n : i \in 1 .. l /\ i # l) /\ (\A i \in 1 .. l : i # l => i \in 1 .. n) /\ l \in 1 .. l
  BY <1>1
<1>3. s.slot = 0 <=> ~ \E j \in 1 .. n : TakesSlot(c.parameters[j])
  BY DEF SlotKept
<1>4. (TakesSlot(c.parameters[l]) => new # 0) /\ (~ TakesSlot(c.parameters[l]) => new = s.slot)
  BY <1>1
<1>5. new = 0 <=> ~ \E j \in 1 .. l : TakesSlot(c.parameters[j])
  BY <1>2, <1>3, <1>4
<1>6. PICK r : r = [slot |-> new, given |-> given, rejected |-> FALSE]
  OBVIOUS
<1>7. r.slot = new /\ r.given = given
  BY <1>6
<1>8. SlotKept(c, after, r, l)
  BY <1>5, <1>6, <1>7 DEF SlotKept
<1> QED
  BY <1>1, <1>6, <1>8

LEMMA InjectsOn ==
  ASSUME NEW c, NEW v, NEW s, NEW n \in Nat, c.kind \in {"task", "event", "middleware"},
         InStep(c, v, s, n), NEW q, q = c.parameters[n + 1]
  PROVE  InStep(c, ValidateOne(v, q, c.kind), InjectOne(s, n + 1, q, c.kind), n + 1)
<1> DEFINE w == ValidateOne(v, q, c.kind)
           t == InjectOne(s, n + 1, q, c.kind)
           l == n + 1
<1>1. v = [slot |-> v.slot, ok |-> v.ok] /\ v.slot \in 0 .. 2
  BY DEF InStep
<1>2. w = [slot |-> w.slot, ok |-> w.ok] /\ w.slot \in 0 .. 2 /\ (w.ok => v.ok)
  <2>1. PICK slot, ok : slot \in 0 .. 2 /\ v = [slot |-> slot, ok |-> ok]
    BY <1>1
  <2>2. \/ w = [slot |-> slot, ok |-> ok /\ Resolves(q.base)]
        \/ w = v
        \/ w = [slot |-> IF slot < 1 THEN 1 ELSE slot, ok |-> ok]
        \/ w = [slot |-> 2, ok |-> ok]
        \/ slot < 2 /\ w = [slot |-> slot + 1, ok |-> ok]
        \/ w = [slot |-> slot, ok |-> FALSE]
    BY <2>1 DEF ValidateOne
  <2> HIDE DEF w
  <2>3. CASE w = [slot |-> slot, ok |-> ok /\ Resolves(q.base)]
    <3>1. w.slot = slot /\ w.ok = (ok /\ Resolves(q.base)) /\ v.ok = ok
      BY <2>1, <2>3
    <3> QED
      BY <2>1, <2>3, <3>1
  <2>4. CASE w = v
    BY <1>1, <2>4
  <2>5. CASE w = [slot |-> IF slot < 1 THEN 1 ELSE slot, ok |-> ok]
    BY <2>1, <2>5
  <2>6. CASE w = [slot |-> 2, ok |-> ok]
    BY <2>1, <2>6
  <2>7. CASE slot < 2 /\ w = [slot |-> slot + 1, ok |-> ok]
    BY <2>1, <2>7
  <2>8. CASE w = [slot |-> slot, ok |-> FALSE]
    BY <2>1, <2>8
  <2> QED
    BY <2>2, <2>3, <2>4, <2>5, <2>6, <2>7, <2>8
<1> SUFFICES ASSUME w.ok PROVE SlotKept(c, w.slot, t, l) /\ GivenKept(c, t.given, l)
  BY <1>2 DEF InStep
<1>3. SlotKept(c, v.slot, s, n) /\ GivenKept(c, s.given, n)
  BY <1>2 DEF InStep
<1>4. s = [slot |-> s.slot, given |-> s.given, rejected |-> FALSE] /\ s.slot \in 0 .. 2 /\ s.slot <= v.slot /\ s.rejected = FALSE
  <2>1. s = [slot |-> s.slot, given |-> s.given, rejected |-> FALSE] /\ s.slot \in 0 .. v.slot
    BY <1>3 DEF SlotKept
  <2> QED
    BY <1>1, <2>1
<1>5. ASSUME NEW new \in 0 .. w.slot, NEW given, t = [slot |-> new, given |-> given, rejected |-> FALSE],
             TakesSlot(q) => new # 0, ~ TakesSlot(q) => new = s.slot, s.slot # 0 => new # 0,
             \/ \E x : given = With(s.given, l, x) /\ GivenRight(c, l, x)
             \/ given = s.given /\ ~ Needs(c, l)
      PROVE  SlotKept(c, w.slot, t, l) /\ GivenKept(c, t.given, l)
  <2>1. SlotKept(c, w.slot, t, l)
    BY <1>2, <1>3, <1>5, SlotTaken
  <2>2. GivenKept(c, given, l)
    BY <1>3, <1>5, Giving, NotGiving
  <2> QED
    BY <1>5, <2>1, <2>2
<1> HIDE DEF l
<1>6. CASE q.default = "dependency"
  <2>1. w.slot = v.slot /\ Resolves(q.base)
    BY <1>1, <1>6 DEF ValidateOne
  <2>2. t = [slot |-> s.slot, given |-> With(s.given, l, Dependency(q.base)), rejected |-> FALSE]
    BY <1>4, <1>6 DEF InjectOne, l
  <2>3. GivenRight(c, l, Dependency(q.base))
    BY <1>6, <2>1 DEF GivenRight, Resolves, l
  <2>4. ~ TakesSlot(q) /\ s.slot \in 0 .. w.slot
    BY <1>1, <1>4, <1>6, <2>1 DEF TakesSlot
  <2> QED
    BY <1>5, <2>2, <2>3, <2>4
<1>7. CASE q.default # "dependency" /\ q.default # "none"
  <2>1. w.slot = v.slot /\ ~ TakesSlot(q) /\ ~ Needs(c, l) /\ s.slot \in 0 .. w.slot
    BY <1>1, <1>4, <1>7 DEF ValidateOne, TakesSlot, Needs, l
  <2>2. CASE q.name = "request"
    <3>1. t = [slot |-> s.slot, given |-> With(s.given, l, "request"), rejected |-> FALSE]
      BY <1>4, <1>7, <2>2 DEF InjectOne, l
    <3>2. GivenRight(c, l, "request")
      BY <1>7, <2>2 DEF GivenRight, Injected, l
    <3> QED
      BY <1>5, <2>1, <3>1, <3>2
  <2>3. CASE q.name = "event" /\ c.kind = "event"
    <3>1. t = [slot |-> s.slot, given |-> With(s.given, l, "event"), rejected |-> FALSE]
      BY <1>4, <1>7, <2>3 DEF InjectOne, l
    <3>2. GivenRight(c, l, "event")
      BY <1>7, <2>3 DEF GivenRight, Injected, NextNamed, l
    <3> QED
      BY <1>5, <2>1, <3>1, <3>2
  <2>4. CASE q.name \in {"ctx", "context"}
    <3>1. t = [slot |-> s.slot, given |-> With(s.given, l, "context"), rejected |-> FALSE]
      BY <1>4, <1>7, <2>4 DEF InjectOne, l
    <3>2. GivenRight(c, l, "context")
      BY <1>7, <2>4 DEF GivenRight, Injected, l
    <3> QED
      BY <1>5, <2>1, <3>1, <3>2
  <2>5. CASE NextNamed(q) /\ c.kind = "middleware"
    <3>1. t = [slot |-> s.slot, given |-> With(s.given, l, "next"), rejected |-> FALSE]
      BY <1>4, <1>7, <2>5 DEF InjectOne, NextNamed, l
    <3>2. GivenRight(c, l, "next")
      BY <1>7, <2>5 DEF GivenRight, Injected, NextNamed, l
    <3> QED
      BY <1>5, <2>1, <3>1, <3>2
  <2>6. CASE /\ q.name \notin {"request", "ctx", "context"} /\ ~ (q.name = "event" /\ c.kind = "event")
             /\ ~ (NextNamed(q) /\ c.kind = "middleware")
    <3>1. t = [slot |-> s.slot, given |-> s.given, rejected |-> FALSE]
      BY <1>4, <1>7, <2>6 DEF InjectOne, NextNamed
    <3> QED
      BY <1>5, <2>1, <3>1
  <2> QED
    BY <2>2, <2>3, <2>4, <2>5, <2>6
<1>8. CASE q.default = "none" /\ q.name = "request"
  <2>1. w.slot = (IF v.slot < 1 THEN 1 ELSE v.slot) /\ TakesSlot(q)
    BY <1>1, <1>8 DEF ValidateOne, TakesSlot, NextNamed
  <2>2. t = [slot |-> IF s.slot < 1 THEN 1 ELSE s.slot, given |-> With(s.given, l, "request"), rejected |-> FALSE]
    BY <1>4, <1>8 DEF InjectOne, Advanced, l
  <2>3. GivenRight(c, l, "request")
    BY <1>8 DEF GivenRight, Injected, l
  <2>4. PICK new : new = IF s.slot < 1 THEN 1 ELSE s.slot
    OBVIOUS
  <2>5. new \in 0 .. w.slot /\ new # 0
    BY <1>1, <1>4, <2>1, <2>4
  <2> QED
    BY <1>5, <2>1, <2>2, <2>3, <2>4, <2>5
<1>9. CASE q.default = "none" /\ q.name = "event" /\ c.kind = "event"
  <2>1. w.slot = v.slot + 1 /\ TakesSlot(q)
    BY <1>1, <1>9 DEF ValidateOne, TakesSlot, NextNamed
  <2>2. t = [slot |-> s.slot + 1, given |-> With(s.given, l, "event"), rejected |-> FALSE]
    BY <1>4, <1>9 DEF InjectOne, Advanced, l
  <2>3. GivenRight(c, l, "event")
    BY <1>9 DEF GivenRight, Injected, NextNamed, l
  <2>4. s.slot + 1 \in 0 .. w.slot /\ s.slot + 1 # 0
    BY <1>1, <1>4, <2>1
  <2> QED
    BY <1>5, <2>1, <2>2, <2>3, <2>4
<1>10. CASE q.default = "none" /\ q.name \in {"ctx", "context"}
  <2>1. w.slot = 2 /\ TakesSlot(q)
    BY <1>1, <1>10 DEF ValidateOne, TakesSlot, NextNamed
  <2>2. t = [slot |-> 2, given |-> With(s.given, l, "context"), rejected |-> FALSE]
    BY <1>4, <1>10 DEF InjectOne, Advanced, l
  <2>3. GivenRight(c, l, "context")
    BY <1>10 DEF GivenRight, Injected, l
  <2>4. 2 \in 0 .. w.slot
    BY <2>1
  <2> QED
    BY <1>5, <2>1, <2>2, <2>3, <2>4
<1>11. CASE q.default = "none" /\ NextNamed(q)
  <2>1. ~ TakesSlot(q) /\ v.slot <= w.slot
    BY <1>1, <1>11 DEF ValidateOne, TakesSlot, NextNamed
  <2>2. s.slot \in 0 .. w.slot
    BY <1>1, <1>2, <1>4, <2>1
  <2>3. CASE c.kind = "middleware"
    <3>1. t = [slot |-> s.slot, given |-> With(s.given, l, "next"), rejected |-> FALSE]
      BY <1>4, <1>11, <2>3 DEF InjectOne, NextNamed, l
    <3>2. GivenRight(c, l, "next")
      BY <1>11, <2>3 DEF GivenRight, Injected, NextNamed, l
    <3> QED
      BY <1>5, <2>1, <2>2, <3>1, <3>2
  <2>4. CASE c.kind # "middleware"
    <3>1. t = [slot |-> s.slot, given |-> s.given, rejected |-> FALSE]
      BY <1>4, <1>11, <2>4 DEF InjectOne, NextNamed
    <3>2. ~ Needs(c, l)
      BY <1>11, <2>4 DEF Needs, l
    <3> QED
      BY <1>5, <2>1, <2>2, <3>1, <3>2
  <2> QED
    BY <2>3, <2>4
<1>12. CASE /\ q.default = "none" /\ q.name \notin {"request", "ctx", "context"} /\ ~ NextNamed(q)
            /\ ~ (q.name = "event" /\ c.kind = "event")
  <2>1. v.slot < 2 /\ w.slot = v.slot + 1 /\ TakesSlot(q)
    BY <1>1, <1>12 DEF ValidateOne, TakesSlot, NextNamed
  <2>2. s.slot \in {0, 1}
    BY <1>1, <1>4, <2>1
  <2>3. PICK x : x = Slot[s.slot + 1]
    OBVIOUS
  <2>4. x = IF s.slot = 0 THEN "request" ELSE "context"
    BY <2>2, <2>3 DEF Slot
  <2>5. t = [slot |-> Advanced(s.slot, x), given |-> With(s.given, l, x), rejected |-> FALSE]
    <3>1. PICK k, given : k = s.slot /\ given = s.given
      OBVIOUS
    <3>2. s = [slot |-> k, given |-> given, rejected |-> FALSE] /\ ~ (k >= 2) /\ x = Slot[k + 1]
      BY <1>4, <2>2, <2>3, <3>1
    <3>3. t = [slot |-> Advanced(k, x), given |-> With(given, l, x), rejected |-> FALSE]
      BY <1>12, <3>2 DEF InjectOne, NextNamed, l
    <3> QED
      BY <3>1, <3>3
  <2>6. Advanced(s.slot, x) = s.slot + 1
    BY <2>2, <2>4 DEF Advanced
  <2>7. s.slot = 0 <=> ~ \E j \in 1 .. l - 1 : TakesSlot(c.parameters[j])
    <3>1. l - 1 = n
      BY DEF l
    <3> QED
      BY <1>3, <3>1 DEF SlotKept
  <2>8. GivenRight(c, l, x)
    BY <1>12, <2>4, <2>7 DEF GivenRight, Injected, l
  <2>9. s.slot + 1 \in 0 .. w.slot /\ s.slot + 1 # 0
    BY <1>1, <1>4, <2>1
  <2> QED
    BY <1>5, <2>1, <2>5, <2>8, <2>9, <2>6
<1> QED
  BY <1>6, <1>7, <1>8, <1>9, <1>10, <1>11, <1>12


LEMMA InjectsAll ==
  ASSUME NEW c, NEW size \in Nat, c.kind \in {"task", "event", "middleware"}, NEW f, NEW g,
         Folds("validated", c, f, size), Folds("injected", c, g, size)
  PROVE  InStep(c, f[size], g[size], size)
<1> DEFINE T == {n \in 0 .. size : InStep(c, f[n], g[n], n)}
<1>1. 0 \in T
  <2>1. 0 \in 0 .. size
    OBVIOUS
  <2>2. f[0] = [slot |-> 0, ok |-> TRUE] /\ g[0] = [slot |-> 0, given |-> <<>>, rejected |-> FALSE]
    BY <2>1 DEF Folds, FoldStep, First
  <2>3. 1 .. 0 = {} /\ DOMAIN <<>> = {}
    OBVIOUS
  <2>4. SlotKept(c, 0, g[0], 0)
    BY <2>2, <2>3 DEF SlotKept
  <2>5. GivenKept(c, <<>>, 0)
    BY <2>3 DEF GivenKept
  <2>6. InStep(c, f[0], g[0], 0)
    BY <2>2, <2>4, <2>5 DEF InStep
  <2> QED
    BY <2>1, <2>6
<1>2. ASSUME NEW n \in 0 .. size, n < size, n \in T PROVE n + 1 \in T
  <2>1. PICK l : l = n + 1
    OBVIOUS
  <2>2. l \in 0 .. size /\ l # 0 /\ l - 1 = n /\ n \in Nat
    BY <1>2, <2>1
  <2>3. f[l] = ValidateOne(f[n], c.parameters[l], c.kind) /\ g[l] = InjectOne(g[n], l, c.parameters[l], c.kind)
    BY <2>2 DEF Folds, FoldStep, StepOf
  <2>4. InStep(c, f[n], g[n], n)
    BY <1>2
  <2>5. InStep(c, f[l], g[l], l)
    BY <2>1, <2>2, <2>3, <2>4, InjectsOn
  <2> QED
    BY <2>1, <2>2, <2>5
<1> HIDE DEF T
<1>3. size \in T
  BY <1>1, <1>2, Climb DEF Climbs
<1> QED
  BY <1>3 DEF T

\* The names of parameters differ.
Distinct(parameters) ==
  /\ parameters \in Seq(Range(parameters))
  /\ \A i, j \in DOMAIN parameters : parameters[i].name = parameters[j].name => i = j

\* A handler that is injected is given all that it asks for.
LEMMA InjectedRightly ==
  ASSUME NEW route, Distinct(route.handler.parameters), Servable(route), CallInjected(route)
  PROVE  HandlersAreCallable'
<1> DEFINE parameters == route.handler.parameters
           size == Len(parameters)
           c == Case(route)
<1>1. size \in Nat /\ DOMAIN parameters = 1 .. size
  BY DEF Distinct
<1>2. route.kind \in {"task", "event", "middleware"} /\ c.kind = route.kind /\ c.parameters = parameters
  BY DEF CallInjected, Case
<1>3. PICK f : Folds("validated", c, f, size) /\ f[size].ok
  BY <1>1, <1>2, ServableIs
<1>4. PICK g : /\ Folds("injected", c, g, size)
               /\ called' = [route |-> route, given |-> g[size].given, ending |-> Ending(parameters, g[size])]
  BY <1>1, InjectedIs
<1> HIDE DEF c, size
<1>5. InStep(c, f[size], g[size], size)
  BY <1>1, <1>2, <1>3, <1>4, InjectsAll
<1>6. SlotKept(c, f[size].slot, g[size], size) /\ GivenKept(c, g[size].given, size)
  BY <1>3, <1>5 DEF InStep
<1>7. g[size].rejected = FALSE
  BY <1>6 DEF SlotKept
<1>8. PICK given, ending : given = g[size].given /\ ending = Ending(parameters, g[size])
  OBVIOUS
<1>9. /\ ending \in {"failed", "called"}
      /\ ending = "failed" => \E i \in DOMAIN parameters : parameters[i].default = "none" /\ i \notin DOMAIN given
  BY <1>7, <1>8 DEF Ending
<1>10. ending = "failed" =>
         route.kind # "middleware" /\ \E i \in DOMAIN parameters :
           parameters[i].name \in {"next", "call_next"} /\ parameters[i].default = "none"
  BY <1>1, <1>2, <1>6, <1>8, <1>9 DEF GivenKept, Needs, NextNamed
<1>11. ASSUME NEW i \in DOMAIN given
       PROVE  IF parameters[i].default = "dependency" THEN
                given[i] = Dependency(parameters[i].base) /\ Permitted(given[i])
              ELSE IF parameters[i].name \in Injected THEN
                given[i] = IF parameters[i].name = "request" THEN "request" ELSE "context"
              ELSE IF parameters[i].name \in {"next", "call_next"} THEN given[i] = "next"
              ELSE IF route.kind = "event" /\ parameters[i].name = "event" THEN given[i] = "event"
              ELSE given[i] =
                     IF \E j \in 1 .. i - 1 :
                          parameters[j].default = "none" /\ parameters[j].name \notin {"next", "call_next"}
                     THEN "context" ELSE "request"
  <2>1. GivenRight(c, i, given[i])
    BY <1>6, <1>8, <1>11 DEF GivenKept
  <2> QED
    BY <1>2, <2>1 DEF GivenRight, NextNamed, TakesSlot
<1>12. called'.route = route /\ called'.given = given /\ called'.ending = ending
  BY <1>4, <1>8
<1> HIDE DEF parameters
<1>13. called'.route.handler.parameters = parameters
  BY <1>12 DEF parameters
<1>14. ending # "missing" /\ route.kind # "tool" /\ ending # "rejected"
  BY <1>2, <1>9
<1> QED
  BY <1>10, <1>11, <1>12, <1>13, <1>14 DEF HandlersAreCallable

-----------------------------------------------------------------------------
(* Tools. *)

\* Arguments that a handler can take: of the right types, and all that are required.
Fits(c) ==
  \A i \in DOMAIN c.parameters :
    LET q == c.parameters[i] IN
    ~ FromContext(q) => /\ q.name \in DOMAIN c.arguments => Coerces(c.arguments[q.name].type, q.base)
                        /\ q.default = "none" => q.name \in DOMAIN c.arguments

Plainly(c, i) == \A j \in 1 .. i : c.parameters[j].default = "none"

ToolStep(c, M, s, n) ==
  /\ s = [args |-> s.args, rejected |-> s.rejected] /\ s.args \in Seq(M) /\ Len(s.args) <= n
  /\ s.rejected \in BOOLEAN /\ (Fits(c) => ~ s.rejected)
  /\ Len(s.args) < n /\ ~ s.rejected => \E j \in 1 .. Len(s.args) + 1 : c.parameters[j].default # "none"
  /\ \A i \in 1 .. Len(s.args) :
       Plainly(c, i) => s.args[i] \in {c.parameters[i].name, "call", "context"}

LEMMA ToolTakes ==
  ASSUME NEW c, NEW M, NEW s, NEW n \in Nat, ToolStep(c, M, s, n), n + 1 \in DOMAIN c.parameters,
         NEW q, q = c.parameters[n + 1], {"call", "context", q.name} \subseteq M
  PROVE  ToolStep(c, M, ToolOne(s, q, c.arguments), n + 1)
<1> DEFINE t == ToolOne(s, q, c.arguments)
<1>1. PICK args, rejected, l : args = s.args /\ rejected = s.rejected /\ l = Len(args)
  OBVIOUS
<1>2. /\ s = [args |-> args, rejected |-> rejected] /\ args \in Seq(M) /\ l = Len(args) /\ l \in Nat /\ l <= n
      /\ rejected \in BOOLEAN /\ (Fits(c) => ~ rejected)
      /\ l < n /\ ~ rejected => \E j \in 1 .. l + 1 : c.parameters[j].default # "none"
      /\ \A i \in 1 .. l : Plainly(c, i) => args[i] \in {c.parameters[i].name, "call", "context"}
  BY <1>1 DEF ToolStep
<1>3. ASSUME rejected PROVE ToolStep(c, M, t, n + 1)
  <2>1. t = s
    BY <1>2, <1>3 DEF ToolOne
  <2>2. l <= n + 1 /\ t.args = args /\ t.rejected = TRUE /\ rejected = TRUE
    BY <1>2, <1>3, <2>1
  <2> HIDE DEF t
  <2> QED
    BY <1>2, <2>1, <2>2 DEF ToolStep
<1>4. ASSUME ~ rejected, NEW x \in {"call", "context", q.name}, t = [s EXCEPT !.args = Append(@, x)]
      PROVE  ToolStep(c, M, t, n + 1)
  <2>1. PICK a : a = Append(args, x)
    OBVIOUS
  <2>2. t = [args |-> a, rejected |-> rejected]
    BY <1>2, <1>4, <2>1
  <2>3. /\ a \in Seq(M) /\ Len(a) = l + 1 /\ a[l + 1] = x
        /\ \A i \in 1 .. l : a[i] = args[i]
    BY <1>2, <1>4, <2>1
  <2>4. l + 1 < n + 1 => \E j \in 1 .. l + 2 : c.parameters[j].default # "none"
    <3> SUFFICES ASSUME l + 1 < n + 1 PROVE \E j \in 1 .. l + 2 : c.parameters[j].default # "none"
      OBVIOUS
    <3>1. PICK j \in 1 .. l + 1 : c.parameters[j].default # "none"
      BY <1>2, <1>4
    <3>2. j \in 1 .. l + 2
      BY <1>2
    <3> QED
      BY <3>1, <3>2
  <2>5. ASSUME NEW i \in 1 .. l + 1, Plainly(c, i)
        PROVE  a[i] \in {c.parameters[i].name, "call", "context"}
    <3>1. CASE i \in 1 .. l
      BY <1>2, <2>3, <2>5, <3>1
    <3>2. CASE i = l + 1
      <4>1. ~ (l < n)
        BY <1>2, <1>4, <2>5, <3>2 DEF Plainly
      <4>2. l = n
        BY <1>2, <4>1
      <4> QED
        BY <1>4, <2>3, <3>2, <4>2
    <3> QED
      BY <1>2, <3>1, <3>2
  <2>6. Len(a) <= n + 1 /\ (Len(a) < n + 1 => \E j \in 1 .. Len(a) + 1 : c.parameters[j].default # "none")
    <3>1. l + 1 <= n + 1 /\ (l + 1) + 1 = l + 2
      BY <1>2
    <3> QED
      BY <2>3, <2>4, <3>1
  <2>7. \A i \in 1 .. Len(a) : Plainly(c, i) => a[i] \in {c.parameters[i].name, "call", "context"}
    BY <2>3, <2>5
  <2>8. t.args = a /\ t.rejected = rejected
    BY <2>2
  <2> HIDE DEF t
  <2> QED
    BY <1>2, <2>2, <2>3, <2>6, <2>7, <2>8 DEF ToolStep
<1>5. ASSUME ~ rejected, t = [s EXCEPT !.rejected = TRUE], ~ Fits(c)
      PROVE  ToolStep(c, M, t, n + 1)
  <2>1. t = [args |-> args, rejected |-> TRUE]
    BY <1>2, <1>5
  <2>2. t.args = args /\ t.rejected = TRUE /\ l <= n + 1
    BY <1>2, <2>1
  <2> HIDE DEF t
  <2> QED
    BY <1>2, <1>5, <2>1, <2>2 DEF ToolStep
<1>6. ASSUME ~ rejected, t = s, q.default # "none"
      PROVE  ToolStep(c, M, t, n + 1)
  <2>1. l < n + 1 => \E j \in 1 .. l + 1 : c.parameters[j].default # "none"
    <3>1. CASE l < n
      BY <1>2, <1>6, <3>1
    <3>2. CASE l = n
      <4>1. n + 1 \in 1 .. l + 1
        BY <3>2
      <4> QED
        BY <1>6, <4>1
    <3> QED
      BY <1>2, <3>1, <3>2
  <2>2. l <= n + 1 /\ t.args = args /\ t.rejected = rejected
    BY <1>2, <1>6
  <2> HIDE DEF t
  <2> QED
    BY <1>2, <1>6, <2>1, <2>2 DEF ToolStep
<1>7. CASE rejected
  BY <1>3, <1>7
<1>8. CASE ~ rejected /\ (q.name \in {"call", "tool_call"} \/ q.base = "ToolCall")
  <2>1. t = [s EXCEPT !.args = Append(@, "call")]
    BY <1>2, <1>8 DEF ToolOne
  <2> QED
    BY <1>4, <1>8, <2>1
<1>9. CASE /\ ~ rejected /\ ~ (q.name \in {"call", "tool_call"} \/ q.base = "ToolCall")
           /\ q.name \in {"ctx", "context", "runtime"}
  <2>1. t = [s EXCEPT !.args = Append(@, "context")]
    BY <1>2, <1>9 DEF ToolOne
  <2> QED
    BY <1>4, <1>9, <2>1
<1>10. CASE ~ rejected /\ ~ FromContext(q) /\ q.name \in DOMAIN c.arguments
  <2>1. CASE Coerces(c.arguments[q.name].type, q.base)
    <3>1. t = [s EXCEPT !.args = Append(@, q.name)]
      BY <1>2, <1>10, <2>1 DEF ToolOne, FromContext
    <3> QED
      BY <1>4, <1>10, <3>1
  <2>2. CASE ~ Coerces(c.arguments[q.name].type, q.base)
    <3>1. t = [s EXCEPT !.rejected = TRUE]
      BY <1>2, <1>10, <2>2 DEF ToolOne, FromContext
    <3>2. ~ Fits(c)
      BY <1>10, <2>2 DEF Fits
    <3> QED
      BY <1>5, <1>10, <3>1, <3>2
  <2> QED
    BY <2>1, <2>2
<1>11. CASE ~ rejected /\ ~ FromContext(q) /\ q.name \notin DOMAIN c.arguments
  <2>1. CASE q.default # "none"
    <3>1. t = s
      BY <1>2, <1>11, <2>1 DEF ToolOne, FromContext
    <3> QED
      BY <1>6, <1>11, <2>1, <3>1
  <2>2. CASE q.default = "none"
    <3>1. t = [s EXCEPT !.rejected = TRUE]
      BY <1>2, <1>11, <2>2 DEF ToolOne, FromContext
    <3>2. ~ Fits(c)
      BY <1>11, <2>2 DEF Fits
    <3> QED
      BY <1>5, <1>11, <3>1, <3>2
  <2> QED
    BY <2>1, <2>2
<1> QED
  BY <1>2, <1>7, <1>8, <1>9, <1>10, <1>11 DEF FromContext


LEMMA ToolTakesAll ==
  ASSUME NEW c, Distinct(c.parameters), NEW f, Folds("taken", c, f, Len(c.parameters))
  PROVE  \E M : ToolStep(c, M, f[Len(c.parameters)], Len(c.parameters))
<1> DEFINE size == Len(c.parameters)
           M == {"call", "context"} \cup {c.parameters[i].name : i \in DOMAIN c.parameters}
           T == {n \in 0 .. size : ToolStep(c, M, f[n], n)}
<1>1. size \in Nat /\ DOMAIN c.parameters = 1 .. size
  BY DEF Distinct
<1> HIDE DEF M, size
<1>2. 0 \in T
  <2>1. f[0] = [args |-> <<>>, rejected |-> FALSE] /\ 0 \in 0 .. size
    BY <1>1 DEF Folds, FoldStep, First, size
  <2>2. <<>> \in Seq(M) /\ Len(<<>>) = 0 /\ 1 .. 0 = {}
    OBVIOUS
  <2>3. ToolStep(c, M, f[0], 0)
    BY <2>1, <2>2 DEF ToolStep
  <2> QED
    BY <2>1, <2>3
<1>3. ASSUME NEW n \in 0 .. size, n < size, n \in T PROVE n + 1 \in T
  <2>1. PICK l : l = n + 1
    OBVIOUS
  <2>2. l \in 0 .. size /\ l # 0 /\ l - 1 = n /\ n \in Nat /\ l \in DOMAIN c.parameters
    BY <1>1, <1>3, <2>1
  <2>3. f[l] = ToolOne(f[n], c.parameters[l], c.arguments)
    BY <2>2 DEF Folds, FoldStep, StepOf, size
  <2>4. ToolStep(c, M, f[n], n) /\ {"call", "context", c.parameters[l].name} \subseteq M
    BY <1>3, <2>2 DEF M
  <2>5. ToolStep(c, M, f[l], l)
    BY <2>1, <2>2, <2>3, <2>4, ToolTakes
  <2> QED
    BY <2>1, <2>2, <2>5
<1> HIDE DEF T
<1>4. size \in T
  BY <1>1, <1>2, <1>3, Climb DEF Climbs
<1> QED
  BY <1>4 DEF T, size

\* What the schema made from a signature says of a parameter.
LEMMA SchemaSays ==
  ASSUME NEW parameters, Distinct(parameters), NEW i \in DOMAIN parameters, ~ FromContext(parameters[i])
  PROVE  LET schema == SchemaOf(parameters)
             q == parameters[i] IN
         /\ schema.types = {"object"} /\ schema.open = FALSE
         /\ q.name \in DOMAIN schema.properties
         /\ schema.properties[q.name].types = {SchemaType(q.base)}
         /\ q.default = "none" => q.name \in schema.required
<1> DEFINE asked == {parameters[j] : j \in {k \in DOMAIN parameters : ~ FromContext(parameters[k])}}
           of(n) == CHOOSE q \in asked : q.name = n
           properties == [n \in {q.name : q \in asked} |-> [AnySchema EXCEPT !.types = {SchemaType(of(n).base)}]]
           required == {q.name : q \in {x \in asked : x.default = "none"}}
<1>1. SchemaOf(parameters) = [AnySchema EXCEPT !.types = {"object"}, !.open = FALSE,
                                               !.properties = properties, !.required = required]
  BY Zenon DEF SchemaOf
<1>2. PICK q : q = parameters[i]
  OBVIOUS
<1>3. q \in asked
  BY <1>2
<1>4. \A x \in asked : x.name = q.name => x = q
  BY <1>2 DEF Distinct
<1>5. of(q.name) = q
  BY <1>3, <1>4
<1> HIDE DEF asked
<1>6. q.name \in DOMAIN properties /\ properties[q.name] = [AnySchema EXCEPT !.types = {SchemaType(of(q.name).base)}]
  BY <1>3
<1>7. q.default = "none" => q.name \in required
  BY <1>3
<1> HIDE DEF properties, required, of
<1>8. PICK schema : schema = SchemaOf(parameters)
  OBVIOUS
<1>9. schema.types = {"object"} /\ schema.open = FALSE /\ schema.properties = properties /\ schema.required = required
  BY <1>1, <1>8 DEF AnySchema
<1>10. properties[q.name].types = {SchemaType(q.base)}
  BY <1>5, <1>6 DEF AnySchema
<1> QED
  BY <1>2, <1>6, <1>7, <1>8, <1>9, <1>10

\* What an object says that a closed schema admits.
LEMMA ObjectAdmitted ==
  ASSUME NEW schema, NEW value, Admits(schema, value), schema.types = {"object"}, schema.open = FALSE
  PROVE  /\ schema.required \subseteq DOMAIN value.parts
         /\ \A key \in DOMAIN schema.properties \cap DOMAIN value.parts :
              Admits2(schema.properties[key], value.parts[key])
<1> DEFINE properties == IF schema.properties = Nil THEN <<>> ELSE schema.properties
<1>1. /\ schema.required \subseteq DOMAIN value.parts
      /\ schema.open \/ DOMAIN value.parts \subseteq DOMAIN properties
      /\ \A key \in DOMAIN properties \cap DOMAIN value.parts : Admits2(properties[key], value.parts[key])
  BY Zenon DEF Admits, AdmitsBy
<1>2. DOMAIN <<>> = {}
  OBVIOUS
<1>3. CASE schema.properties = Nil
  BY <1>1, <1>2, <1>3
<1>4. CASE schema.properties # Nil
  BY <1>1, <1>4
<1> QED
  BY <1>3, <1>4

LEMMA TypeAdmitted ==
  ASSUME NEW schema, NEW value, Admits2(schema, value), NEW type, schema.types = {type}
  PROVE  Matches(value, type)
BY DEF Admits2, AdmitsBy

LEMMA Coerced ==
  ASSUME NEW value, NEW base, Matches(value, SchemaType(base))
  PROVE  Coerces(value.type, base)
<1>1. CASE base = "int"
  BY <1>1 DEF Matches, SchemaType, Coerces
<1>2. CASE base = "float"
  BY <1>2 DEF Matches, SchemaType, Coerces
<1>3. CASE base = "bool"
  BY <1>3 DEF Matches, SchemaType, Coerces
<1>4. CASE base = "str"
  BY <1>4 DEF Matches, SchemaType, Coerces
<1>5. CASE base \notin Primitive
  BY <1>5 DEF Coerces
<1> QED
  BY <1>1, <1>2, <1>3, <1>4, <1>5 DEF Primitive

\* What its schema admits, a handler can take.
LEMMA AdmittedFits ==
  ASSUME NEW parameters, Distinct(parameters), NEW wellFormed, NEW arguments,
         Validated(SchemaOf(parameters), wellFormed, arguments),
         NEW c, c.parameters = parameters, c.arguments = arguments
  PROVE  Fits(c)
<1> SUFFICES ASSUME NEW i \in DOMAIN parameters, ~ FromContext(parameters[i])
             PROVE  /\ parameters[i].name \in DOMAIN arguments =>
                         Coerces(arguments[parameters[i].name].type, parameters[i].base)
                    /\ parameters[i].default = "none" => parameters[i].name \in DOMAIN arguments
  BY DEF Fits
<1>1. PICK q, schema, value : q = parameters[i] /\ schema = SchemaOf(parameters)
                                /\ value = [type |-> "object", parts |-> arguments]
  OBVIOUS
<1>2. Admits(schema, value) /\ value.parts = arguments
  BY <1>1 DEF Validated
<1>3. /\ schema.types = {"object"} /\ schema.open = FALSE /\ q.name \in DOMAIN schema.properties
      /\ schema.properties[q.name].types = {SchemaType(q.base)}
      /\ q.default = "none" => q.name \in schema.required
  BY <1>1, SchemaSays
<1>4. /\ schema.required \subseteq DOMAIN arguments
      /\ \A key \in DOMAIN schema.properties \cap DOMAIN arguments :
           Admits2(schema.properties[key], arguments[key])
  BY <1>2, <1>3, ObjectAdmitted
<1>5. ASSUME q.name \in DOMAIN arguments PROVE Coerces(arguments[q.name].type, q.base)
  <2>1. Admits2(schema.properties[q.name], arguments[q.name])
    BY <1>3, <1>4, <1>5
  <2>2. Matches(arguments[q.name], SchemaType(q.base))
    BY <1>3, <2>1, TypeAdmitted
  <2> QED
    BY <2>2, Coerced
<1> QED
  BY <1>1, <1>3, <1>4, <1>5

LEMMA ToolsRightly ==
  ASSUME NEW route, Distinct(route.handler.parameters), CallTool(route)
  PROVE  HandlersAreCallable'
<1> DEFINE parameters == route.handler.parameters
           size == Len(parameters)
<1>1. size \in Nat /\ DOMAIN parameters = 1 .. size
  BY DEF Distinct
<1>2. PICK wellFormed \in BOOLEAN, arguments \in Arguments(parameters) : \E f :
        /\ Folds("taken", Taking(route, arguments), f, size)
        /\ LET s == f[size]
               valid == Validated(route.schema, wellFormed, arguments)
           IN called' = [route |-> route, given |-> IF valid THEN s.args ELSE <<>>,
                         ending |-> IF ~ valid THEN "refused" ELSE IF s.rejected THEN "rejected" ELSE "called"]
  BY <1>1, TakenIs
<1>3. PICK f : /\ Folds("taken", Taking(route, arguments), f, size)
               /\ LET s == f[size]
                      valid == Validated(route.schema, wellFormed, arguments)
                  IN called' = [route |-> route, given |-> IF valid THEN s.args ELSE <<>>,
                                ending |-> IF ~ valid THEN "refused"
                                           ELSE IF s.rejected THEN "rejected" ELSE "called"]
  BY <1>2
<1>4. PICK c, s, valid : /\ c = Taking(route, arguments) /\ s = f[size]
                         /\ valid = Validated(route.schema, wellFormed, arguments)
  OBVIOUS
<1>5. c.parameters = parameters /\ c.arguments = arguments
  BY <1>4 DEF Taking
<1>6. PICK M : ToolStep(c, M, s, size)
  BY <1>3, <1>4, <1>5, ToolTakesAll
<1>7. /\ called'.route = route
      /\ called'.given = IF valid THEN s.args ELSE <<>>
      /\ called'.ending = IF ~ valid THEN "refused" ELSE IF s.rejected THEN "rejected" ELSE "called"
  BY <1>3, <1>4
<1>8. route.kind = "tool"
  BY DEF CallTool
<1>9. ASSUME called'.ending = "rejected" PROVE route.schema # SchemaOf(parameters)
  <2>1. valid /\ s.rejected
    BY <1>7, <1>9
  <2>2. ~ Fits(c)
    BY <1>6, <2>1 DEF ToolStep
  <2> QED
    BY <1>4, <1>5, <2>1, <2>2, AdmittedFits
<1>10. ASSUME called'.ending = "called", NEW i \in DOMAIN called'.given,
              \A j \in 1 .. i : parameters[j].default = "none"
       PROVE  called'.given[i] \in {parameters[i].name, "call", "context"}
  <2>1. called'.given = s.args
    BY <1>7, <1>10
  <2>2. s.args \in Seq(M)
    BY <1>6 DEF ToolStep
  <2>3. i \in 1 .. Len(s.args)
    BY <1>10, <2>1, <2>2
  <2>4. Plainly(c, i)
    BY <1>5, <1>10 DEF Plainly
  <2> QED
    BY <1>5, <1>6, <2>1, <2>3, <2>4 DEF ToolStep
<1>11. called'.ending # "missing"
  BY <1>7
<1> HIDE DEF parameters
<1>12. called'.route.handler.parameters = parameters
  BY <1>7 DEF parameters
<1> QED
  BY <1>7, <1>8, <1>9, <1>10, <1>11, <1>12 DEF HandlersAreCallable


-----------------------------------------------------------------------------
(* What the plugin puts before the host. *)

LEMMA KindsAre == Range(Kinds) = {"command", "task", "event", "middleware", "tool"}
<1>1. DOMAIN Kinds = {1, 2, 3, 4, 5}
  BY DEF Kinds
<1>2. /\ Kinds[1] = "command" /\ Kinds[2] = "task" /\ Kinds[3] = "event" /\ Kinds[4] = "middleware"
      /\ Kinds[5] = "tool"
  BY DEF Kinds
<1> QED
  BY <1>1, <1>2 DEF Range

LEMMA FlattenIs ==
  ASSUME NEW M, NEW s \in Seq(Seq(M)), s # <<>>
  PROVE  \E f : /\ FlattenSeq(s) = f[Len(s)]
                /\ \A i \in 1 .. Len(s) : f[i] = IF i = 1 THEN s[i] ELSE f[i - 1] \o s[i]
<1> DEFINE n == Len(s)
           flatten[i \in 1 .. n] == IF i = 1 THEN s[i] ELSE flatten[i - 1] \o s[i]
<1>1. n \in Nat /\ n # 0 /\ \A i \in 1 .. n : s[i] \in Seq(M)
  OBVIOUS
<1>2. PICK h : h = [i \in 0 .. n |-> FoldStep("flattened", s, h, i)]
  BY <1>1, FoldSteps
<1>3. h[0] = <<>> /\ \A i \in 1 .. n : h[i] = h[i - 1] \o s[i]
  <2>1. 0 \in 0 .. n /\ \A i \in 1 .. n : i \in 0 .. n /\ i # 0
    BY <1>1
  <2>2. \A i \in 0 .. n : h[i] = FoldStep("flattened", s, h, i)
    BY <1>2
  <2> QED
    BY <2>1, <2>2 DEF FoldStep, First, StepOf
<1>4. h[1] = s[1]
  <2>1. 1 \in 1 .. n
    BY <1>1
  <2>2. h[1] = h[0] \o s[1]
    <3>1. h[1] = h[1 - 1] \o s[1]
      BY <1>3, <2>1
    <3> QED
      BY <3>1
  <2> QED
    BY <1>1, <1>3, <2>1, <2>2
<1>5. PICK f : f = [i \in 1 .. n |-> h[i]]
  OBVIOUS
<1> HIDE DEF n
<1>6. \A i \in 1 .. n : f[i] = IF i = 1 THEN s[i] ELSE f[i - 1] \o s[i]
  <2> SUFFICES ASSUME NEW i \in 1 .. n PROVE f[i] = IF i = 1 THEN s[i] ELSE f[i - 1] \o s[i]
    OBVIOUS
  <2>1. i # 1 => i - 1 \in 1 .. n
    BY <1>1
  <2> QED
    BY <1>3, <1>4, <1>5, <2>1
<1>7. f = [i \in 1 .. n |-> IF i = 1 THEN s[i] ELSE f[i - 1] \o s[i]]
  BY <1>5, <1>6
<1> USE DEF n
<1>8. flatten = [i \in 1 .. n |-> IF i = 1 THEN s[i] ELSE flatten[i - 1] \o s[i]]
  BY Zenon, <1>7
<1>9. FlattenSeq(s) = flatten[n]
  BY Zenon, <1>1 DEF FlattenSeq
<1> HIDE DEF flatten
<1> QED
  BY <1>8, <1>9

LEMMA FlattensInto ==
  ASSUME NEW M, NEW s \in Seq(Seq(M)), s # <<>>
  PROVE  FlattenSeq(s) \in Seq(M)
<1>1. PICK n : n = Len(s)
  OBVIOUS
<1>2. n \in Nat /\ n # 0 /\ \A i \in 1 .. n : s[i] \in Seq(M)
  BY <1>1
<1>3. PICK flatten : /\ FlattenSeq(s) = flatten[n]
                     /\ \A i \in 1 .. n : flatten[i] = IF i = 1 THEN s[i] ELSE flatten[i - 1] \o s[i]
  BY <1>1, FlattenIs
<1> DEFINE T == {i \in 0 .. n : i = 0 \/ flatten[i] \in Seq(M)}
<1>4. ASSUME NEW i \in 0 .. n, i < n, i \in T PROVE i + 1 \in T
  <2>1. i + 1 \in 1 .. n /\ i + 1 \in 0 .. n /\ (i + 1) - 1 = i
    BY <1>2, <1>4
  <2>2. flatten[i + 1] = IF i + 1 = 1 THEN s[i + 1] ELSE flatten[i] \o s[i + 1]
    BY <1>3, <2>1
  <2>3. flatten[i + 1] \in Seq(M)
    <3>1. CASE i = 0
      BY <1>2, <2>1, <2>2, <3>1
    <3>2. CASE i # 0
      <4>1. flatten[i] \in Seq(M) /\ s[i + 1] \in Seq(M) /\ i + 1 # 1
        BY <1>2, <1>4, <2>1, <3>2
      <4> QED
        BY <2>2, <4>1
    <3> QED
      BY <3>1, <3>2
  <2> QED
    BY <2>1, <2>3
<1>5. 0 \in T
  BY <1>2
<1>6. n \in T
  <2> HIDE DEF T
  <2> QED
    BY <1>2, <1>4, <1>5, Climb DEF Climbs
<1> QED
  BY <1>2, <1>3, <1>6

\* A route whose handler can be looked at: what the decorators accept.
Sound(route) ==
  /\ {"kind", "name", "handler"} \subseteq DOMAIN route /\ route.kind \in Range(Kinds)
  /\ route.kind = "command" => IsPath(route.name) /\ route.name # <<>>
  /\ Distinct(route.handler.parameters)
  /\ route.kind = "command" => Declarable(route.handler.parameters)

SoundList(l) == \E M : l \in Seq(M) /\ \A x \in M : Sound(x)

SoundDeclaration(d) ==
  /\ d # Nil /\ d.router \in Router /\ d.kind \in Range(Kinds)
  /\ IsPath(d.handler.name) /\ (d.name # Nil => IsPath(d.name))
  /\ d.aliases \in Seq(Range(d.aliases)) /\ \A a \in Range(d.aliases) : IsPath(a)
  /\ d.admin \in BOOLEAN /\ d.enabled \in BOOLEAN
  /\ Distinct(d.handler.parameters)

DeclaresSound ==
  /\ plugin.manifest \in Seq(Range(plugin.manifest))
  /\ \A d \in plugin.declares : SoundDeclaration(d)

RoutesSound ==
  /\ DOMAIN routes = Router
  /\ \A r \in Router :
       DOMAIN routes[r] = Range(Kinds) /\ \A k \in Range(Kinds) : SoundList(routes[r][k])

RegisteredSound == SoundList(registered) /\ \A route \in Range(registered) : Servable(route)

AllHandled == stage = "mounted" => \A d \in Range(Definitions) : Handled(d)

RoutesInv == DeclaresSound /\ RoutesSound /\ RegisteredSound /\ AllHandled /\ HandlersAreCallable

LEMMA PathsJoin ==
  ASSUME NEW p, NEW q, IsPath(p), IsPath(q)
  PROVE  IsPath(p \o q) /\ (q # <<>> => p \o q # <<>>) /\ (p # <<>> => p \o q # <<>>)
<1>1. PICK M : M = Range(p) \cup Range(q)
  OBVIOUS
<1>2. p \in Seq(M) /\ q \in Seq(M)
  BY <1>1 DEF IsPath
<1>3. p \o q \in Seq(M) /\ Len(p \o q) = Len(p) + Len(q) /\ Len(p) \in Nat /\ Len(q) \in Nat
  BY <1>2
<1>4. p \o q \in Seq(Range(p \o q))
  <2>1. PICK s : s = p \o q
    OBVIOUS
  <2>2. s \in Seq(M)
    BY <1>3, <2>1
  <2>3. s \in Seq(Range(s))
    BY <2>2 DEF Range
  <2> QED
    BY <2>1, <2>3
<1>5. (q # <<>> => Len(q) # 0) /\ (p # <<>> => Len(p) # 0)
  BY <1>2
<1>6. p \o q = <<>> => Len(p \o q) = 0
  OBVIOUS
<1> QED
  BY <1>3, <1>4, <1>5, <1>6 DEF IsPath

LEMMA MergedSound ==
  ASSUME NEW d, Sound(d), NEW c, IsPath(c.prefix)
  PROVE  Sound(Merged(d, c)) /\ Sound(Included(d, c))
<1>1. PICK m, i : m = Merged(d, c) /\ i = Included(d, c)
  OBVIOUS
<1>2. /\ DOMAIN m = DOMAIN d /\ m["kind"] = d["kind"] /\ m["handler"] = d["handler"]
      /\ m["kind"] = "command" => m["name"] = c.prefix \o d["name"]
  BY <1>1 DEF Sound, Merged
<1>3. DOMAIN i = DOMAIN m /\ i["kind"] = m["kind"] /\ i["handler"] = m["handler"] /\ i["name"] = m["name"]
  <2>1. i = [m EXCEPT !.usage = IF d.kind = "command" /\ c.prefix # <<>> THEN Nil ELSE @]
    BY <1>1, Zenon DEF Included
  <2> QED
    BY <1>2, <2>1 DEF Sound
<1>4. m["kind"] = "command" => IsPath(m["name"]) /\ m["name"] # <<>>
  BY <1>2, PathsJoin DEF Sound
<1>5. Sound(m) /\ Sound(i)
  BY <1>2, <1>3, <1>4 DEF Sound
<1> QED
  BY <1>1, <1>5

\* A definition before the settings of its own router
Own(d) ==
  [kind |-> d.kind, name |-> IF d.name = Nil THEN d.handler.name ELSE d.name,
   aliases |-> d.aliases, usage |-> d.usage, admin |-> d.admin, enabled |-> d.enabled,
   metadata |-> d.metadata, handler |-> d.handler,
   schema |-> IF d.kind = "tool" /\ d.schema = Nil THEN SchemaOf(d.handler.parameters) ELSE d.schema]

LEMMA DefinitionIs ==
  ASSUME NEW d
  PROVE  Definition(d) = [Merged(Own(d), Config[d.router]) EXCEPT !.aliases = NonBlank(@)]
BY Zenon DEF Definition, Own

LEMMA DefinitionSound ==
  ASSUME NEW d, SoundDeclaration(d), IsPath(Config[d.router].prefix),
         d.kind = "command" => Declarable(d.handler.parameters) /\ Definition(d).name # <<>>
  PROVE  Sound(Definition(d))
<1>1. PICK o, c, x : o = Own(d) /\ c = Config[d.router] /\ x = Definition(d)
  OBVIOUS
<1>2. PICK m : m = Merged(o, c)
  OBVIOUS
<1>3. /\ {"kind", "name", "handler", "aliases"} \subseteq DOMAIN o
      /\ o["kind"] = d.kind /\ o["handler"] = d.handler /\ IsPath(o["name"])
  BY <1>1 DEF Own, SoundDeclaration
<1>4. /\ DOMAIN m = DOMAIN o /\ m["kind"] = o["kind"] /\ m["handler"] = o["handler"]
      /\ m["kind"] = "command" => m["name"] = c.prefix \o o["name"]
  BY <1>2, <1>3 DEF Merged
<1>5. PICK a : x = [m EXCEPT !.aliases = a]
  BY <1>1, <1>2, DefinitionIs
<1>6. DOMAIN x = DOMAIN m /\ x["kind"] = m["kind"] /\ x["handler"] = m["handler"] /\ x["name"] = m["name"]
  BY <1>5
<1>7. IsPath(c.prefix \o o["name"])
  BY <1>1, <1>3, PathsJoin
<1>8. x["kind"] = "command" => IsPath(x["name"]) /\ x["name"] # <<>>
  <2>1. d.kind = "command" => x.name # <<>>
    BY <1>1
  <2> QED
    BY <1>3, <1>4, <1>6, <1>7, <2>1
<1>9. Sound(x)
  BY <1>3, <1>4, <1>6, <1>8 DEF Sound, SoundDeclaration
<1> QED
  BY <1>1, <1>9

LEMMA SoundAppend ==
  ASSUME NEW l, SoundList(l), NEW x, Sound(x)
  PROVE  SoundList(Append(l, x))
<1>1. PICK M : l \in Seq(M) /\ \A y \in M : Sound(y)
  BY DEF SoundList
<1>2. Append(l, x) \in Seq(M \cup {x})
  BY <1>1
<1> QED
  BY <1>1, <1>2 DEF SoundList

LEMMA SoundInclusion ==
  ASSUME NEW l, SoundList(l), NEW m, SoundList(m), NEW c, IsPath(c.prefix)
  PROVE  SoundList(l \o [i \in DOMAIN m |-> Included(m[i], c)])
<1>1. PICK M : l \in Seq(M) /\ \A y \in M : Sound(y)
  BY DEF SoundList
<1>2. PICK N : m \in Seq(N) /\ \A y \in N : Sound(y)
  BY DEF SoundList
<1>3. PICK O : O = M \cup {Included(y, c) : y \in N}
  OBVIOUS
<1>4. \A y \in O : Sound(y)
  BY <1>1, <1>2, <1>3, MergedSound
<1>5. PICK k : k = [i \in DOMAIN m |-> Included(m[i], c)]
  OBVIOUS
<1>6. k \in Seq(O)
  <2>1. Len(m) \in Nat /\ DOMAIN m = 1 .. Len(m) /\ \A i \in DOMAIN m : m[i] \in N
    BY <1>2
  <2>2. \A i \in DOMAIN m : Included(m[i], c) \in O
    BY <1>3, <2>1
  <2> QED
    BY <1>5, <2>1, <2>2
<1>7. l \in Seq(O)
  BY <1>1, <1>3
<1>8. l \o k \in Seq(O)
  BY <1>6, <1>7
<1> QED
  BY <1>4, <1>5, <1>8 DEF SoundList

LEMMA RootLists ==
  ASSUME RoutesAssumption, RoutesSound
  PROVE  \E M : /\ [k \in DOMAIN Kinds |-> routes[Root][Kinds[k]]] \in Seq(Seq(M))
                /\ [k \in DOMAIN Kinds |-> routes[Root][Kinds[k]]] # <<>>
                /\ \A x \in M : Sound(x)
<1> DEFINE lists == [k \in DOMAIN Kinds |-> routes[Root][Kinds[k]]]
           M == UNION {Range(lists[k]) : k \in DOMAIN Kinds}
<1>1. DOMAIN Kinds = 1 .. 5 /\ \A k \in DOMAIN Kinds : Kinds[k] \in Range(Kinds)
  BY DEF Kinds, Range
<1>2. \A k \in DOMAIN Kinds : SoundList(lists[k])
  BY <1>1 DEF RoutesSound, RoutesAssumption
<1>3. ASSUME NEW k \in DOMAIN Kinds PROVE lists[k] \in Seq(M) /\ \A x \in Range(lists[k]) : Sound(x)
  <2>1. PICK l : l = lists[k]
    OBVIOUS
  <2> HIDE DEF lists
  <2>2. PICK N : l \in Seq(N) /\ \A y \in N : Sound(y)
    BY <1>2, <2>1 DEF SoundList
  <2>3. Len(l) \in Nat /\ DOMAIN l = 1 .. Len(l) /\ \A i \in DOMAIN l : l[i] \in N
    BY <2>2
  <2>4. \A i \in DOMAIN l : l[i] \in M
    BY <2>1 DEF Range
  <2> HIDE DEF M
  <2>5. l \in Seq(M)
    BY <2>2, <2>3, <2>4
  <2> QED
    BY <2>1, <2>2, <2>3, <2>5 DEF Range
<1>4. lists \in Seq(Seq(M)) /\ lists # <<>>
  <2>1. DOMAIN lists = 1 .. 5 /\ \A k \in 1 .. 5 : lists[k] \in Seq(M)
    BY <1>1, <1>3
  <2>2. lists = [k \in 1 .. 5 |-> lists[k]]
    BY <1>1
  <2> HIDE DEF lists, M
  <2> QED
    BY <2>1, <2>2
<1>5. \A x \in M : Sound(x)
  BY <1>3
<1> HIDE DEF M
<1> QED
  BY <1>4, <1>5 DEF lists

\* The next route to be registered is one of the root's.
LEMMA NextSound ==
  ASSUME RoutesAssumption, RoutesSound, RegisteredSound, Len(registered) < Len(RootRoutes)
  PROVE  Sound(NextRoute)
<1>1. PICK lists : lists = [k \in DOMAIN Kinds |-> routes[Root][Kinds[k]]]
  OBVIOUS
<1>2. PICK M : lists \in Seq(Seq(M)) /\ lists # <<>> /\ \A x \in M : Sound(x)
  BY <1>1, RootLists
<1>3. RootRoutes \in Seq(M)
  BY <1>1, <1>2, FlattensInto DEF RootRoutes
<1>4. Len(registered) \in Nat
  BY DEF RegisteredSound, SoundList
<1>5. Len(registered) + 1 \in 1 .. Len(RootRoutes)
  BY <1>3, <1>4
<1>6. NextRoute \in M
  BY <1>3, <1>5 DEF NextRoute
<1> QED
  BY <1>2, <1>6


LEMMA EmptySound == SoundList(<<>>) /\ Range(<<>>) = {}
<1>1. <<>> \in Seq({}) /\ DOMAIN <<>> = {}
  OBVIOUS
<1>2. SoundList(<<>>)
  BY <1>1 DEF SoundList
<1> QED
  BY <1>1, <1>2 DEF Range

LEMMA RoutesBegin == ASSUME RoutesAssumption, RoutesInit PROVE RoutesInv
<1>1. DeclaresSound
  BY DEF RoutesInit, DeclaresSound, SoundDeclaration, RoutesAssumption, Distinct
<1>2. SoundList(<<>>) /\ Range(<<>>) = {}
  BY EmptySound
<1>3. RoutesSound
  BY <1>2 DEF RoutesInit, RoutesSound, Empty
<1>4. RegisteredSound
  BY <1>2 DEF RoutesInit, RegisteredSound
<1>5. AllHandled /\ HandlersAreCallable
  BY DEF RoutesInit, AllHandled, HandlersAreCallable
<1> QED
  BY <1>1, <1>3, <1>4, <1>5 DEF RoutesInv

\* What stays as it is keeps what is said of it.
LEMMA RoutesKept ==
  /\ DeclaresSound /\ UNCHANGED plugin => DeclaresSound'
  /\ RoutesSound /\ UNCHANGED routes => RoutesSound'
  /\ RegisteredSound /\ UNCHANGED registered => RegisteredSound'
  /\ AllHandled /\ UNCHANGED <<plugin, registered>> /\ (stage' = "mounted" => stage = "mounted") => AllHandled'
  /\ HandlersAreCallable /\ UNCHANGED <<plugin, called>> => HandlersAreCallable'
<1>1. DeclaresSound /\ UNCHANGED plugin => DeclaresSound'
  BY DEF DeclaresSound
<1>2. RoutesSound /\ UNCHANGED routes => RoutesSound'
  BY DEF RoutesSound
<1>3. RegisteredSound /\ UNCHANGED registered => RegisteredSound'
  BY DEF RegisteredSound
<1>4. ASSUME AllHandled, UNCHANGED <<plugin, registered>>, stage' = "mounted" => stage = "mounted"
      PROVE  AllHandled'
  <2>1. Definitions' = Definitions
    BY <1>4 DEF Definitions
  <2>2. \A d : Handled(d)' = Handled(d)
    BY <1>4 DEF Handled
  <2> QED
    BY <1>4, <2>1, <2>2 DEF AllHandled
<1>5. HandlersAreCallable /\ UNCHANGED <<plugin, called>> => HandlersAreCallable'
  BY DEF HandlersAreCallable
<1> QED
  BY <1>1, <1>2, <1>3, <1>4, <1>5

LEMMA DeclareSound ==
  ASSUME RoutesAssumption, RoutesInv, NEW d \in plugin.declares, Declare(d), Building,
         d.kind = "command" => Declarable(d.handler.parameters) /\ Definition(d).name # <<>>
  PROVE  RoutesInv'
<1>1. d.router \in Router /\ d.kind \in Range(Kinds)
  BY DEF RoutesInv, DeclaresSound, SoundDeclaration
<1>2. Sound(Definition(d))
  BY <1>1, DefinitionSound DEF RoutesInv, DeclaresSound, RoutesAssumption
<1>3. PICK r, k, x : r = d.router /\ k = d.kind /\ x = Definition(d)
  OBVIOUS
<1>4. PICK l : l = Append(routes[r][k], x)
  OBVIOUS
<1>5. routes' = [routes EXCEPT ![r] = [routes[r] EXCEPT ![k] = l]]
  BY <1>3, <1>4 DEF Declare
<1>6. SoundList(l)
  BY <1>1, <1>2, <1>3, <1>4, SoundAppend DEF RoutesInv, RoutesSound
<1>7. RoutesSound'
  BY <1>1, <1>3, <1>5, <1>6 DEF RoutesInv, RoutesSound
<1> QED
  BY <1>7, RoutesKept DEF RoutesInv, Declare

LEMMA IncludeSound ==
  ASSUME RoutesAssumption, RoutesInv, NEW r \in Router, NEW child \in Router, Include(r, child)
  PROVE  RoutesInv'
<1>1. PICK own : own = [k \in DOMAIN routes[r] |->
        routes[r][k] \o [i \in DOMAIN routes[child][k] |-> Included(routes[child][k][i], Config[r])]]
  OBVIOUS
<1>2. routes' = [routes EXCEPT ![r] = own]
  BY <1>1 DEF Include
<1>3. DOMAIN own = Range(Kinds)
  BY <1>1 DEF RoutesInv, RoutesSound
<1>4. ASSUME NEW k \in Range(Kinds) PROVE SoundList(own[k])
  <2>1. PICK l, m : l = routes[r][k] /\ m = routes[child][k]
    OBVIOUS
  <2>2. SoundList(l) /\ SoundList(m)
    BY <2>1 DEF RoutesInv, RoutesSound
  <2>3. own[k] = l \o [i \in DOMAIN m |-> Included(m[i], Config[r])]
    BY <1>1, <2>1 DEF RoutesInv, RoutesSound
  <2> QED
    BY <2>2, <2>3, SoundInclusion DEF RoutesAssumption
<1>5. RoutesSound'
  BY <1>2, <1>3, <1>4 DEF RoutesInv, RoutesSound
<1> QED
  BY <1>5, RoutesKept DEF RoutesInv, Include

LEMMA RegisterSound ==
  ASSUME RoutesAssumption, RoutesInv, Register
  PROVE  RoutesInv'
<1>1. Sound(NextRoute) /\ Servable(NextRoute)
  BY NextSound DEF RoutesInv, Register
<1>2. PICK l, x : l = registered /\ x = NextRoute
  OBVIOUS
<1>3. registered' = Append(l, x)
  BY <1>2 DEF Register
<1>4. SoundList(Append(l, x))
  BY <1>1, <1>2, SoundAppend DEF RoutesInv, RegisteredSound
<1>5. \A route \in Range(Append(l, x)) : Servable(route)
  <2>1. PICK M : l \in Seq(M)
    BY <1>2 DEF RoutesInv, RegisteredSound, SoundList
  <2>2. \A i \in DOMAIN Append(l, x) : Append(l, x)[i] = x \/ (i \in DOMAIN l /\ Append(l, x)[i] = l[i])
    BY <2>1
  <2>3. \A i \in DOMAIN l : Servable(l[i])
    BY <1>2 DEF RoutesInv, RegisteredSound, Range
  <2> QED
    BY <1>1, <1>2, <2>2, <2>3 DEF Range
<1>6. RegisteredSound'
  BY <1>3, <1>4, <1>5 DEF RegisteredSound
<1>7. AllHandled'
  BY DEF Register, AllHandled
<1> QED
  BY <1>6, <1>7, RoutesKept DEF RoutesInv, Register

LEMMA MountedSound == ASSUME RoutesInv, Mounted PROVE RoutesInv'
<1>1. Definitions' = Definitions
  BY DEF Definitions, Mounted
<1>2. \A d : Handled(d)' = Handled(d)
  BY DEF Handled, Mounted
<1>3. AllHandled'
  BY <1>1, <1>2 DEF AllHandled, Mounted
<1> QED
  BY <1>3, RoutesKept DEF RoutesInv, Mounted

\* Only a command has other names than its own, so what a manifest defines and nobody
\* handles under one of its names is one.
LEMMA NobodyIsRight ==
  ASSUME RoutesInv, NEW d \in Range(plugin.manifest), CallNobody(d)
  PROVE  HandlersAreCallable'
<1>1. PICK name \in Names(d) \ NamesOf(registered, d.kind) :
        called' = [route |-> d, given |-> <<>>, ending |-> "missing"]
  BY DEF CallNobody
<1>2. Names(d) \cap NamesOf(registered, d.kind) # {}
  BY DEF RoutesInv, AllHandled, Handled, CallNobody
<1>3. d.kind = "command"
  <2>1. ASSUME d.kind # "command" PROVE FALSE
    <3>1. Names(d) = {d.name}
      BY <2>1 DEF Names
    <3> QED
      BY <1>1, <1>2, <3>1
  <2> QED
    BY <2>1
<1>4. called'.ending = "missing" /\ called'.route = d /\ plugin' = plugin
  BY <1>1 DEF CallNobody
<1> QED
  BY <1>3, <1>4 DEF HandlersAreCallable

LEMMA RegisteredRoute ==
  ASSUME RoutesInv, NEW route \in Range(registered)
  PROVE  Sound(route) /\ Servable(route)
<1>1. PICK M : registered \in Seq(M) /\ \A x \in M : Sound(x)
  BY DEF RoutesInv, RegisteredSound, SoundList
<1>2. PICK i \in DOMAIN registered : route = registered[i]
  BY DEF Range
<1>3. route \in M
  BY <1>1, <1>2
<1> QED
  BY <1>1, <1>3 DEF RoutesInv, RegisteredSound

LEMMA CallCommandSound ==
  ASSUME RoutesInv, NEW route \in Range(registered), CallCommand(route)
  PROVE  RoutesInv'
<1>1. SoundList(<<>>) /\ Range(<<>>) = {}
  BY EmptySound
<1>2. DeclaresSound'
  BY DEF CallCommand, DeclaresSound
<1>3. RoutesSound'
  BY <1>1 DEF CallCommand, RoutesSound, Empty
<1>4. RegisteredSound'
  BY <1>1 DEF CallCommand, RegisteredSound
<1>5. AllHandled' /\ HandlersAreCallable'
  BY DEF CallCommand, Callable, AllHandled, HandlersAreCallable
<1> QED
  BY <1>2, <1>3, <1>4, <1>5 DEF RoutesInv

LEMMA RoutesStep ==
  ASSUME RoutesAssumption, RoutesInv, [RoutesNext]_<<routeVars, argumentVars>>
  PROVE  RoutesInv'
<1>1. ASSUME NEW d \in plugin.declares,
             Command(d) \/ Scheduled(d) \/ Event(d) \/ Middleware(d) \/ Tool(d)
      PROVE  RoutesInv'
  <2>1. /\ Declare(d) /\ Building
        /\ d.kind = "command" => Declarable(d.handler.parameters) /\ Definition(d).name # <<>>
    BY <1>1 DEF Command, Scheduled, Event, Middleware, Tool, Declares
  <2> QED
    BY <2>1, DeclareSound
<1>2. ASSUME NEW d \in plugin.declares, DeclareRefused(d) PROVE RoutesInv'
  BY <1>2, RoutesKept DEF DeclareRefused, RoutesInv
<1>3. ASSUME NEW r \in Router, NEW child \in Router, Include(r, child) PROVE RoutesInv'
  BY <1>3, IncludeSound
<1>4. CASE SetUp
  BY <1>4, RoutesKept DEF SetUp, RoutesInv
<1>5. CASE Register
  BY <1>5, RegisterSound
<1>6. CASE RegisterFails
  BY <1>6, RoutesKept DEF RegisterFails, RoutesInv
<1>7. CASE Mounted
  BY <1>7, MountedSound
<1>8. ASSUME NEW route \in Range(registered), CallCommand(route) PROVE RoutesInv'
  BY <1>8, CallCommandSound
<1>9. ASSUME NEW route \in Range(registered), CallInjected(route) PROVE RoutesInv'
  <2>1. Distinct(route.handler.parameters) /\ Servable(route)
    BY <1>9, RegisteredRoute DEF Sound
  <2>2. HandlersAreCallable'
    BY <1>9, <2>1, InjectedRightly
  <2> QED
    BY <1>9, <2>2, RoutesKept DEF CallInjected, RoutesInv
<1>10. ASSUME NEW route \in Range(registered), CallTool(route) PROVE RoutesInv'
  <2>1. Distinct(route.handler.parameters)
    BY <1>10, RegisteredRoute DEF Sound
  <2>2. HandlersAreCallable'
    BY <1>10, <2>1, ToolsRightly
  <2> QED
    BY <1>10, <2>2, RoutesKept DEF CallTool, RoutesInv
<1>11. ASSUME NEW d \in Range(plugin.manifest), CallNobody(d) PROVE RoutesInv'
  <2>1. HandlersAreCallable'
    BY <1>11, NobodyIsRight
  <2> QED
    BY <1>11, <2>1, RoutesKept DEF CallNobody, RoutesInv
<1>12. CASE UNCHANGED routeVars
  BY <1>12, RoutesKept DEF routeVars, RoutesInv
<1> QED
  BY <1>1, <1>2, <1>3, <1>4, <1>5, <1>6, <1>7, <1>8, <1>9, <1>10, <1>11, <1>12 DEF RoutesNext

\* Whatever a plugin declares, includes and asks for: a handler that setup accepted can be
\* called, and each of its parameters is given what it asks for.
THEOREM AcceptedAreCallable == RoutesSpec => []HandlersAreCallable
<1>1. RoutesInit => RoutesInv
  BY RoutesBegin, RoutesAssumption
<1>2. RoutesInv /\ [RoutesNext]_<<routeVars, argumentVars>> => RoutesInv'
  BY RoutesStep, RoutesAssumption
<1>3. RoutesInv => HandlersAreCallable
  BY DEF RoutesInv
<1> QED
  BY <1>1, <1>2, <1>3, PTL DEF RoutesSpec

-----------------------------------------------------------------------------
(* The commands of a plugin are read for signatures that commands can have. *)

LEMMA SignatureUsable ==
  ASSUME NEW parameters, Distinct(parameters), Declarable(parameters)
  PROVE  Usable(AsSignature(parameters))
<1>1. PICK s : s = AsSignature(parameters)
  OBVIOUS
<1>2. /\ Len(parameters) \in Nat /\ DOMAIN parameters = 1 .. Len(parameters)
      /\ s = [i \in 1 .. Len(parameters) |-> AsParameter(parameters[i])]
  BY <1>1 DEF Distinct, AsSignature
<1>3. Len(s) = Len(parameters) /\ DOMAIN s = 1 .. Len(parameters)
  BY <1>2
<1>4. ASSUME NEW q
      PROVE  /\ AsParameter(q).name = q.name
             /\ AsParameter(q).kind \in {"injected", "next", "positional", "rest", "option", "flag"}
             /\ AsParameter(q).kind \in {"rest", "positional"} =>
                  IsArgument(q) /\ ArgumentKind(q) = AsParameter(q).kind
  <2>1. ArgumentKind(q) \in {"positional", "rest", "option", "flag"}
    BY DEF ArgumentKind
  <2> QED
    BY <2>1 DEF AsParameter, IsArgument, Injected
<1>5. \A i \in DOMAIN s : s[i].kind \in {"injected", "next", "positional", "rest", "option", "flag"}
  BY <1>2, <1>3, <1>4
<1>6. \A i, j \in DOMAIN s : s[i].name = s[j].name => i = j
  BY <1>2, <1>3, <1>4 DEF Distinct
<1>7. \A i, j \in DOMAIN s : i < j /\ s[i].kind = "rest" => s[j].kind \notin {"positional", "rest"}
  <2> SUFFICES ASSUME NEW i \in DOMAIN s, NEW j \in DOMAIN s, i < j, s[i].kind = "rest",
                      s[j].kind \in {"positional", "rest"}
               PROVE  FALSE
    OBVIOUS
  <2>1. /\ IsArgument(parameters[i]) /\ ArgumentKind(parameters[i]) = "rest"
        /\ IsArgument(parameters[j]) /\ ArgumentKind(parameters[j]) \in {"positional", "rest"}
    BY <1>2, <1>3, <1>4
  <2>2. ArgumentKind(parameters[j]) \in {"option", "flag"}
    BY <1>2, <1>3, <2>1 DEF Declarable
  <2> QED
    BY <2>1, <2>2
<1> QED
  BY <1>1, <1>2, <1>3, <1>5, <1>6, <1>7 DEF Usable

\* Reading and binding the words of a plugin's commands is reading and binding the words
\* of some command: PluginRoutes implements the specification of CommandArguments.
THEOREM RoutesReadArguments == RoutesSpec => ArgumentsSpec
<1>1. RoutesInit => RoutesInv /\ ArgumentsInit
  BY RoutesBegin, RoutesAssumption DEF RoutesInit
<1>2. RoutesInv /\ [RoutesNext]_<<routeVars, argumentVars>> => RoutesInv'
  BY RoutesStep, RoutesAssumption
<1>3. RoutesInv /\ [RoutesNext]_<<routeVars, argumentVars>> =>
        [(\E s : Usable(s) /\ Receive(s)) \/ ReadAndBind]_argumentVars
  <2> SUFFICES ASSUME RoutesInv, RoutesNext, ~ UNCHANGED argumentVars, ~ ReadAndBind
               PROVE  \E s : Usable(s) /\ Receive(s)
    BY DEF argumentVars
  <2>1. PICK route \in Range(registered) : CallCommand(route)
    BY DEF RoutesNext, Command, Scheduled, Event, Middleware, Tool, Declare, DeclareRefused, Include, SetUp,
           Register, RegisterFails, Mounted, CallInjected, CallTool, CallNobody
  <2>2. Distinct(route.handler.parameters) /\ Declarable(route.handler.parameters)
    BY <2>1, RegisteredRoute DEF Sound, CallCommand
  <2>3. Usable(AsSignature(route.handler.parameters)) /\ Receive(AsSignature(route.handler.parameters))
    BY <2>1, <2>2, SignatureUsable DEF CallCommand
  <2> QED
    BY <2>3
<1> QED
  BY <1>1, <1>2, <1>3, PTL DEF RoutesSpec, ArgumentsSpec

\* What a plugin's command is called with is what the words behind it mean.
THEOREM CommandsAreAsMeant == RoutesSpec => []BoundAsMeant
BY RoutesReadArguments, ArgumentsAreAsMeant, PTL

-----------------------------------------------------------------------------
(* What is computed along a list: prefixes, aliases, definitions. *)

LEMMA PrefixIs ==
  ASSUME NEW h, Len(h) \in Nat, NEW S
  PROVE  \E f : Folds("prefixed", [steps |-> S, past |-> h], f, Len(h)) /\ PrefixOf(h, S) = f[Len(h)]
<1> DEFINE within[i \in 0 .. Len(h)] ==
             IF i = 0 THEN <<>>
             ELSE IF i \in S THEN Config[h[i].to].prefix \o within[i - 1] ELSE within[i - 1]
<1>1. \A f, i : FoldStep("prefixed", [steps |-> S, past |-> h], f, i) =
                  IF i = 0 THEN <<>>
                  ELSE IF i \in S THEN Config[h[i].to].prefix \o f[i - 1] ELSE f[i - 1]
  BY DEF FoldStep, StepOf, First
<1>2. \E f : f = [i \in 0 .. Len(h) |->
                    IF i = 0 THEN <<>>
                    ELSE IF i \in S THEN Config[h[i].to].prefix \o f[i - 1] ELSE f[i - 1]]
  <2>1. PICK f : f = [i \in 0 .. Len(h) |-> FoldStep("prefixed", [steps |-> S, past |-> h], f, i)]
    BY FoldSteps
  <2>2. f = [i \in 0 .. Len(h) |->
               IF i = 0 THEN <<>>
               ELSE IF i \in S THEN Config[h[i].to].prefix \o f[i - 1] ELSE f[i - 1]]
    BY <1>1, <2>1
  <2> QED
    BY <2>2, Zenon
<1>3. within = [i \in 0 .. Len(h) |->
                  IF i = 0 THEN <<>>
                  ELSE IF i \in S THEN Config[h[i].to].prefix \o within[i - 1] ELSE within[i - 1]]
  BY <1>2, Zenon
<1>4. PrefixOf(h, S) = within[Len(h)]
  BY Zenon DEF PrefixOf
<1> HIDE DEF within
<1>5. Folds("prefixed", [steps |-> S, past |-> h], within, Len(h))
  BY <1>1, <1>3 DEF Folds
<1> QED
  BY <1>4, <1>5

LEMMA KeptIs ==
  ASSUME NEW s, Len(s) \in Nat
  PROVE  \E f : Folds("kept", s, f, Len(s)) /\ NonBlank(s) = f[Len(s)]
<1> DEFINE kept[n \in 0 .. Len(s)] ==
             IF n = 0 THEN <<>> ELSE IF s[n] = <<>> THEN kept[n - 1] ELSE Append(kept[n - 1], s[n])
<1>1. \A f, n : FoldStep("kept", s, f, n) =
                  IF n = 0 THEN <<>> ELSE IF s[n] = <<>> THEN f[n - 1] ELSE Append(f[n - 1], s[n])
  BY DEF FoldStep, StepOf, First
<1>2. \E f : f = [n \in 0 .. Len(s) |->
                    IF n = 0 THEN <<>> ELSE IF s[n] = <<>> THEN f[n - 1] ELSE Append(f[n - 1], s[n])]
  <2>1. PICK f : f = [n \in 0 .. Len(s) |-> FoldStep("kept", s, f, n)]
    BY FoldSteps
  <2>2. f = [n \in 0 .. Len(s) |->
               IF n = 0 THEN <<>> ELSE IF s[n] = <<>> THEN f[n - 1] ELSE Append(f[n - 1], s[n])]
    BY <1>1, <2>1
  <2> QED
    BY <2>2, Zenon
<1>3. kept = [n \in 0 .. Len(s) |->
                IF n = 0 THEN <<>> ELSE IF s[n] = <<>> THEN kept[n - 1] ELSE Append(kept[n - 1], s[n])]
  BY <1>2, Zenon
<1>4. NonBlank(s) = kept[Len(s)]
  BY Zenon DEF NonBlank
<1> HIDE DEF kept
<1>5. Folds("kept", s, kept, Len(s))
  BY <1>1, <1>3 DEF Folds
<1> QED
  BY <1>4, <1>5

LEMMA JoinedIs ==
  ASSUME NEW definitions, NEW list, Len(list) \in Nat
  PROVE  \E f : /\ Folds("joined", [definitions |-> definitions, list |-> list], f, Len(list))
                /\ AllJoined(definitions, list) = f[Len(list)]
<1> DEFINE joined[n \in 0 .. Len(list)] ==
             IF n = 0 THEN definitions ELSE Joined(joined[n - 1], list[n])
<1>1. \A f, n : FoldStep("joined", [definitions |-> definitions, list |-> list], f, n) =
                  IF n = 0 THEN definitions ELSE Joined(f[n - 1], list[n])
  BY DEF FoldStep, StepOf, First
<1>2. \E f : f = [n \in 0 .. Len(list) |-> IF n = 0 THEN definitions ELSE Joined(f[n - 1], list[n])]
  <2>1. PICK f : f = [n \in 0 .. Len(list) |->
                        FoldStep("joined", [definitions |-> definitions, list |-> list], f, n)]
    BY FoldSteps
  <2>2. f = [n \in 0 .. Len(list) |-> IF n = 0 THEN definitions ELSE Joined(f[n - 1], list[n])]
    BY <1>1, <2>1
  <2> QED
    BY <2>2, Zenon
<1>3. joined = [n \in 0 .. Len(list) |-> IF n = 0 THEN definitions ELSE Joined(joined[n - 1], list[n])]
  BY <1>2, Zenon
<1>4. AllJoined(definitions, list) = joined[Len(list)]
  BY Zenon DEF AllJoined
<1> HIDE DEF joined
<1>5. Folds("joined", [definitions |-> definitions, list |-> list], joined, Len(list))
  BY <1>1, <1>3 DEF Folds
<1> QED
  BY <1>4, <1>5

LEMMA JoinedNone == ASSUME NEW definitions PROVE AllJoined(definitions, <<>>) = definitions
<1>1. Len(<<>>) = 0 /\ 0 \in 0 .. 0
  OBVIOUS
<1>2. PICK f : /\ Folds("joined", [definitions |-> definitions, list |-> <<>>], f, Len(<<>>))
               /\ AllJoined(definitions, <<>>) = f[Len(<<>>)]
  BY <1>1, JoinedIs
<1> QED
  BY <1>1, <1>2 DEF Folds, FoldStep, First

LEMMA JoinedOne ==
  ASSUME NEW definitions, NEW M, NEW list \in Seq(M), NEW x
  PROVE  AllJoined(definitions, Append(list, x)) = Joined(AllJoined(definitions, list), x)
<1>1. PICK more, n : more = Append(list, x) /\ n = Len(list)
  OBVIOUS
<1>2. /\ n \in Nat /\ Len(more) = n + 1 /\ \A i \in 1 .. n : more[i] = list[i]
      /\ more[n + 1] = x
  BY <1>1
<1>3. PICK f : /\ Folds("joined", [definitions |-> definitions, list |-> list], f, n)
               /\ AllJoined(definitions, list) = f[n]
  BY <1>1, <1>2, JoinedIs
<1>4. PICK g : /\ Folds("joined", [definitions |-> definitions, list |-> more], g, n + 1)
               /\ AllJoined(definitions, more) = g[n + 1]
  <2>1. Len(more) \in Nat
    BY <1>2
  <2> QED
    BY <1>2, <2>1, JoinedIs
<1>5. /\ f[0] = definitions /\ \A i \in 1 .. n : f[i] = Joined(f[i - 1], list[i])
      /\ g[0] = definitions /\ \A i \in 1 .. n + 1 : g[i] = Joined(g[i - 1], more[i])
  <2>1. /\ 0 \in 0 .. n /\ 0 \in 0 .. n + 1
        /\ \A i \in 1 .. n : i \in 0 .. n /\ i # 0
        /\ \A i \in 1 .. n + 1 : i \in 0 .. n + 1 /\ i # 0
    BY <1>2
  <2> QED
    BY <1>3, <1>4, <2>1 DEF Folds, FoldStep, First, StepOf
<1> DEFINE T == {i \in 0 .. n : f[i] = g[i]}
<1>6. Climbs(T, n)
  <2>1. 0 \in T
    BY <1>2, <1>5
  <2>2. ASSUME NEW i \in 0 .. n, i < n, i \in T PROVE i + 1 \in T
    <3>1. i + 1 \in 1 .. n /\ i + 1 \in 1 .. n + 1 /\ (i + 1) - 1 = i /\ i + 1 \in 0 .. n
      BY <1>2, <2>2
    <3>2. f[i + 1] = Joined(f[i], list[i + 1]) /\ g[i + 1] = Joined(g[i], more[i + 1])
      BY <1>5, <3>1
    <3> QED
      BY <1>2, <2>2, <3>1, <3>2
  <2> HIDE DEF T
  <2> QED
    BY <2>1, <2>2 DEF Climbs
<1>7. f[n] = g[n]
  <2>1. n \in T
    <3> HIDE DEF T
    <3> QED
      BY <1>2, <1>6, Climb
  <2> QED
    BY <2>1
<1>8. g[n + 1] = Joined(g[n], x)
  <2>1. n + 1 \in 1 .. n + 1 /\ (n + 1) - 1 = n
    BY <1>2
  <2> QED
    BY <1>2, <1>5, <2>1
<1> QED
  BY <1>1, <1>3, <1>4, <1>7, <1>8

\* What is left of a list is of the list.
LEMMA KeptInto ==
  ASSUME NEW M, NEW s \in Seq(M)
  PROVE  NonBlank(s) \in Seq(M)
<1>1. PICK n : n = Len(s)
  OBVIOUS
<1>2. n \in Nat /\ \A i \in 1 .. n : s[i] \in M
  BY <1>1
<1>3. PICK f : Folds("kept", s, f, n) /\ NonBlank(s) = f[n]
  BY <1>1, <1>2, KeptIs
<1>4. /\ f[0] = <<>>
      /\ \A i \in 1 .. n : f[i] = IF s[i] = <<>> THEN f[i - 1] ELSE Append(f[i - 1], s[i])
  <2>1. 0 \in 0 .. n /\ \A i \in 1 .. n : i \in 0 .. n /\ i # 0
    BY <1>2
  <2> QED
    BY <1>3, <2>1 DEF Folds, FoldStep, First, StepOf
<1> DEFINE T == {i \in 0 .. n : f[i] \in Seq(M)}
<1>5. Climbs(T, n)
  <2>1. 0 \in T
    <3>1. <<>> \in Seq(M) /\ 0 \in 0 .. n
      BY <1>2
    <3>2. f[0] \in Seq(M)
      BY <1>4, <3>1
    <3> QED
      BY <3>1, <3>2
  <2>2. ASSUME NEW i \in 0 .. n, i < n, i \in T PROVE i + 1 \in T
    <3>1. i + 1 \in 1 .. n /\ (i + 1) - 1 = i /\ i + 1 \in 0 .. n
      BY <1>2, <2>2
    <3>2. f[i + 1] = IF s[i + 1] = <<>> THEN f[i] ELSE Append(f[i], s[i + 1])
      BY <1>4, <3>1
    <3>3. f[i] \in Seq(M) /\ s[i + 1] \in M
      BY <1>2, <2>2, <3>1
    <3>4. Append(f[i], s[i + 1]) \in Seq(M)
      BY <3>3
    <3> QED
      BY <3>1, <3>2, <3>3, <3>4
  <2> HIDE DEF T
  <2> QED
    BY <2>1, <2>2 DEF Climbs
<1>6. n \in T
  <2> HIDE DEF T
  <2> QED
    BY <1>2, <1>5, Climb
<1> QED
  BY <1>3, <1>6

\* Prefixes, as the history goes on.
LEMMA PrefixSteps ==
  ASSUME NEW M, NEW h \in Seq(M), NEW S
  PROVE  \E f : /\ f[0] = <<>> /\ PrefixOf(h, S) = f[Len(h)]
                /\ \A i \in 1 .. Len(h) :
                     f[i] = IF i \in S THEN Config[h[i].to].prefix \o f[i - 1] ELSE f[i - 1]
<1>1. Len(h) \in Nat
  OBVIOUS
<1>2. PICK f : Folds("prefixed", [steps |-> S, past |-> h], f, Len(h)) /\ PrefixOf(h, S) = f[Len(h)]
  BY <1>1, PrefixIs
<1>3. 0 \in 0 .. Len(h) /\ \A i \in 1 .. Len(h) : i \in 0 .. Len(h) /\ i # 0
  BY <1>1
<1>4. /\ f[0] = <<>>
      /\ \A i \in 1 .. Len(h) : f[i] = IF i \in S THEN Config[h[i].to].prefix \o f[i - 1] ELSE f[i - 1]
  BY <1>2, <1>3 DEF Folds, FoldStep, First, StepOf
<1> QED
  BY <1>2, <1>4

LEMMA PrefixNone ==
  ASSUME NEW M, NEW h \in Seq(M)
  PROVE  PrefixOf(h, {}) = <<>>
<1>1. PICK n : n = Len(h)
  OBVIOUS
<1>2. PICK f : /\ f[0] = <<>> /\ PrefixOf(h, {}) = f[n] /\ \A i \in 1 .. n : f[i] = f[i - 1]
  <2>1. PICK f : /\ f[0] = <<>> /\ PrefixOf(h, {}) = f[Len(h)]
                 /\ \A i \in 1 .. Len(h) :
                      f[i] = IF i \in {} THEN Config[h[i].to].prefix \o f[i - 1] ELSE f[i - 1]
    BY PrefixSteps
  <2> QED
    BY <1>1, <2>1
<1>3. n \in Nat
  BY <1>1
<1> DEFINE T == {i \in 0 .. n : f[i] = <<>>}
<1>4. Climbs(T, n)
  <2>1. 0 \in T
    BY <1>2, <1>3
  <2>2. ASSUME NEW i \in 0 .. n, i < n, i \in T PROVE i + 1 \in T
    <3>1. i + 1 \in 1 .. n /\ (i + 1) - 1 = i /\ i + 1 \in 0 .. n
      BY <1>3, <2>2
    <3> QED
      BY <1>2, <2>2, <3>1
  <2> HIDE DEF T
  <2> QED
    BY <2>1, <2>2 DEF Climbs
<1>5. n \in T
  <2> HIDE DEF T
  <2> QED
    BY <1>3, <1>4, Climb
<1> QED
  BY <1>2, <1>5

LEMMA PrefixPath ==
  ASSUME NEW M, NEW h \in Seq(M), NEW S, \A i \in S \cap DOMAIN h : IsPath(Config[h[i].to].prefix)
  PROVE  IsPath(PrefixOf(h, S))
<1>1. PICK n : n = Len(h)
  OBVIOUS
<1>2. PICK f : /\ f[0] = <<>> /\ PrefixOf(h, S) = f[n]
               /\ \A i \in 1 .. n :
                    f[i] = IF i \in S THEN Config[h[i].to].prefix \o f[i - 1] ELSE f[i - 1]
  BY <1>1, PrefixSteps
<1>3. n \in Nat /\ DOMAIN h = 1 .. n
  BY <1>1
<1> DEFINE T == {i \in 0 .. n : IsPath(f[i])}
<1>4. Climbs(T, n)
  <2>1. 0 \in T
    <3>1. <<>> \in Seq({}) /\ Range(<<>>) = {} /\ 0 \in 0 .. n
      BY <1>3, EmptySound
    <3>2. IsPath(f[0])
      BY <1>2, <3>1 DEF IsPath
    <3> QED
      BY <3>1, <3>2
  <2>2. ASSUME NEW i \in 0 .. n, i < n, i \in T PROVE i + 1 \in T
    <3>1. i + 1 \in 1 .. n /\ (i + 1) - 1 = i /\ i + 1 \in 0 .. n /\ IsPath(f[i])
      BY <1>3, <2>2
    <3>2. f[i + 1] = IF i + 1 \in S THEN Config[h[i + 1].to].prefix \o f[i] ELSE f[i]
      BY <1>2, <3>1
    <3>3. i + 1 \in S => IsPath(Config[h[i + 1].to].prefix)
      BY <1>3, <3>1
    <3>4. i + 1 \in S => IsPath(Config[h[i + 1].to].prefix \o f[i])
      BY <3>1, <3>3, PathsJoin
    <3> QED
      BY <3>1, <3>2, <3>4
  <2> HIDE DEF T
  <2> QED
    BY <2>1, <2>2 DEF Climbs
<1>5. n \in T
  <2> HIDE DEF T
  <2> QED
    BY <1>3, <1>4, Climb
<1> QED
  BY <1>2, <1>5

\* A step on the way puts its router's prefix in front; any other step changes nothing.
LEMMA PrefixGrows ==
  ASSUME NEW M, NEW h \in Seq(M), NEW e, NEW S \in SUBSET DOMAIN h
  PROVE  /\ PrefixOf(Append(h, e), S) = PrefixOf(h, S)
         /\ PrefixOf(Append(h, e), S \cup {Len(h) + 1}) = Config[e.to].prefix \o PrefixOf(h, S)
<1>1. PICK g, n : g = Append(h, e) /\ n = Len(h)
  OBVIOUS
<1>2. /\ n \in Nat /\ g \in Seq(M \cup {e}) /\ Len(g) = n + 1 /\ g[n + 1] = e
      /\ \A i \in 1 .. n : g[i] = h[i]
      /\ n + 1 \notin S
  BY <1>1
<1>3. PICK f : /\ f[0] = <<>> /\ PrefixOf(h, S) = f[n]
               /\ \A i \in 1 .. n :
                    f[i] = IF i \in S THEN Config[h[i].to].prefix \o f[i - 1] ELSE f[i - 1]
  BY <1>1, PrefixSteps
<1>4. ASSUME NEW R, R = S \/ R = S \cup {n + 1}
      PROVE  PrefixOf(g, R) = IF n + 1 \in R THEN Config[e.to].prefix \o f[n] ELSE f[n]
  <2>1. PICK b : /\ b[0] = <<>> /\ PrefixOf(g, R) = b[n + 1]
                 /\ \A i \in 1 .. n + 1 :
                      b[i] = IF i \in R THEN Config[g[i].to].prefix \o b[i - 1] ELSE b[i - 1]
    <3>1. PICK b : /\ b[0] = <<>> /\ PrefixOf(g, R) = b[Len(g)]
                   /\ \A i \in 1 .. Len(g) :
                        b[i] = IF i \in R THEN Config[g[i].to].prefix \o b[i - 1] ELSE b[i - 1]
      BY <1>2, PrefixSteps
    <3> QED
      BY <1>2, <3>1
  <2> DEFINE T == {i \in 0 .. n : b[i] = f[i]}
  <2>2. Climbs(T, n)
    <3>1. 0 \in T
      BY <1>2, <1>3, <2>1
    <3>2. ASSUME NEW i \in 0 .. n, i < n, i \in T PROVE i + 1 \in T
      <4>1. /\ i + 1 \in 1 .. n /\ i + 1 \in 1 .. n + 1 /\ (i + 1) - 1 = i /\ i + 1 \in 0 .. n
            /\ i + 1 # n + 1 /\ b[i] = f[i]
        BY <1>2, <3>2
      <4>2. b[i + 1] = IF i + 1 \in R THEN Config[g[i + 1].to].prefix \o b[i] ELSE b[i]
        BY <2>1, <4>1
      <4>3. f[i + 1] = IF i + 1 \in S THEN Config[h[i + 1].to].prefix \o f[i] ELSE f[i]
        BY <1>3, <4>1
      <4>4. (i + 1 \in R) <=> (i + 1 \in S)
        BY <1>4, <4>1
      <4>5. g[i + 1] = h[i + 1]
        BY <1>2, <4>1
      <4> QED
        BY <4>1, <4>2, <4>3, <4>4, <4>5
    <3> HIDE DEF T
    <3> QED
      BY <3>1, <3>2 DEF Climbs
  <2>3. n \in T
    <3> HIDE DEF T
    <3> QED
      BY <1>2, <2>2, Climb
  <2>4. n + 1 \in 1 .. n + 1 /\ (n + 1) - 1 = n
    BY <1>2
  <2>5. b[n + 1] = IF n + 1 \in R THEN Config[g[n + 1].to].prefix \o b[n] ELSE b[n]
    BY <2>1, <2>4
  <2> QED
    BY <1>2, <2>1, <2>3, <2>5
<1>5. PrefixOf(g, S) = f[n]
  BY <1>2, <1>4
<1>6. PrefixOf(g, S \cup {n + 1}) = Config[e.to].prefix \o f[n]
  BY <1>4
<1> QED
  BY <1>1, <1>3, <1>5, <1>6

-----------------------------------------------------------------------------
(* The other settings on a way. *)

\* What has joined a set above all of it is the least only of itself.
LEMMA LeastStays ==
  ASSUME NEW A, A \subseteq Nat, NEW n \in Nat, \A i \in A : i < n
  PROVE  Min(A \cup {n}) = IF A = {} THEN n ELSE Min(A)
<1>1. A \cup {n} \subseteq Nat /\ A \cup {n} # {}
  OBVIOUS
<1>2. Min(A \cup {n}) \in A \cup {n} /\ \A i \in A \cup {n} : Min(A \cup {n}) <= i
  BY <1>1, LeastNatural
<1>3. A # {} => Min(A) \in A /\ \A i \in A : Min(A) <= i
  BY LeastNatural
<1>4. PICK x, y : x = Min(A \cup {n}) /\ y = Min(A)
  OBVIOUS
<1>5. A = {} => x = n
  BY <1>2, <1>4
<1>6. ASSUME A # {} PROVE x = y
  <2>1. y \in A /\ y \in Nat /\ y < n /\ \A i \in A : y <= i
    BY <1>3, <1>4, <1>6
  <2>2. x \in A \cup {n} /\ x <= y /\ x \in Nat
    BY <1>1, <1>2, <1>4, <2>1
  <2>3. x \in A
    BY <2>1, <2>2
  <2> QED
    BY <2>1, <2>2, <2>3
<1> QED
  BY <1>4, <1>5, <1>6

\* The same by what the routers at the steps say.
MetadataAt(at, d, S) ==
  [k \in DOMAIN d.metadata \cup UNION {DOMAIN at[i] : i \in S} |->
     IF k \in DOMAIN d.metadata THEN d.metadata[k] ELSE at[Min({i \in S : k \in DOMAIN at[i]})][k]]

SaidAt(at, h, S) == S \subseteq Nat /\ at = [i \in S |-> Config[h[i].to].metadata]

LEMMA MetadataIs ==
  ASSUME NEW h, NEW d, NEW S, NEW at, SaidAt(at, h, S)
  PROVE  MetadataBy(h, d, S) = MetadataAt(at, d, S)
<1> DEFINE saying(k) == {i \in S : k \in DOMAIN Config[h[i].to].metadata}
           says(k) == {i \in S : k \in DOMAIN at[i]}
           keys == DOMAIN d.metadata \cup UNION {DOMAIN at[i] : i \in S}
<1>1. MetadataBy(h, d, S) =
        [k \in DOMAIN d.metadata \cup UNION {DOMAIN Config[h[i].to].metadata : i \in S} |->
           IF k \in DOMAIN d.metadata THEN d.metadata[k] ELSE Config[h[Min(saying(k))].to].metadata[k]]
  BY Zenon DEF MetadataBy
<1>2. S \subseteq Nat /\ \A i \in S : at[i] = Config[h[i].to].metadata
  BY DEF SaidAt
<1>3. DOMAIN d.metadata \cup UNION {DOMAIN Config[h[i].to].metadata : i \in S} = keys
  BY <1>2
<1>4. ASSUME NEW k PROVE saying(k) = says(k)
  BY <1>2
<1>5. ASSUME NEW k \in keys, k \notin DOMAIN d.metadata
      PROVE  Config[h[Min(saying(k))].to].metadata[k] = at[Min(says(k))][k]
  <2>1. PICK A : A = says(k)
    OBVIOUS
  <2>2. A \subseteq S /\ A # {}
    BY <1>5, <2>1
  <2>3. Min(A) \in S
    BY <1>2, <2>2, LeastNatural
  <2>4. at[Min(A)] = Config[h[Min(A)].to].metadata
    BY <1>2, <2>3
  <2>5. saying(k) = A
    BY <1>4, <2>1
  <2> HIDE DEF saying, says
  <2> QED
    BY <2>1, <2>4, <2>5
<1> HIDE DEF saying, says, keys
<1>6. \A k \in keys : (IF k \in DOMAIN d.metadata THEN d.metadata[k]
                        ELSE Config[h[Min(saying(k))].to].metadata[k]) =
                       (IF k \in DOMAIN d.metadata THEN d.metadata[k] ELSE at[Min(says(k))][k])
  BY <1>5
<1>7. MetadataBy(h, d, S) =
        [k \in keys |-> IF k \in DOMAIN d.metadata THEN d.metadata[k] ELSE at[Min(says(k))][k]]
  BY <1>1, <1>3, <1>6
<1> QED
  BY <1>7 DEF keys, says, MetadataAt

\* In the history g, n is an inclusion after the steps S, which are as in h.
Later(h, g, n, S) ==
  n \in Nat /\ S \subseteq Nat /\ \A i \in S : i < n /\ g[i] = h[i]

LEMMA MetadataGrows ==
  ASSUME NEW h, NEW g, NEW n, NEW S, Later(h, g, n, S), NEW d, NEW m, m = MetadataBy(h, d, S),
         NEW c, c = Config[g[n].to].metadata
  PROVE  \E S2, x : S2 = S \cup {n} /\ x = MetadataBy(g, d, S2) /\ x = Under(m, c)
<1>1. /\ n \in Nat /\ S \subseteq Nat /\ S \cup {n} \subseteq Nat
      /\ \A i \in S : g[i] = h[i] /\ i < n /\ i # n
      /\ n \notin S
  BY DEF Later
<1>2. PICK at, more :
        /\ at = [i \in S |-> Config[h[i].to].metadata]
        /\ more = [i \in S \cup {n} |-> Config[g[i].to].metadata]
  OBVIOUS
<1>3. /\ \A i \in S : more[i] = at[i]
      /\ more[n] = c
  BY <1>1, <1>2
<1>4. PICK f : f = MetadataAt(at, d, S)
  OBVIOUS
<1>5. m = f
  <2>1. SaidAt(at, h, S)
    BY <1>1, <1>2 DEF SaidAt
  <2> QED
    BY <1>4, <2>1, MetadataIs
<1>6. PICK b : b = MetadataAt(more, d, S \cup {n})
  OBVIOUS
<1>7. MetadataBy(g, d, S \cup {n}) = b
  <2>1. SaidAt(more, g, S \cup {n})
    BY <1>1, <1>2 DEF SaidAt
  <2> QED
    BY <1>6, <2>1, MetadataIs
<1>8. DOMAIN b = DOMAIN f \cup DOMAIN c
  <2>1. \A k : k \in DOMAIN b <=> k \in DOMAIN d.metadata \/ \E i \in S \cup {n} : k \in DOMAIN more[i]
    BY <1>6 DEF MetadataAt
  <2>2. \A k : k \in DOMAIN f <=> k \in DOMAIN d.metadata \/ \E i \in S : k \in DOMAIN at[i]
    BY <1>4 DEF MetadataAt
  <2>3. \A k : (\E i \in S \cup {n} : k \in DOMAIN more[i])
              <=> (\E i \in S : k \in DOMAIN at[i]) \/ k \in DOMAIN c
    BY <1>3
  <2> QED
    BY <2>1, <2>2, <2>3
<1>9. ASSUME NEW k \in DOMAIN b PROVE b[k] = IF k \in DOMAIN f THEN f[k] ELSE c[k]
  <2>1. CASE k \in DOMAIN d.metadata
    BY <1>4, <1>6, <1>9, <2>1 DEF MetadataAt
  <2>2. CASE k \notin DOMAIN d.metadata
    <3>1. PICK A, B : A = {i \in S : k \in DOMAIN at[i]} /\ B = {i \in S \cup {n} : k \in DOMAIN more[i]}
      OBVIOUS
    <3>2. b[k] = more[Min(B)][k] /\ (k \in DOMAIN f => f[k] = at[Min(A)][k])
      BY <1>4, <1>6, <1>9, <2>2, <3>1 DEF MetadataAt
    <3>3. A \subseteq S /\ (k \in DOMAIN f <=> A # {})
      BY <1>4, <2>2, <3>1 DEF MetadataAt
    <3>4. B = IF k \in DOMAIN c THEN A \cup {n} ELSE A
      BY <1>1, <1>3, <3>1
    <3>5. CASE A # {}
      <4>1. Min(B) = Min(A)
        BY <1>1, <3>3, <3>4, <3>5, LeastStays
      <4>2. Min(A) \in S
        BY <1>1, <3>3, <3>5, LeastNatural
      <4> QED
        BY <1>3, <3>2, <3>3, <3>5, <4>1, <4>2
    <3>6. CASE A = {}
      <4>1. k \in DOMAIN c
        BY <1>8, <1>9, <3>3, <3>6
      <4>2. Min(B) = n
        BY <1>1, <3>4, <3>6, <4>1, LeastStays
      <4> QED
        BY <1>3, <3>2, <3>3, <3>6, <4>2
    <3> QED
      BY <3>5, <3>6
  <2> QED
    BY <2>1, <2>2
<1>10. b = Under(f, c)
  BY <1>6, <1>8, <1>9 DEF Under, MetadataAt
<1> QED
  BY <1>5, <1>7, <1>10

\* The metadata that its own router gives a declaration.
LEMMA MetadataOwn ==
  ASSUME NEW h, NEW n \in Nat, NEW d
  PROVE  MetadataBy(h, d, {n}) = Under(d.metadata, Config[h[n].to].metadata)
<1>1. PICK at, c : at = [i \in {n} |-> Config[h[i].to].metadata] /\ c = Config[h[n].to].metadata
  OBVIOUS
<1>2. {n} \subseteq Nat /\ at[n] = c
  BY <1>1
<1>3. PICK f : f = MetadataAt(at, d, {n})
  OBVIOUS
<1>4. MetadataBy(h, d, {n}) = f
  <2>1. SaidAt(at, h, {n})
    BY <1>1, <1>2 DEF SaidAt
  <2> QED
    BY <1>3, <2>1, MetadataIs
<1>5. DOMAIN f = DOMAIN d.metadata \cup DOMAIN c
  BY <1>2, <1>3 DEF MetadataAt
<1>6. ASSUME NEW k \in DOMAIN f PROVE f[k] = IF k \in DOMAIN d.metadata THEN d.metadata[k] ELSE c[k]
  <2>1. CASE k \in DOMAIN d.metadata
    BY <1>3, <1>6, <2>1 DEF MetadataAt
  <2>2. CASE k \notin DOMAIN d.metadata
    <3>1. PICK A : A = {i \in {n} : k \in DOMAIN at[i]}
      OBVIOUS
    <3>2. A = {n}
      BY <1>2, <1>5, <1>6, <2>2, <3>1
    <3>3. f[k] = at[Min(A)][k]
      BY <1>3, <1>6, <2>2, <3>1 DEF MetadataAt
    <3>4. Min(A) = n
      BY <1>2, <3>2, LeastNatural
    <3> QED
      BY <1>2, <2>2, <3>3, <3>4
  <2> QED
    BY <2>1, <2>2
<1>7. f = Under(d.metadata, c)
  BY <1>3, <1>5, <1>6 DEF Under, MetadataAt
<1> QED
  BY <1>1, <1>4, <1>7

-----------------------------------------------------------------------------
(* What is to be mounted, as the history goes on. *)

OwnAliases(d) == NonBlank([i \in DOMAIN d.aliases |-> Config[d.router].prefix \o d.aliases[i]])

Paths(kind) == kind \in {"command", "task", "tool"}

\* What is mounted of d, by what the routers on its way come to.
MountedAs(d, prefix, outer, admin, enabled, metadata) ==
  [kind |-> d.kind,
   name |-> IF Paths(d.kind) THEN prefix \o Own(d).name ELSE Own(d).name,
   aliases |-> [i \in DOMAIN OwnAliases(d) |-> outer \o OwnAliases(d)[i]],
   usage |-> IF d.kind = "command" /\ outer # <<>> THEN Nil ELSE d.usage,
   admin |-> d.admin \/ (d.kind = "command" /\ admin),
   enabled |-> d.enabled /\ (d.kind = "tool" \/ enabled),
   metadata |-> metadata, handler |-> d.handler, schema |-> Own(d).schema]

LEMMA MountedIs ==
  ASSUME NEW h, NEW n, NEW w, NEW d, d = h[n].declared
  PROVE  MountedBy(h, n, w) =
           MountedAs(d, PrefixOf(h, w \cup {n}), PrefixOf(h, w), AdminBy(h, w \cup {n}),
                     EnabledBy(h, w \cup {n}), MetadataBy(h, d, w \cup {n}))
<1>1. Own(d).name = IF d.name = Nil THEN d.handler.name ELSE d.name
  BY DEF Own
<1>2. Own(d).schema = IF d.kind = "tool" /\ d.schema = Nil THEN SchemaOf(d.handler.parameters) ELSE d.schema
  BY DEF Own
<1> QED
  BY Zenon, <1>1, <1>2 DEF MountedBy, MountedAs, OwnAliases, Paths

\* What is mounted by a way stays so as the history goes on.
LEMMA MountedGrows ==
  ASSUME NEW M, NEW h \in Seq(M), NEW e, NEW n \in DOMAIN h, NEW w \in SUBSET DOMAIN h
  PROVE  MountedBy(Append(h, e), n, w) = MountedBy(h, n, w)
<1>1. PICK g, on : g = Append(h, e) /\ on = w \cup {n}
  OBVIOUS
<1>2. on \in SUBSET DOMAIN h /\ \A i \in DOMAIN h : g[i] = h[i]
  BY <1>1
<1>3. PICK d : d = h[n].declared /\ d = g[n].declared
  BY <1>2
<1>4. PrefixOf(g, on) = PrefixOf(h, on) /\ PrefixOf(g, w) = PrefixOf(h, w)
  <2>1. \A S \in SUBSET DOMAIN h : PrefixOf(g, S) = PrefixOf(h, S)
    BY <1>1, PrefixGrows
  <2> QED
    BY <1>2, <2>1
<1>5. MetadataBy(g, d, on) = MetadataBy(h, d, on)
  <2>1. on \subseteq Nat
    BY <1>2
  <2>2. PICK at : at = [i \in on |-> Config[h[i].to].metadata]
    OBVIOUS
  <2>3. at = [i \in on |-> Config[g[i].to].metadata]
    BY <1>2, <2>2
  <2>4. PICK f : f = MetadataAt(at, d, on)
    OBVIOUS
  <2>5. MetadataBy(h, d, on) = f
    <3>1. SaidAt(at, h, on)
      BY <2>1, <2>2 DEF SaidAt
    <3> QED
      BY <2>4, <3>1, MetadataIs
  <2>6. MetadataBy(g, d, on) = f
    <3>1. SaidAt(at, g, on)
      BY <2>1, <2>3 DEF SaidAt
    <3> QED
      BY <2>4, <3>1, MetadataIs
  <2> QED
    BY <2>5, <2>6
<1>6. AdminBy(g, on) = AdminBy(h, on) /\ EnabledBy(g, on) = EnabledBy(h, on)
  BY <1>2 DEF AdminBy, EnabledBy
<1>7. MountedBy(g, n, w) = MountedAs(d, PrefixOf(g, on), PrefixOf(g, w), AdminBy(g, on),
                                     EnabledBy(g, on), MetadataBy(g, d, on))
  BY <1>1, <1>3, MountedIs
<1>8. MountedBy(h, n, w) = MountedAs(d, PrefixOf(h, on), PrefixOf(h, w), AdminBy(h, on),
                                     EnabledBy(h, on), MetadataBy(h, d, on))
  BY <1>1, <1>3, MountedIs
<1> QED
  BY <1>1, <1>4, <1>5, <1>6, <1>7, <1>8

\* Paths joined three times
LEMMA PathsAssociate ==
  ASSUME NEW p, NEW q, NEW r, IsPath(p), IsPath(q), IsPath(r)
  PROVE  p \o (q \o r) = (p \o q) \o r
<1>1. PICK M : M = Range(p) \cup Range(q) \cup Range(r)
  OBVIOUS
<1>2. p \in Seq(M) /\ q \in Seq(M) /\ r \in Seq(M)
  BY <1>1 DEF IsPath
<1>3. PICK x, y : x = p \o (q \o r) /\ y = (p \o q) \o r
  OBVIOUS
<1>4. PICK qr, pq : qr = q \o r /\ pq = p \o q
  OBVIOUS
<1>5. qr \in Seq(M) /\ pq \in Seq(M) /\ Len(qr) = Len(q) + Len(r) /\ Len(pq) = Len(p) + Len(q)
  BY <1>2, <1>4
<1>6. x \in Seq(M) /\ y \in Seq(M) /\ Len(x) = Len(p) + Len(qr) /\ Len(y) = Len(pq) + Len(r)
  BY <1>2, <1>3, <1>4, <1>5
<1>7. Len(p) \in Nat /\ Len(q) \in Nat /\ Len(r) \in Nat /\ Len(x) = Len(y) /\ Len(x) \in Nat
  BY <1>2, <1>5, <1>6
<1>8. ASSUME NEW i \in 1 .. Len(x) PROVE x[i] = y[i]
  <2>1. CASE i <= Len(p)
    <3>1. x[i] = p[i]
      BY <1>2, <1>3, <1>4, <1>5, <2>1
    <3>2. pq[i] = p[i] /\ i <= Len(pq)
      BY <1>2, <1>4, <1>5, <2>1
    <3>3. y[i] = pq[i]
      BY <1>2, <1>3, <1>4, <1>5, <3>2
    <3> QED
      BY <3>1, <3>2, <3>3
  <2>2. CASE i > Len(p) /\ i <= Len(p) + Len(q)
    <3>1. x[i] = qr[i - Len(p)]
      BY <1>2, <1>3, <1>4, <1>5, <1>6, <2>2
    <3>2. qr[i - Len(p)] = q[i - Len(p)]
      BY <1>2, <1>4, <1>5, <2>2
    <3>3. pq[i] = q[i - Len(p)] /\ i <= Len(pq)
      BY <1>2, <1>4, <1>5, <2>2
    <3>4. y[i] = pq[i]
      BY <1>2, <1>3, <1>4, <1>5, <3>3
    <3> QED
      BY <3>1, <3>2, <3>3, <3>4
  <2>3. CASE i > Len(p) + Len(q)
    <3>1. x[i] = qr[i - Len(p)]
      BY <1>2, <1>3, <1>4, <1>5, <1>6, <2>3
    <3>2. qr[i - Len(p)] = r[(i - Len(p)) - Len(q)]
      BY <1>2, <1>4, <1>5, <1>6, <2>3
    <3>3. y[i] = r[i - Len(pq)]
      BY <1>2, <1>3, <1>4, <1>5, <1>6, <1>7, <2>3
    <3>4. (i - Len(p)) - Len(q) = i - Len(pq)
      BY <1>5, <1>7
    <3> QED
      BY <3>1, <3>2, <3>3, <3>4
  <2> QED
    BY <1>7, <2>1, <2>2, <2>3
<1>9. x = y
  <2>1. x = [i \in 1 .. Len(x) |-> x[i]] /\ y = [i \in 1 .. Len(y) |-> y[i]]
    BY <1>6
  <2> QED
    BY <1>7, <1>8, <2>1
<1> QED
  BY <1>3, <1>4, <1>9

LEMMA NoPrefix ==
  ASSUME NEW p, IsPath(p)
  PROVE  <<>> \o p = p /\ p \o <<>> = p
<1>1. PICK M : p \in Seq(M)
  BY DEF IsPath
<1> QED
  BY <1>1

LEMMA OwnAliasesArePaths ==
  ASSUME NEW d, SoundDeclaration(d), IsPath(Config[d.router].prefix)
  PROVE  /\ IsPath(Own(d).name)
         /\ \E M : OwnAliases(d) \in Seq(M) /\ \A p \in M : IsPath(p)
<1>1. PICK c, l, P : c = Config[d.router].prefix /\ l = d.aliases /\ P = {c \o a : a \in Range(l)}
  OBVIOUS
<1>2. l \in Seq(Range(l)) /\ \A a \in Range(l) : IsPath(a)
  BY <1>1 DEF SoundDeclaration
<1>3. \A p \in P : IsPath(p)
  BY <1>1, <1>2, PathsJoin
<1>4. PICK k : k = [i \in DOMAIN l |-> c \o l[i]]
  OBVIOUS
<1>5. k \in Seq(P)
  <2>1. Len(l) \in Nat /\ DOMAIN l = 1 .. Len(l) /\ \A i \in DOMAIN l : l[i] \in Range(l)
    BY <1>2
  <2>2. \A i \in DOMAIN l : c \o l[i] \in P
    BY <1>1, <2>1
  <2> QED
    BY <1>4, <2>1, <2>2
<1>6. OwnAliases(d) = NonBlank(k)
  BY <1>1, <1>4 DEF OwnAliases
<1>7. IsPath(Own(d).name)
  BY DEF Own, SoundDeclaration
<1> QED
  BY <1>3, <1>5, <1>6, <1>7, KeptInto

\* A definition is told by its nine fields.
Fields == {"kind", "name", "aliases", "usage", "admin", "enabled", "metadata", "handler", "schema"}

IsDefinition(m) == DOMAIN m = Fields /\ m = [x \in Fields |-> m[x]]

Alike(m, n) ==
  /\ m["kind"] = n["kind"] /\ m["name"] = n["name"] /\ m["aliases"] = n["aliases"]
  /\ m["usage"] = n["usage"] /\ m["admin"] = n["admin"] /\ m["enabled"] = n["enabled"]
  /\ m["metadata"] = n["metadata"] /\ m["handler"] = n["handler"] /\ m["schema"] = n["schema"]

LEMMA AlikeIsSame ==
  ASSUME NEW m, IsDefinition(m), NEW n, IsDefinition(n), Alike(m, n)
  PROVE  m = n
<1>1. \A x \in Fields : m[x] = n[x]
  BY DEF Fields, Alike
<1> QED
  BY <1>1 DEF IsDefinition

LEMMA RecordIsDefinition ==
  ASSUME NEW kind, NEW name, NEW aliases, NEW usage, NEW admin, NEW enabled, NEW metadata, NEW handler,
         NEW schema
  PROVE  IsDefinition([kind |-> kind, name |-> name, aliases |-> aliases, usage |-> usage, admin |-> admin,
                       enabled |-> enabled, metadata |-> metadata, handler |-> handler, schema |-> schema])
BY DEF IsDefinition, Fields

IsMerged(m, d, c) ==
  /\ IsDefinition(m)
  /\ m["kind"] = d["kind"] /\ m["usage"] = d["usage"]
  /\ m["name"] = IF Paths(d["kind"]) THEN c.prefix \o d["name"] ELSE d["name"]
  /\ m["aliases"] = [i \in DOMAIN d["aliases"] |-> c.prefix \o d["aliases"][i]]
  /\ m["admin"] = (d["admin"] \/ (d["kind"] = "command" /\ c.admin))
  /\ m["enabled"] = (d["enabled"] /\ (d["kind"] = "tool" \/ c.enabled))
  /\ m["metadata"] = Under(d["metadata"], c.metadata)
  /\ m["handler"] = d["handler"] /\ m["schema"] = d["schema"]

LEMMA MergedIs ==
  ASSUME NEW d, IsDefinition(d), NEW c
  PROVE  IsMerged(Merged(d, c), d, c)
<1>1. PICK name, aliases, admin, enabled, metadata :
        /\ name = IF d["kind"] \in {"command", "task", "tool"} THEN c.prefix \o d["name"] ELSE d["name"]
        /\ aliases = [i \in DOMAIN d["aliases"] |-> c.prefix \o d["aliases"][i]]
        /\ admin = (d["admin"] \/ (d["kind"] = "command" /\ c.admin))
        /\ enabled = (d["enabled"] /\ (d["kind"] = "tool" \/ c.enabled))
        /\ metadata = Under(d["metadata"], c.metadata)
  OBVIOUS
<1>2. DOMAIN d = Fields
  BY DEF IsDefinition
<1>3. Merged(d, c) = [d EXCEPT !["name"] = name, !["aliases"] = aliases, !["admin"] = admin,
                               !["enabled"] = enabled, !["metadata"] = metadata]
  BY <1>1, <1>2 DEF Merged, Fields
<1>4. PICK m : m = Merged(d, c)
  OBVIOUS
<1>5. /\ m["kind"] = d["kind"] /\ m["usage"] = d["usage"] /\ m["name"] = name /\ m["aliases"] = aliases
      /\ m["admin"] = admin /\ m["enabled"] = enabled /\ m["metadata"] = metadata
      /\ m["handler"] = d["handler"] /\ m["schema"] = d["schema"]
  BY <1>2, <1>3, <1>4 DEF Fields
<1>6. IsDefinition(m)
  BY <1>2, <1>3, <1>4 DEF IsDefinition
<1>7. IsMerged(m, d, c)
  BY <1>1, <1>5, <1>6 DEF IsMerged, Paths
<1> QED
  BY <1>4, <1>7

LEMMA OwnIs ==
  ASSUME NEW d
  PROVE  /\ IsDefinition(Own(d))
         /\ Own(d)["kind"] = d.kind /\ Own(d)["aliases"] = d.aliases /\ Own(d)["usage"] = d.usage
         /\ Own(d)["admin"] = d.admin /\ Own(d)["enabled"] = d.enabled /\ Own(d)["metadata"] = d.metadata
         /\ Own(d)["handler"] = d.handler
<1>1. PICK name, schema :
        /\ name = IF d.name = Nil THEN d.handler.name ELSE d.name
        /\ schema = IF d.kind = "tool" /\ d.schema = Nil THEN SchemaOf(d.handler.parameters) ELSE d.schema
  OBVIOUS
<1>2. Own(d) = [kind |-> d.kind, name |-> name, aliases |-> d.aliases, usage |-> d.usage,
                admin |-> d.admin, enabled |-> d.enabled, metadata |-> d.metadata,
                handler |-> d.handler, schema |-> schema]
  BY Zenon, <1>1 DEF Own
<1>3. IsDefinition(Own(d))
  BY <1>2, RecordIsDefinition
<1> QED
  BY <1>2, <1>3

LEMMA MergedOwn ==
  ASSUME NEW d, NEW x, x = Definition(d), NEW c, c = Config[d.router]
  PROVE  /\ IsDefinition(x)
         /\ x["kind"] = d.kind /\ x["usage"] = d.usage
         /\ x["name"] = IF Paths(d.kind) THEN c.prefix \o Own(d).name ELSE Own(d).name
         /\ x["aliases"] = OwnAliases(d)
         /\ x["admin"] = (d.admin \/ (d.kind = "command" /\ c.admin))
         /\ x["enabled"] = (d.enabled /\ (d.kind = "tool" \/ c.enabled))
         /\ x["metadata"] = Under(d.metadata, c.metadata)
         /\ x["handler"] = d.handler /\ x["schema"] = Own(d).schema
<1>1. PICK o, m : o = Own(d) /\ m = Merged(o, c)
  OBVIOUS
<1>2. /\ IsDefinition(o)
      /\ o["kind"] = d.kind /\ o["aliases"] = d.aliases /\ o["usage"] = d.usage
      /\ o["admin"] = d.admin /\ o["enabled"] = d.enabled /\ o["metadata"] = d.metadata
      /\ o["handler"] = d.handler
  BY <1>1, OwnIs
<1>3. IsMerged(m, o, c)
  BY <1>1, <1>2, MergedIs
<1>4. /\ IsDefinition(m)
      /\ m["kind"] = d.kind /\ m["usage"] = d.usage
      /\ m["name"] = IF Paths(d.kind) THEN c.prefix \o o["name"] ELSE o["name"]
      /\ m["aliases"] = [i \in DOMAIN d.aliases |-> c.prefix \o d.aliases[i]]
      /\ m["admin"] = (d.admin \/ (d.kind = "command" /\ c.admin))
      /\ m["enabled"] = (d.enabled /\ (d.kind = "tool" \/ c.enabled))
      /\ m["metadata"] = Under(d.metadata, c.metadata)
      /\ m["handler"] = d.handler /\ m["schema"] = o["schema"]
  BY <1>3, <1>2 DEF IsMerged
<1>5. x = [m EXCEPT !.aliases = NonBlank(@)]
  BY <1>1, DefinitionIs
<1>6. PICK l : l = NonBlank(m["aliases"])
  OBVIOUS
<1>7. x = [m EXCEPT !["aliases"] = l]
  BY <1>5, <1>6
<1>8. l = OwnAliases(d)
  BY <1>4, <1>6 DEF OwnAliases
<1>9. IsDefinition(x)
  BY <1>4, <1>7 DEF IsDefinition
<1>10. /\ x["kind"] = m["kind"] /\ x["usage"] = m["usage"] /\ x["name"] = m["name"]
       /\ x["aliases"] = l /\ x["admin"] = m["admin"] /\ x["enabled"] = m["enabled"]
       /\ x["metadata"] = m["metadata"] /\ x["handler"] = m["handler"] /\ x["schema"] = m["schema"]
  BY <1>4, <1>7 DEF IsDefinition, Fields
<1> QED
  BY <1>1, <1>4, <1>8, <1>9, <1>10

IsMounted(x, d, prefix, outer, admin, enabled, metadata) ==
  /\ IsDefinition(x)
  /\ x["kind"] = d.kind
  /\ x["usage"] = IF d.kind = "command" /\ outer # <<>> THEN Nil ELSE d.usage
  /\ x["name"] = IF Paths(d.kind) THEN prefix \o Own(d).name ELSE Own(d).name
  /\ x["aliases"] = [i \in DOMAIN OwnAliases(d) |-> outer \o OwnAliases(d)[i]]
  /\ x["admin"] = (d.admin \/ (d.kind = "command" /\ admin))
  /\ x["enabled"] = (d.enabled /\ (d.kind = "tool" \/ enabled))
  /\ x["metadata"] = metadata
  /\ x["handler"] = d.handler /\ x["schema"] = Own(d).schema

LEMMA MountedAsIs ==
  ASSUME NEW d, NEW prefix, NEW outer, NEW admin, NEW enabled, NEW metadata
  PROVE  IsMounted(MountedAs(d, prefix, outer, admin, enabled, metadata),
                   d, prefix, outer, admin, enabled, metadata)
<1>1. PICK name, aliases, usage, a, e :
        /\ name = IF Paths(d.kind) THEN prefix \o Own(d).name ELSE Own(d).name
        /\ aliases = [i \in DOMAIN OwnAliases(d) |-> outer \o OwnAliases(d)[i]]
        /\ usage = IF d.kind = "command" /\ outer # <<>> THEN Nil ELSE d.usage
        /\ a = (d.admin \/ (d.kind = "command" /\ admin))
        /\ e = (d.enabled /\ (d.kind = "tool" \/ enabled))
  OBVIOUS
<1>2. PICK x : x = MountedAs(d, prefix, outer, admin, enabled, metadata)
  OBVIOUS
<1>3. x = [kind |-> d.kind, name |-> name, aliases |-> aliases, usage |-> usage, admin |-> a,
           enabled |-> e, metadata |-> metadata, handler |-> d.handler, schema |-> Own(d).schema]
  BY Zenon, <1>1, <1>2 DEF MountedAs
<1>4. IsDefinition(x)
  BY <1>3, RecordIsDefinition
<1>5. IsMounted(x, d, prefix, outer, admin, enabled, metadata)
  BY <1>1, <1>3, <1>4 DEF IsMounted
<1> QED
  BY <1>2, <1>5

\* What is mounted where it was declared is the definition.
LEMMA MountedDeclared ==
  ASSUME NEW M, NEW h \in Seq(M), NEW d, SoundDeclaration(d), IsPath(Config[d.router].prefix),
         NEW e, e.declared = d, e.to = d.router
  PROVE  MountedBy(Append(h, e), Len(h) + 1, {}) = Definition(d)
<1>1. PICK g, n, c : g = Append(h, e) /\ n = Len(h) + 1 /\ c = Config[d.router]
  OBVIOUS
<1>2. n \in Nat /\ g[n] = e /\ {} \cup {n} = {n} /\ {} \in SUBSET DOMAIN h
  BY <1>1
<1>3. PrefixOf(h, {}) = <<>>
  BY PrefixNone
<1>4. PrefixOf(g, {}) = <<>> /\ PrefixOf(g, {n}) = c.prefix
  <2>1. /\ PrefixOf(g, {}) = PrefixOf(h, {})
        /\ PrefixOf(g, {} \cup {n}) = Config[e.to].prefix \o PrefixOf(h, {})
    <3>1. PICK S : S = {} /\ S \in SUBSET DOMAIN h
      BY <1>2
    <3>2. /\ PrefixOf(Append(h, e), S) = PrefixOf(h, S)
          /\ PrefixOf(Append(h, e), S \cup {Len(h) + 1}) = Config[e.to].prefix \o PrefixOf(h, S)
      BY <3>1, PrefixGrows
    <3> QED
      BY <1>1, <3>1, <3>2
  <2> QED
    BY <1>1, <1>2, <1>3, <2>1, NoPrefix
<1>5. AdminBy(g, {n}) = c.admin /\ EnabledBy(g, {n}) = c.enabled
  <2>1. c.admin \in BOOLEAN /\ c.enabled \in BOOLEAN
    BY <1>1, RoutesAssumption DEF RoutesAssumption, SoundDeclaration
  <2>2. AdminBy(g, {n}) <=> c.admin
    BY <1>1, <1>2 DEF AdminBy
  <2>3. EnabledBy(g, {n}) <=> c.enabled
    BY <1>1, <1>2 DEF EnabledBy
  <2> QED
    BY <2>1, <2>2, <2>3 DEF AdminBy, EnabledBy
<1>6. MetadataBy(g, d, {n}) = Under(d.metadata, c.metadata)
  <2>1. MetadataBy(g, d, {n}) = Under(d.metadata, Config[g[n].to].metadata)
    BY <1>2, MetadataOwn
  <2> QED
    BY <1>1, <1>2, <2>1
<1>7. MountedBy(g, n, {}) = MountedAs(d, c.prefix, <<>>, c.admin, c.enabled, Under(d.metadata, c.metadata))
  <2>1. MountedBy(g, n, {}) = MountedAs(d, PrefixOf(g, {n}), PrefixOf(g, {}), AdminBy(g, {n}),
                                        EnabledBy(g, {n}), MetadataBy(g, d, {n}))
    BY <1>2, MountedIs
  <2> QED
    BY <1>4, <1>5, <1>6, <2>1
<1>8. PICK l : l = OwnAliases(d)
  OBVIOUS
<1>9. [i \in DOMAIN l |-> <<>> \o l[i]] = l
  <2>1. PICK N : l \in Seq(N) /\ \A p \in N : IsPath(p)
    BY <1>8, OwnAliasesArePaths
  <2>2. \A i \in DOMAIN l : <<>> \o l[i] = l[i]
    BY <2>1, NoPrefix
  <2>3. l = [i \in DOMAIN l |-> l[i]]
    BY <2>1
  <2> QED
    BY <2>2, <2>3
<1>10. PICK x, y : x = Definition(d) /\ y = MountedBy(g, n, {})
  OBVIOUS
<1>11. IsDefinition(x) /\ IsDefinition(y)
  <2>1. IsMounted(y, d, c.prefix, <<>>, c.admin, c.enabled, Under(d.metadata, c.metadata))
    BY <1>7, <1>10, MountedAsIs
  <2> QED
    BY <1>1, <1>10, <2>1, MergedOwn DEF IsMounted
<1>12. /\ y["kind"] = d.kind /\ y["usage"] = d.usage
       /\ y["name"] = IF Paths(d.kind) THEN c.prefix \o Own(d).name ELSE Own(d).name
       /\ y["aliases"] = l
       /\ y["admin"] = (d.admin \/ (d.kind = "command" /\ c.admin))
       /\ y["enabled"] = (d.enabled /\ (d.kind = "tool" \/ c.enabled))
       /\ y["metadata"] = Under(d.metadata, c.metadata)
       /\ y["handler"] = d.handler /\ y["schema"] = Own(d).schema
  <2>1. IsMounted(y, d, c.prefix, <<>>, c.admin, c.enabled, Under(d.metadata, c.metadata))
    BY <1>7, <1>10, MountedAsIs
  <2> QED
    BY <1>8, <1>9, <2>1 DEF IsMounted
<1>13. /\ x["kind"] = d.kind /\ x["usage"] = d.usage
       /\ x["name"] = IF Paths(d.kind) THEN c.prefix \o Own(d).name ELSE Own(d).name
       /\ x["aliases"] = l
       /\ x["admin"] = (d.admin \/ (d.kind = "command" /\ c.admin))
       /\ x["enabled"] = (d.enabled /\ (d.kind = "tool" \/ c.enabled))
       /\ x["metadata"] = Under(d.metadata, c.metadata)
       /\ x["handler"] = d.handler /\ x["schema"] = Own(d).schema
  BY <1>1, <1>8, <1>10, MergedOwn
<1>14. x = y
  BY <1>11, <1>12, <1>13, AlikeIsSame DEF Alike
<1> QED
  BY <1>1, <1>10, <1>14

\* What a router that includes it makes of it
LEMMA IncludedAs ==
  ASSUME NEW d, SoundDeclaration(d), IsPath(Config[d.router].prefix),
         NEW c, IsPath(c.prefix), NEW p, IsPath(p), NEW o, IsPath(o), NEW admin, NEW enabled, NEW metadata
  PROVE  Included(MountedAs(d, p, o, admin, enabled, metadata), c) =
           MountedAs(d, c.prefix \o p, c.prefix \o o, admin \/ c.admin, enabled /\ c.enabled,
                     Under(metadata, c.metadata))
<1>1. PICK name, schema, l, m :
        /\ name = Own(d).name /\ schema = Own(d).schema /\ l = OwnAliases(d)
        /\ m = MountedAs(d, p, o, admin, enabled, metadata)
  OBVIOUS
<1>2. IsPath(name) /\ \E M : l \in Seq(M) /\ \A a \in M : IsPath(a)
  BY <1>1, OwnAliasesArePaths
<1>3. PICK f : f = c.prefix
  OBVIOUS
<1>4. c.prefix \o (p \o name) = (c.prefix \o p) \o name
  <2>1. IsPath(f)
    BY <1>3
  <2>2. f \o (p \o name) = (f \o p) \o name
    BY <1>2, <2>1, PathsAssociate
  <2> QED
    BY <1>3, <2>2
<1>5. PICK aliases : aliases = [i \in DOMAIN l |-> o \o l[i]]
  OBVIOUS
<1>6. [i \in DOMAIN aliases |-> c.prefix \o aliases[i]] = [i \in DOMAIN l |-> (c.prefix \o o) \o l[i]]
  <2>1. \A i \in DOMAIN l : IsPath(l[i])
    BY <1>2
  <2>2. ASSUME NEW i \in DOMAIN l PROVE c.prefix \o (o \o l[i]) = (c.prefix \o o) \o l[i]
    <3>1. PICK a : a = l[i]
      OBVIOUS
    <3>2. IsPath(f) /\ IsPath(a)
      BY <1>3, <2>1, <3>1
    <3>3. f \o (o \o a) = (f \o o) \o a
      BY <3>2, PathsAssociate
    <3> QED
      BY <1>3, <3>1, <3>3
  <2> QED
    BY <1>5, <2>2
<1>7. c.prefix \o o # <<>> <=> c.prefix # <<>> \/ o # <<>>
  BY PathsJoin, NoPrefix
<1>8. PICK n, i, all :
        /\ n = Merged(m, c) /\ i = Included(m, c)
        /\ all = MountedAs(d, c.prefix \o p, c.prefix \o o, admin \/ c.admin, enabled /\ c.enabled,
                           Under(metadata, c.metadata))
  OBVIOUS
<1>9. /\ IsDefinition(m)
      /\ m["kind"] = d.kind /\ m["usage"] = IF d.kind = "command" /\ o # <<>> THEN Nil ELSE d.usage
      /\ m["name"] = IF Paths(d.kind) THEN p \o name ELSE name
      /\ m["aliases"] = aliases
      /\ m["admin"] = (d.admin \/ (d.kind = "command" /\ admin))
      /\ m["enabled"] = (d.enabled /\ (d.kind = "tool" \/ enabled))
      /\ m["metadata"] = metadata /\ m["handler"] = d.handler /\ m["schema"] = schema
  <2>1. IsMounted(m, d, p, o, admin, enabled, metadata)
    BY <1>1, MountedAsIs
  <2> QED
    BY <1>1, <1>5, <2>1 DEF IsMounted
<1>10. /\ IsDefinition(n)
       /\ n["kind"] = m["kind"] /\ n["usage"] = m["usage"]
       /\ n["name"] = IF Paths(m["kind"]) THEN c.prefix \o m["name"] ELSE m["name"]
       /\ n["aliases"] = [x \in DOMAIN m["aliases"] |-> c.prefix \o m["aliases"][x]]
       /\ n["admin"] = (m["admin"] \/ (m["kind"] = "command" /\ c.admin))
       /\ n["enabled"] = (m["enabled"] /\ (m["kind"] = "tool" \/ c.enabled))
       /\ n["metadata"] = Under(m["metadata"], c.metadata)
       /\ n["handler"] = m["handler"] /\ n["schema"] = m["schema"]
  <2>1. IsMerged(n, m, c)
    BY <1>8, <1>9, MergedIs
  <2> QED
    BY <2>1 DEF IsMerged
<1>11. PICK usage : usage = IF d.kind = "command" /\ c.prefix # <<>> THEN Nil ELSE n["usage"]
  OBVIOUS
<1>12. i = [n EXCEPT !["usage"] = usage]
  <2>1. i = [n EXCEPT !.usage = IF m.kind = "command" /\ c.prefix # <<>> THEN Nil ELSE @]
    BY Zenon, <1>8 DEF Included
  <2> QED
    BY <1>9, <1>11, <2>1
<1>13. /\ IsDefinition(i)
       /\ i["kind"] = n["kind"] /\ i["usage"] = usage /\ i["name"] = n["name"]
       /\ i["aliases"] = n["aliases"] /\ i["admin"] = n["admin"] /\ i["enabled"] = n["enabled"]
       /\ i["metadata"] = n["metadata"] /\ i["handler"] = n["handler"] /\ i["schema"] = n["schema"]
  BY <1>10, <1>12 DEF IsDefinition, Fields
<1>14. /\ IsDefinition(all)
       /\ all["kind"] = d.kind
       /\ all["usage"] = IF d.kind = "command" /\ c.prefix \o o # <<>> THEN Nil ELSE d.usage
       /\ all["name"] = IF Paths(d.kind) THEN (c.prefix \o p) \o name ELSE name
       /\ all["aliases"] = [x \in DOMAIN l |-> (c.prefix \o o) \o l[x]]
       /\ all["admin"] = (d.admin \/ (d.kind = "command" /\ (admin \/ c.admin)))
       /\ all["enabled"] = (d.enabled /\ (d.kind = "tool" \/ (enabled /\ c.enabled)))
       /\ all["metadata"] = Under(metadata, c.metadata)
       /\ all["handler"] = d.handler /\ all["schema"] = schema
  <2>1. PICK p2, o2, a2, e2, m2 :
          /\ p2 = c.prefix \o p /\ o2 = c.prefix \o o
          /\ a2 = (admin \/ c.admin) /\ e2 = (enabled /\ c.enabled) /\ m2 = Under(metadata, c.metadata)
    OBVIOUS
  <2>2. all = MountedAs(d, p2, o2, a2, e2, m2)
    BY Zenon, <1>8, <2>1
  <2>3. IsMounted(all, d, p2, o2, a2, e2, m2)
    BY <2>2, MountedAsIs
  <2> QED
    BY <1>1, <2>1, <2>3 DEF IsMounted
<1>15. i["aliases"] = all["aliases"]
  BY <1>6, <1>9, <1>10, <1>13, <1>14
<1>16. i["usage"] = all["usage"]
  BY <1>7, <1>9, <1>10, <1>11, <1>13, <1>14
<1>17. i["name"] = all["name"]
  BY <1>4, <1>9, <1>10, <1>13, <1>14
<1>18. i["admin"] = all["admin"] /\ i["enabled"] = all["enabled"]
  <2>1. i["admin"] = ((d.admin \/ (d.kind = "command" /\ admin)) \/ (d.kind = "command" /\ c.admin))
    BY <1>9, <1>10, <1>13
  <2>2. i["enabled"] = ((d.enabled /\ (d.kind = "tool" \/ enabled)) /\ (d.kind = "tool" \/ c.enabled))
    BY <1>9, <1>10, <1>13
  <2> QED
    BY <1>14, <2>1, <2>2
<1>19. i = all
  BY <1>9, <1>10, <1>13, <1>14, <1>15, <1>16, <1>17, <1>18, AlikeIsSame DEF Alike
<1> QED
  BY <1>1, <1>8, <1>19

\* A step that the history of decorators and inclusions can have
SoundEntry(e) ==
  /\ e.to \in Router
  /\ e.declared = Nil => e.from \in Router /\ e.from # e.to
  /\ e.declared # Nil => SoundDeclaration(e.declared) /\ e.to = e.declared.router

\* An inclusion makes of what a way came to what it comes to with the inclusion.
LEMMA MountedIncluded ==
  ASSUME NEW M, NEW h \in Seq(M), \A x \in M : SoundEntry(x), NEW e, SoundEntry(e),
         NEW n \in DOMAIN h, h[n].declared # Nil, NEW w \in SUBSET DOMAIN h
  PROVE  MountedBy(Append(h, e), n, w \cup {Len(h) + 1}) = Included(MountedBy(h, n, w), Config[e.to])
<1>1. PICK g, N, c, on, d :
        /\ g = Append(h, e) /\ N = Len(h) + 1 /\ c = Config[e.to] /\ on = w \cup {n}
        /\ d = h[n].declared
  OBVIOUS
<1>2. /\ N \in Nat /\ g[N] = e /\ on \in SUBSET DOMAIN h /\ \A i \in DOMAIN h : g[i] = h[i] /\ h[i] \in M
      /\ DOMAIN h \subseteq Nat
  BY <1>1
<1>3. /\ SoundDeclaration(d) /\ IsPath(Config[d.router].prefix) /\ IsPath(c.prefix)
      /\ d = g[n].declared
  <2>1. SoundDeclaration(d) /\ d.router \in Router /\ e.to \in Router
    BY <1>1, <1>2 DEF SoundEntry, SoundDeclaration
  <2> QED
    BY <1>1, <1>2, <2>1, RoutesAssumption DEF RoutesAssumption
<1>4. ASSUME NEW S \in SUBSET DOMAIN h
      PROVE  IsPath(PrefixOf(h, S)) /\ PrefixOf(g, S \cup {N}) = c.prefix \o PrefixOf(h, S)
  <2>1. \A i \in S \cap DOMAIN h : IsPath(Config[h[i].to].prefix)
    BY <1>2, RoutesAssumption DEF RoutesAssumption, SoundEntry
  <2>2. IsPath(PrefixOf(h, S))
    BY <2>1, PrefixPath
  <2>3. \A R \in SUBSET DOMAIN h :
          PrefixOf(Append(h, e), R \cup {Len(h) + 1}) = Config[e.to].prefix \o PrefixOf(h, R)
    BY PrefixGrows
  <2> QED
    BY <1>1, <2>2, <2>3
<1>5. PICK p, o, admin, enabled, metadata :
        /\ p = PrefixOf(h, on) /\ o = PrefixOf(h, w) /\ admin = AdminBy(h, on)
        /\ enabled = EnabledBy(h, on) /\ metadata = MetadataBy(h, d, on)
  OBVIOUS
<1>6. MountedBy(h, n, w) = MountedAs(d, p, o, admin, enabled, metadata)
  BY <1>1, <1>5, MountedIs
<1>7. PICK on2, w2 : on2 = w2 \cup {n} /\ w2 = w \cup {N}
  OBVIOUS
<1>8. on2 = on \cup {N}
  BY <1>1, <1>7
<1>9. PrefixOf(g, on2) = c.prefix \o p /\ PrefixOf(g, w2) = c.prefix \o o
  BY <1>2, <1>4, <1>5, <1>7, <1>8
<1>10. AdminBy(g, on2) = (admin \/ c.admin) /\ EnabledBy(g, on2) = (enabled /\ c.enabled)
  <2>1. \A i \in on : g[i] = h[i]
    BY <1>2
  <2>2. AdminBy(g, on2) = ((\E i \in on : Config[h[i].to].admin) \/ Config[e.to].admin)
    BY <1>2, <1>8, <2>1 DEF AdminBy
  <2>3. EnabledBy(g, on2) = ((\A i \in on : Config[h[i].to].enabled) /\ Config[e.to].enabled)
    BY <1>2, <1>8, <2>1 DEF EnabledBy
  <2> QED
    BY <1>1, <1>5, <2>2, <2>3 DEF AdminBy, EnabledBy
<1>11. MetadataBy(g, d, on2) = Under(metadata, c.metadata)
  <2>1. Later(h, g, N, on)
    BY <1>1, <1>2 DEF Later
  <2>2. PICK settings : settings = Config[e.to].metadata /\ settings = c.metadata
    BY <1>1, <1>2
  <2>3. settings = Config[g[N].to].metadata
    BY <1>2, <2>2
  <2>4. PICK S2, x : S2 = on \cup {N} /\ x = MetadataBy(g, d, S2) /\ x = Under(metadata, settings)
    BY <1>5, <2>1, <2>3, MetadataGrows
  <2> QED
    BY <1>8, <2>2, <2>4
<1>12. PICK p2, o2, a2, e2, m2 :
         /\ p2 = c.prefix \o p /\ o2 = c.prefix \o o /\ a2 = (admin \/ c.admin)
         /\ e2 = (enabled /\ c.enabled) /\ m2 = Under(metadata, c.metadata)
  OBVIOUS
<1>13. MountedBy(g, n, w2) = MountedAs(d, p2, o2, a2, e2, m2)
  <2>1. MountedBy(g, n, w2) = MountedAs(d, PrefixOf(g, on2), PrefixOf(g, w2), AdminBy(g, on2),
                                        EnabledBy(g, on2), MetadataBy(g, d, on2))
    BY <1>3, <1>7, MountedIs
  <2> QED
    BY Zenon, <1>9, <1>10, <1>11, <1>12, <2>1
<1>14. Included(MountedAs(d, p, o, admin, enabled, metadata), c) = MountedAs(d, p2, o2, a2, e2, m2)
  <2>1. IsPath(p) /\ IsPath(o)
    BY <1>2, <1>4, <1>5
  <2>2. Included(MountedAs(d, p, o, admin, enabled, metadata), c) =
          MountedAs(d, c.prefix \o p, c.prefix \o o, admin \/ c.admin, enabled /\ c.enabled,
                    Under(metadata, c.metadata))
    BY <1>3, <2>1, IncludedAs
  <2> QED
    BY Zenon, <1>12, <2>2
<1> QED
  BY <1>1, <1>6, <1>7, <1>13, <1>14

\* What is mounted of a declaration is of its kind.
LEMMA MountedKind ==
  ASSUME NEW h, NEW n, NEW w
  PROVE  MountedBy(h, n, w).kind = h[n].declared.kind
BY DEF MountedBy

-----------------------------------------------------------------------------
(* The ways of a declaration, as the history goes on. *)

IsWay(h, n, r, way) ==
  /\ way \subseteq n + 1 .. Len(h)
  /\ \A i \in way : h[i].declared = Nil
  /\ \A i \in way \cup {n}, j \in way :
       i < j /\ ~ (\E m \in way : i < m /\ m < j) => h[j].from = h[i].to
  /\ \A i \in way \cup {n} : (\A j \in way : j <= i) => h[i].to = r

LEMMA WaysAre ==
  ASSUME NEW h, NEW n, NEW r, NEW way
  PROVE  way \in Ways(h, n, r) <=> IsWay(h, n, r, way)
BY DEF Ways, IsWay

\* A step that is not on it does not change a way.
LEMMA WayStays ==
  ASSUME NEW M, NEW h \in Seq(M), NEW e, NEW g, g = Append(h, e), NEW n \in DOMAIN h, NEW r, NEW way,
         Len(h) + 1 \notin way
  PROVE  IsWay(g, n, r, way) <=> IsWay(h, n, r, way)
<1>1. /\ Len(h) \in Nat /\ Len(g) = Len(h) + 1 /\ \A i \in 1 .. Len(h) : g[i] = h[i]
      /\ n \in 1 .. Len(h)
  OBVIOUS
<1>2. way \subseteq n + 1 .. Len(g) <=> way \subseteq n + 1 .. Len(h)
  BY <1>1
<1>3. ASSUME way \subseteq n + 1 .. Len(h) PROVE \A i \in way \cup {n} : g[i] = h[i]
  BY <1>1, <1>3
<1> QED
  BY <1>2, <1>3 DEF IsWay

\* A declaration adds one way, of itself: the one without inclusions.
LEMMA WaysDeclare ==
  ASSUME NEW M, NEW h \in Seq(M), NEW e, e.declared # Nil, NEW g, g = Append(h, e)
  PROVE  /\ \A n \in DOMAIN h : \A r, way : IsWay(g, n, r, way) <=> IsWay(h, n, r, way)
         /\ \A r, way : IsWay(g, Len(h) + 1, r, way) <=> way = {} /\ r = e.to
<1>1. PICK N : N = Len(h) + 1
  OBVIOUS
<1>2. /\ Len(h) \in Nat /\ Len(g) = N /\ g[N] = e /\ N \in Nat
  BY <1>1
<1>3. ASSUME NEW n \in DOMAIN h, NEW r, NEW way
      PROVE  IsWay(g, n, r, way) <=> IsWay(h, n, r, way)
  <2>1. IsWay(g, n, r, way) => N \notin way
    BY <1>2 DEF IsWay
  <2>2. IsWay(h, n, r, way) => N \notin way
    BY <1>1, <1>2 DEF IsWay
  <2>3. N \notin way => (IsWay(g, n, r, way) <=> IsWay(h, n, r, way))
    BY <1>1, WayStays
  <2> QED
    BY <2>1, <2>2, <2>3
<1>4. ASSUME NEW r, NEW way
      PROVE  IsWay(g, N, r, way) <=> way = {} /\ r = e.to
  <2>1. N + 1 .. Len(g) = {}
    BY <1>2
  <2>2. IsWay(g, N, r, way) => way = {}
    BY <2>1 DEF IsWay
  <2>3. way = {} => (IsWay(g, N, r, way) <=> g[N].to = r)
    BY DEF IsWay
  <2> QED
    BY <1>2, <2>2, <2>3
<1> QED
  BY <1>1, <1>3, <1>4

Longer(h, n, r, way, step) == \E w : IsWay(h, n, r, w) /\ way = w \cup {step}

\* An inclusion adds, to each way to the router it includes, the way longer by its step.
LEMMA WaysInclude ==
  ASSUME NEW M, NEW h \in Seq(M), NEW e, e.declared = Nil, NEW g, g = Append(h, e)
  PROVE  \A n \in DOMAIN h : \A r, way :
           IsWay(g, n, r, way) <=> IsWay(h, n, r, way) \/ (r = e.to /\ Longer(h, n, e.from, way, Len(h) + 1))
<1> SUFFICES ASSUME NEW n \in DOMAIN h, NEW r, NEW way
             PROVE  IsWay(g, n, r, way) <=>
                      IsWay(h, n, r, way) \/ (r = e.to /\ Longer(h, n, e.from, way, Len(h) + 1))
  OBVIOUS
<1>1. PICK N : N = Len(h) + 1
  OBVIOUS
<1>2. /\ Len(h) \in Nat /\ Len(g) = N /\ g[N] = e /\ N \in Nat /\ \A i \in 1 .. Len(h) : g[i] = h[i]
      /\ n \in 1 .. Len(h) /\ n < N /\ n \in Nat /\ N = Len(h) + 1
  BY <1>1
<1>3. ASSUME IsWay(g, n, r, way), N \in way
      PROVE  r = e.to /\ \E w : IsWay(h, n, e.from, w) /\ way = w \cup {N}
  <2>1. PICK w : w = way \ {N}
    OBVIOUS
  <2>2. /\ way = w \cup {N} /\ N \notin w /\ w \subseteq n + 1 .. Len(h)
        /\ \A i \in way : i \in Nat /\ i <= N /\ n < i
    <3>1. way \subseteq n + 1 .. N
      BY <1>2, <1>3 DEF IsWay
    <3>2. \A i \in way : i \in Nat /\ i <= N /\ n < i
      BY <1>2, <3>1
    <3>3. way = w \cup {N} /\ N \notin w /\ w \subseteq way
      BY <1>3, <2>1
    <3>4. \A i \in w : i \in n + 1 .. Len(h)
      BY <1>2, <3>2, <3>3
    <3> QED
      BY <3>2, <3>3, <3>4
  <2>3. \A i \in w \cup {n} : i < N /\ i \in Nat /\ g[i] = h[i]
    BY <1>2, <2>2
  <2>4. r = e.to
    BY <1>2, <1>3, <2>2 DEF IsWay
  <2>5. \A i \in w : h[i].declared = Nil
    BY <1>3, <2>2, <2>3 DEF IsWay
  <2>6. ASSUME NEW i \in w \cup {n}, NEW j \in w, i < j, ~ (\E m \in w : i < m /\ m < j)
        PROVE  h[j].from = h[i].to
    <3>1. ~ (\E m \in way : i < m /\ m < j)
      BY <1>2, <2>2, <2>3, <2>6
    <3>2. i \in way \cup {n} /\ j \in way
      BY <2>2
    <3>3. g[j].from = g[i].to
      BY <1>3, <2>6, <3>1, <3>2 DEF IsWay
    <3> QED
      BY <2>3, <3>3
  <2>7. ASSUME NEW i \in w \cup {n}, \A j \in w : j <= i
        PROVE  h[i].to = e.from
    <3>1. i < N /\ i \in way \cup {n} /\ ~ (\E m \in way : i < m /\ m < N)
      BY <1>2, <2>2, <2>3, <2>7
    <3>2. g[N].from = g[i].to
      BY <1>3, <3>1 DEF IsWay
    <3> QED
      BY <1>2, <2>3, <3>2
  <2>8. IsWay(h, n, e.from, w)
    BY <2>2, <2>5, <2>6, <2>7 DEF IsWay
  <2> QED
    BY <2>2, <2>4, <2>8
<1>4. ASSUME NEW w, IsWay(h, n, e.from, w), way = w \cup {N}, r = e.to
      PROVE  IsWay(g, n, r, way)
  <2>1. /\ w \subseteq n + 1 .. Len(h) /\ N \notin w
        /\ \A i \in w \cup {n} : i < N /\ i \in Nat /\ g[i] = h[i]
        /\ \A i \in way \cup {n} : i \in Nat /\ i <= N
    <3>1. w \subseteq n + 1 .. Len(h)
      BY <1>4 DEF IsWay
    <3>2. \A i \in w \cup {n} : i \in 1 .. Len(h) /\ i < N /\ i \in Nat
      BY <1>2, <3>1
    <3> QED
      BY <1>2, <1>4, <3>1, <3>2
  <2>2. way \subseteq n + 1 .. Len(g)
    <3>1. \A i \in w : i \in n + 1 .. Len(h)
      BY <1>4 DEF IsWay
    <3>2. \A i \in w : i \in n + 1 .. N
      BY <1>2, <3>1
    <3>3. N \in n + 1 .. N
      BY <1>2
    <3> QED
      BY <1>2, <1>4, <3>2, <3>3
  <2>3. \A i \in way : g[i].declared = Nil
    BY <1>2, <1>4, <2>1 DEF IsWay
  <2>4. ASSUME NEW i \in way \cup {n}, NEW j \in way, i < j, ~ (\E m \in way : i < m /\ m < j)
        PROVE  g[j].from = g[i].to
    <3>1. i \in w \cup {n}
      BY <1>2, <1>4, <2>1, <2>4
    <3>2. CASE j = N
      <4>1. \A m \in w : m <= i
        BY <1>4, <2>1, <2>4, <3>1, <3>2
      <4>2. h[i].to = e.from
        BY <1>4, <3>1, <4>1 DEF IsWay
      <4> QED
        BY <1>2, <2>1, <3>1, <3>2, <4>2
    <3>3. CASE j \in w
      <4>1. ~ (\E m \in w : i < m /\ m < j)
        BY <1>4, <2>4
      <4>2. h[j].from = h[i].to
        BY <1>4, <2>4, <3>1, <3>3, <4>1 DEF IsWay
      <4> QED
        BY <2>1, <3>1, <3>3, <4>2
    <3> QED
      BY <1>4, <3>2, <3>3
  <2>5. ASSUME NEW i \in way \cup {n}, \A j \in way : j <= i
        PROVE  g[i].to = r
    <3>1. i = N
      BY <1>2, <1>4, <2>1, <2>5
    <3> QED
      BY <1>2, <1>4, <3>1
  <2> QED
    BY <2>2, <2>3, <2>4, <2>5 DEF IsWay
<1>5. N \notin way => (IsWay(g, n, r, way) <=> IsWay(h, n, r, way))
  BY <1>1, WayStays
<1>6. IsWay(h, n, r, way) => N \notin way
  BY <1>2 DEF IsWay
<1> QED
  BY <1>1, <1>3, <1>4, <1>5, <1>6 DEF Longer

-----------------------------------------------------------------------------
(* A list has what a set of declarations and ways comes to, each once. *)

IsList(s) == \E M : s \in Seq(M)

At(h, m) == MountedBy(h, m[1], m[2])

\* b is a bijection of S and E.
Pairs(b, S, E) ==
  /\ DOMAIN b = S /\ \A i \in S : b[i] \in E
  /\ \A i, j \in S : b[i] = b[j] => i = j
  /\ \A m \in E : \E i \in S : b[i] = m

\* The list s has, for each entry of E (a declaration and a way), what it comes to.
Lists(s, E, h) ==
  /\ IsList(s)
  /\ \E b : Pairs(b, 1 .. Len(s), E) /\ \A i \in 1 .. Len(s) : s[i] = At(h, b[i])

LEMMA ListsNone == ASSUME NEW h PROVE Lists(<<>>, {}, h)
<1>1. <<>> \in Seq({}) /\ Len(<<>>) = 0 /\ 1 .. 0 = {}
  OBVIOUS
<1>2. Pairs(<<>>, {}, {})
  <2>1. DOMAIN <<>> = {}
    BY <1>1
  <2> QED
    BY <2>1 DEF Pairs
<1> QED
  BY <1>1, <1>2 DEF Lists, IsList

LEMMA ListsOne ==
  ASSUME NEW h, NEW m, NEW x, x = At(h, m)
  PROVE  Lists(<<x>>, {m}, h)
<1>1. PICK s : s = <<x>>
  OBVIOUS
<1>2. s \in Seq({x}) /\ Len(s) = 1 /\ 1 .. 1 = {1} /\ s[1] = x
  BY <1>1
<1>3. PICK b : b = [i \in {1} |-> m]
  OBVIOUS
<1>4. Pairs(b, 1 .. Len(s), {m}) /\ \A i \in 1 .. Len(s) : s[i] = At(h, b[i])
  BY <1>2, <1>3 DEF Pairs
<1> QED
  BY <1>1, <1>2, <1>4 DEF Lists, IsList

\* Both lists, one after the other
Together(x, s, t) ==
  /\ IsList(x) /\ Len(s) \in Nat /\ Len(t) \in Nat /\ Len(x) = Len(s) + Len(t)
  /\ DOMAIN s = 1 .. Len(s) /\ DOMAIN t = 1 .. Len(t) /\ DOMAIN x = 1 .. Len(x)
  /\ \A i \in 1 .. Len(s) : x[i] = s[i]
  /\ \A i \in 1 .. Len(t) : x[Len(s) + i] = t[i]
  /\ \A i \in 1 .. Len(x) : i > Len(s) => i - Len(s) \in 1 .. Len(t) /\ x[i] = t[i - Len(s)]

LEMMA ConcatIs ==
  ASSUME NEW s, IsList(s), NEW t, IsList(t)
  PROVE  Together(s \o t, s, t)
<1> DEFINE x == s \o t
<1>1. PICK M : s \in Seq(M)
  BY DEF IsList
<1>2. PICK N : t \in Seq(N)
  BY DEF IsList
<1>3. PICK O : O = M \cup N
  OBVIOUS
<1>4. s \in Seq(O) /\ t \in Seq(O)
  BY <1>1, <1>2, <1>3
<1>5. /\ x \in Seq(O) /\ Len(s) \in Nat /\ Len(t) \in Nat /\ Len(x) = Len(s) + Len(t)
      /\ DOMAIN s = 1 .. Len(s) /\ DOMAIN t = 1 .. Len(t) /\ DOMAIN x = 1 .. Len(x)
  BY <1>4
<1>6. \A i \in 1 .. Len(s) : x[i] = s[i]
  BY <1>4, <1>5
<1>7. \A i \in 1 .. Len(x) : i > Len(s) => i - Len(s) \in 1 .. Len(t) /\ x[i] = t[i - Len(s)]
  BY <1>4, <1>5
<1>8. ASSUME NEW i \in 1 .. Len(t) PROVE x[Len(s) + i] = t[i]
  <2>1. Len(s) + i \in 1 .. Len(x) /\ Len(s) + i > Len(s) /\ (Len(s) + i) - Len(s) = i
    BY <1>5
  <2>2. x[Len(s) + i] = t[(Len(s) + i) - Len(s)]
    BY <1>7, <2>1
  <2> QED
    BY <2>1, <2>2
<1> QED
  BY <1>5, <1>6, <1>7, <1>8 DEF IsList, Together

LEMMA ListsConcat ==
  ASSUME NEW h, NEW s, NEW E, Lists(s, E, h), NEW t, NEW F, Lists(t, F, h), E \cap F = {}
  PROVE  Lists(s \o t, E \cup F, h)
<1>1. PICK a, n : Pairs(a, 1 .. n, E) /\ n = Len(s) /\ \A i \in 1 .. n : s[i] = At(h, a[i])
  BY DEF Lists
<1>2. PICK b, k : Pairs(b, 1 .. k, F) /\ k = Len(t) /\ \A i \in 1 .. k : t[i] = At(h, b[i])
  BY DEF Lists
<1>3. PICK x : x = s \o t
  OBVIOUS
<1>4. /\ IsList(x) /\ n \in Nat /\ k \in Nat /\ Len(x) = n + k
      /\ \A i \in 1 .. n : x[i] = s[i]
      /\ \A i \in 1 .. n + k : i > n => i - n \in 1 .. k /\ x[i] = t[i - n]
  <2>1. IsList(s) /\ IsList(t)
    BY DEF Lists
  <2> QED
    <3>1. Together(x, s, t)
      BY <1>3, <2>1, ConcatIs
    <3> QED
      BY <1>1, <1>2, <3>1 DEF Together
<1>5. PICK c : c = [i \in 1 .. n + k |-> IF i <= n THEN a[i] ELSE b[i - n]]
  OBVIOUS
<1>6. \A i \in 1 .. n + k : IF i <= n THEN i \in 1 .. n /\ c[i] = a[i]
                            ELSE i - n \in 1 .. k /\ c[i] = b[i - n] /\ i > n
  BY <1>4, <1>5
<1>7. \A i \in 1 .. n + k : c[i] \in E \cup F
  BY <1>1, <1>2, <1>6 DEF Pairs
<1>8. ASSUME NEW i \in 1 .. n + k, NEW j \in 1 .. n + k, c[i] = c[j]
      PROVE  i = j
  <2>1. CASE i <= n /\ j <= n
    BY <1>1, <1>6, <1>8, <2>1 DEF Pairs
  <2>2. CASE ~ (i <= n) /\ ~ (j <= n)
    <3>1. i - n \in 1 .. k /\ j - n \in 1 .. k /\ b[i - n] = b[j - n]
      BY <1>6, <1>8, <2>2
    <3>2. i - n = j - n
      BY <1>2, <3>1 DEF Pairs
    <3> QED
      BY <1>4, <3>2
  <2>3. CASE i <= n /\ ~ (j <= n)
    BY <1>1, <1>2, <1>6, <1>8, <2>3 DEF Pairs
  <2>4. CASE ~ (i <= n) /\ j <= n
    BY <1>1, <1>2, <1>6, <1>8, <2>4 DEF Pairs
  <2> QED
    BY <2>1, <2>2, <2>3, <2>4
<1>9. ASSUME NEW m \in E \cup F PROVE \E i \in 1 .. n + k : c[i] = m
  <2>1. CASE m \in E
    <3>1. PICK i \in 1 .. n : a[i] = m
      BY <1>1, <2>1 DEF Pairs
    <3>2. i \in 1 .. n + k /\ i <= n
      BY <1>4
    <3> QED
      BY <1>6, <3>1, <3>2
  <2>2. CASE m \in F
    <3>1. PICK i \in 1 .. k : b[i] = m
      BY <1>2, <2>2 DEF Pairs
    <3>2. n + i \in 1 .. n + k /\ ~ (n + i <= n) /\ (n + i) - n = i
      BY <1>4
    <3>3. c[n + i] = b[(n + i) - n]
      BY <1>6, <3>2
    <3> QED
      BY <3>1, <3>2, <3>3
  <2> QED
    BY <2>1, <2>2
<1>10. \A i \in 1 .. n + k : x[i] = At(h, c[i])
  BY <1>1, <1>2, <1>4, <1>6
<1>11. Pairs(c, 1 .. n + k, E \cup F)
  BY <1>5, <1>7, <1>8, <1>9 DEF Pairs
<1> QED
  BY <1>3, <1>4, <1>10, <1>11 DEF Lists

\* x is as often in the list as entries come to it.
AsOften(s, E, v, x) ==
  Cardinality({i \in DOMAIN s : s[i] = x}) = Cardinality({m \in E : v[m] = x})

LEMMA ListsCount ==
  ASSUME NEW s, NEW E, NEW h, Lists(s, E, h), NEW v, v = [m \in E |-> At(h, m)], NEW x
  PROVE  AsOften(s, E, v, x)
<1>1. PICK b, n : Pairs(b, 1 .. n, E) /\ n = Len(s) /\ \A i \in 1 .. n : s[i] = At(h, b[i])
  BY DEF Lists
<1>2. n \in Nat /\ DOMAIN s = 1 .. n
  <2>1. PICK M : s \in Seq(M)
    BY DEF Lists, IsList
  <2> QED
    BY <1>1, <2>1
<1>3. PICK S, T : S = {i \in 1 .. n : s[i] = x} /\ T = {m \in E : v[m] = x}
  OBVIOUS
<1>4. PICK c : c = [i \in S |-> b[i]]
  OBVIOUS
<1>5. \A i \in 1 .. n : b[i] \in E /\ v[b[i]] = s[i]
  BY <1>1 DEF Pairs
<1>6. \A i \in S : i \in 1 .. n /\ s[i] = x
  BY <1>3
<1>7. \A m \in T : m \in E /\ v[m] = x
  BY <1>3
<1>8. c \in [S -> T]
  BY <1>3, <1>4, <1>5, <1>6
<1>9. \A i, j \in S : c[i] = c[j] => i = j
  BY <1>1, <1>4, <1>6 DEF Pairs
<1>10. ASSUME NEW m \in T PROVE \E i \in S : c[i] = m
  <2>1. PICK i \in 1 .. n : b[i] = m
    BY <1>1, <1>7 DEF Pairs
  <2> QED
    BY <1>3, <1>4, <1>5, <1>7, <2>1
<1>11. c \in Bijection(S, T)
  BY <1>8, <1>9, <1>10 DEF Bijection, Injection, Surjection, IsInjective
<1>12. IsFiniteSet(S)
  <2>1. IsFiniteSet(1 .. n)
    BY <1>2, FS_Interval
  <2> QED
    BY <1>3, <2>1, FS_Subset
<1>13. Cardinality(T) = Cardinality(S)
  BY <1>11, <1>12, FS_Bijection DEF ExistsBijection
<1> QED
  BY <1>2, <1>3, <1>13 DEF AsOften

\* Entries of declarations of a kind with their ways to a router
Entries(h, r, k) ==
  {m \in (DOMAIN h) \X (SUBSET DOMAIN h) :
     h[m[1]].declared # Nil /\ h[m[1]].declared.kind = k /\ IsWay(h, m[1], r, m[2])}

Further(E, n) == {<<m[1], m[2] \cup {n}>> : m \in E}

\* A list stays right, whatever happens next.
LEMMA ListsGrow ==
  ASSUME NEW M, NEW h \in Seq(M), NEW e, NEW s, NEW E, E \subseteq (DOMAIN h) \X (SUBSET DOMAIN h),
         Lists(s, E, h)
  PROVE  Lists(s, E, Append(h, e))
<1>1. PICK b, n : Pairs(b, 1 .. n, E) /\ n = Len(s) /\ \A i \in 1 .. n : s[i] = At(h, b[i])
  BY DEF Lists
<1>2. ASSUME NEW i \in 1 .. n PROVE s[i] = At(Append(h, e), b[i])
  <2>1. PICK m : m = b[i] /\ m \in E
    BY <1>1 DEF Pairs
  <2>2. PICK p, w : p = m[1] /\ w = m[2]
    OBVIOUS
  <2>3. p \in DOMAIN h /\ w \in SUBSET DOMAIN h
    BY <2>1, <2>2
  <2>4. MountedBy(Append(h, e), p, w) = MountedBy(h, p, w)
    BY <2>3, MountedGrows
  <2> QED
    BY <1>1, <2>1, <2>2, <2>4 DEF At
<1> QED
  BY <1>1, <1>2 DEF Lists

\* What is copied from a list is right for the longer ways.
LEMMA ListsInclude ==
  ASSUME NEW M, NEW h \in Seq(M), \A x \in M : SoundEntry(x), NEW e, SoundEntry(e),
         NEW s, NEW E, E \subseteq (DOMAIN h) \X (SUBSET DOMAIN h),
         \A m \in E : h[m[1]].declared # Nil, Lists(s, E, h),
         NEW t, t = [i \in DOMAIN s |-> Included(s[i], Config[e.to])]
  PROVE  Lists(t, Further(E, Len(h) + 1), Append(h, e))
<1>1. PICK b, n : Pairs(b, 1 .. n, E) /\ n = Len(s) /\ \A i \in 1 .. n : s[i] = At(h, b[i])
  BY DEF Lists
<1>2. n \in Nat /\ DOMAIN s = 1 .. n
  <2>1. PICK O : s \in Seq(O)
    BY DEF Lists, IsList
  <2> QED
    BY <1>1, <2>1
<1>3. PICK O : O = {Included(s[i], Config[e.to]) : i \in 1 .. n}
  OBVIOUS
<1>4. t \in Seq(O) /\ Len(t) = n
  <2>1. \A i \in 1 .. n : t[i] \in O
    BY <1>2, <1>3
  <2>2. t = [i \in 1 .. n |-> t[i]]
    BY <1>2
  <2> QED
    BY <1>2, <2>1, <2>2
<1>5. PICK N, g : N = Len(h) + 1 /\ g = Append(h, e)
  OBVIOUS
<1>6. PICK F : F = Further(E, N)
  OBVIOUS
<1>7. PICK c : c = [i \in 1 .. n |-> <<b[i][1], b[i][2] \cup {N}>>]
  OBVIOUS
<1>8. \A i \in 1 .. n : b[i] \in E
  BY <1>1 DEF Pairs
<1>9. \A i \in 1 .. n : c[i] \in F
  BY <1>6, <1>7, <1>8 DEF Further
<1>10. \A m \in E : /\ m[1] \in DOMAIN h /\ m[2] \in SUBSET DOMAIN h /\ N \notin m[2]
                    /\ m = <<m[1], m[2]>>
  <2>1. N \notin DOMAIN h
    BY <1>5
  <2> QED
    BY <2>1
<1>11. ASSUME NEW i \in 1 .. n, NEW j \in 1 .. n, c[i] = c[j]
       PROVE  i = j
  <2>1. PICK x, y : x = b[i] /\ y = b[j] /\ x \in E /\ y \in E
    BY <1>8
  <2>2. c[i] = <<x[1], x[2] \cup {N}>> /\ c[j] = <<y[1], y[2] \cup {N}>>
    BY <1>7, <2>1
  <2>3. PICK p, q, u, v : p = x[1] /\ q = y[1] /\ u = x[2] \cup {N} /\ v = y[2] \cup {N}
    OBVIOUS
  <2>4. <<p, u>> = <<q, v>>
    BY <1>11, <2>2, <2>3
  <2>5. x[1] = y[1] /\ x[2] = y[2]
    <3>1. p = q /\ u = v
      BY <2>4
    <3>2. N \notin x[2] /\ N \notin y[2]
      BY <1>10, <2>1
    <3>3. \A z : z \in x[2] <=> z \in u /\ z # N
      BY <2>3, <3>2
    <3>4. \A z : z \in y[2] <=> z \in u /\ z # N
      BY <2>3, <3>1, <3>2
    <3>5. x[2] = y[2]
      BY <3>3, <3>4
    <3> QED
      BY <2>3, <3>1, <3>5
  <2>6. x = y
    BY <1>10, <2>1, <2>5
  <2> QED
    BY <1>1, <2>1, <2>6 DEF Pairs
<1>12. ASSUME NEW m \in F PROVE \E i \in 1 .. n : c[i] = m
  <2>1. PICK x \in E : m = <<x[1], x[2] \cup {N}>>
    BY <1>6 DEF Further
  <2>2. PICK i \in 1 .. n : b[i] = x
    BY <1>1 DEF Pairs
  <2> QED
    BY <1>7, <2>1, <2>2
<1>13. ASSUME NEW i \in 1 .. n PROVE t[i] = At(g, c[i])
  <2>1. PICK m, p, w : m = b[i] /\ p = m[1] /\ w = m[2] /\ m \in E
    BY <1>8
  <2>2. p \in DOMAIN h /\ w \in SUBSET DOMAIN h /\ h[p].declared # Nil
    BY <1>10, <2>1
  <2>3. MountedBy(Append(h, e), p, w \cup {Len(h) + 1}) = Included(MountedBy(h, p, w), Config[e.to])
    BY <2>2, MountedIncluded
  <2>4. t[i] = Included(s[i], Config[e.to]) /\ s[i] = MountedBy(h, p, w)
    BY <1>1, <1>2, <2>1 DEF At
  <2>5. c[i] = <<p, w \cup {N}>>
    BY <1>7, <2>1
  <2>6. At(g, c[i]) = MountedBy(g, p, w \cup {N})
    BY <2>5 DEF At
  <2> QED
    BY <1>5, <2>3, <2>4, <2>6
<1>14. Pairs(c, 1 .. n, F)
  BY <1>7, <1>9, <1>11, <1>12 DEF Pairs
<1>15. Lists(t, F, g)
  BY <1>4, <1>13, <1>14 DEF Lists, IsList
<1> QED
  BY <1>5, <1>6, <1>15

\* What there is to list, as the history goes on.
LEMMA EntriesNone == ASSUME NEW r, NEW k PROVE Entries(<<>>, r, k) = {}
<1>1. DOMAIN <<>> = {}
  OBVIOUS
<1> QED
  BY <1>1 DEF Entries

LEMMA EntriesIn ==
  ASSUME NEW h, NEW r, NEW k
  PROVE  /\ Entries(h, r, k) \subseteq (DOMAIN h) \X (SUBSET DOMAIN h)
         /\ \A m \in Entries(h, r, k) : h[m[1]].declared # Nil /\ h[m[1]].declared.kind = k
BY DEF Entries

EntryAt(h, r, k, n, w) ==
  /\ n \in DOMAIN h /\ w \in SUBSET DOMAIN h
  /\ h[n].declared # Nil /\ h[n].declared.kind = k /\ IsWay(h, n, r, w)

LEMMA IsEntry ==
  ASSUME NEW h, NEW r, NEW k, NEW n, NEW w, NEW m, m = <<n, w>>
  PROVE  m \in Entries(h, r, k) <=> EntryAt(h, r, k, n, w)
BY DEF Entries, EntryAt

\* A way of a step in the history is made of steps of it.
LEMMA WayIn ==
  ASSUME NEW M, NEW h \in Seq(M), NEW n \in DOMAIN h, NEW r, NEW w, IsWay(h, n, r, w)
  PROVE  w \in SUBSET DOMAIN h
<1>1. w \subseteq n + 1 .. Len(h) /\ Len(h) \in Nat /\ n \in Nat /\ DOMAIN h = 1 .. Len(h)
  BY DEF IsWay
<1>2. n + 1 .. Len(h) \subseteq 1 .. Len(h)
  BY <1>1
<1> QED
  BY <1>1, <1>2

\* What a step adds to the entries of router r and kind k
DeclaredAt(e, n, r, k) == IF r = e.to /\ k = e.declared.kind THEN {<<n, {}>>} ELSE {}
IncludedAt(h, e, n, r, k) == IF r = e.to THEN Further(Entries(h, e.from, k), n) ELSE {}

Declaring(h, g, e) == g = Append(h, e) /\ e.declared # Nil
Including(h, g, e) == g = Append(h, e) /\ e.declared = Nil

LEMMA EntriesDeclare ==
  ASSUME NEW M, NEW h \in Seq(M), NEW e, NEW g, Declaring(h, g, e), NEW r, NEW k
  PROVE  Entries(g, r, k) = Entries(h, r, k) \cup DeclaredAt(e, Len(h) + 1, r, k)
<1> USE DEF DeclaredAt, Declaring
<1>1. PICK N, new : N = Len(h) + 1 /\ new = IF r = e.to /\ k = e.declared.kind THEN {<<N, {}>>} ELSE {}
  OBVIOUS
<1>2. /\ g[N] = e /\ DOMAIN g = DOMAIN h \cup {N} /\ N \notin DOMAIN h
      /\ \A i \in DOMAIN h : g[i] = h[i]
  BY <1>1
<1>3. g \in Seq(M \cup {e})
  OBVIOUS
<1>4. ASSUME NEW n, NEW w, NEW m, m = <<n, w>>
      PROVE  m \in Entries(g, r, k) <=> m \in Entries(h, r, k) \cup new
  <2>1. /\ m \in Entries(g, r, k) <=> EntryAt(g, r, k, n, w)
        /\ m \in Entries(h, r, k) <=> EntryAt(h, r, k, n, w)
    BY <1>4, IsEntry
  <2>2. CASE n \in DOMAIN h
    <3>1. IsWay(g, n, r, w) <=> IsWay(h, n, r, w)
      BY <2>2, WaysDeclare
    <3>2. IsWay(h, n, r, w) => w \in SUBSET DOMAIN h
      BY <2>2, WayIn
    <3>3. m \notin new
      BY <1>1, <1>2, <1>4, <2>2
    <3>4. EntryAt(g, r, k, n, w) <=> EntryAt(h, r, k, n, w)
      BY <1>2, <2>2, <3>1, <3>2 DEF EntryAt
    <3> QED
      BY <2>1, <3>3, <3>4
  <2>3. CASE n = N
    <3>1. IsWay(g, n, r, w) <=> w = {} /\ r = e.to
      BY <1>1, <2>3, WaysDeclare
    <3>2. ~ EntryAt(h, r, k, n, w)
      BY <1>2, <2>3 DEF EntryAt
    <3>3. EntryAt(g, r, k, n, w) <=> w = {} /\ r = e.to /\ e.declared.kind = k
      BY <1>2, <2>3, <3>1 DEF EntryAt
    <3>4. m \in new <=> w = {} /\ r = e.to /\ e.declared.kind = k
      BY <1>1, <1>4, <2>3
    <3> QED
      BY <2>1, <3>2, <3>3, <3>4
  <2>4. CASE n \notin DOMAIN g
    <3>1. n \notin DOMAIN h /\ n # N
      BY <1>2, <2>4
    <3>2. ~ EntryAt(g, r, k, n, w) /\ ~ EntryAt(h, r, k, n, w)
      BY <2>4, <3>1 DEF EntryAt
    <3>3. m \notin new
      BY <1>1, <1>4, <3>1
    <3> QED
      BY <2>1, <3>2, <3>3
  <2> QED
    BY <1>2, <2>2, <2>3, <2>4
<1>5. \A m \in Entries(g, r, k) \cup Entries(h, r, k) \cup new : m = <<m[1], m[2]>>
  BY <1>1, EntriesIn
<1> QED
  BY <1>1, <1>4, <1>5

LEMMA EntriesInclude ==
  ASSUME NEW M, NEW h \in Seq(M), NEW e, NEW g, Including(h, g, e), NEW r, NEW k
  PROVE  Entries(g, r, k) = Entries(h, r, k) \cup IncludedAt(h, e, Len(h) + 1, r, k)
<1> USE DEF IncludedAt, Including
<1>1. PICK N, new : N = Len(h) + 1 /\ new = IF r = e.to THEN Further(Entries(h, e.from, k), N) ELSE {}
  OBVIOUS
<1>2. /\ g[N] = e /\ DOMAIN g = DOMAIN h \cup {N} /\ N \notin DOMAIN h
      /\ \A i \in DOMAIN h : g[i] = h[i]
  BY <1>1
<1>3. ASSUME NEW n, NEW w, NEW v, v = <<n, w>>
      PROVE  v \in new <=>
        /\ r = e.to /\ n \in DOMAIN h /\ h[n].declared # Nil /\ h[n].declared.kind = k
        /\ Longer(h, n, e.from, w, N)
  <2>1. ASSUME v \in new
        PROVE  /\ r = e.to /\ n \in DOMAIN h /\ h[n].declared # Nil /\ h[n].declared.kind = k
               /\ Longer(h, n, e.from, w, N)
    <3>1. r = e.to /\ v \in Further(Entries(h, e.from, k), N)
      BY <1>1, <2>1
    <3>2. PICK m \in Entries(h, e.from, k) : v = <<m[1], m[2] \cup {N}>>
      BY <3>1 DEF Further
    <3>3. PICK x, y : x = m[2] /\ y = x \cup {N}
      OBVIOUS
    <3>4. n = m[1] /\ w = y /\ m = <<m[1], m[2]>>
      BY <1>3, <3>2, <3>3, EntriesIn
    <3>5. m = <<n, x>>
      BY <3>3, <3>4
    <3>6. EntryAt(h, e.from, k, n, x)
      BY <3>2, <3>5, IsEntry
    <3> QED
      BY <3>1, <3>3, <3>4, <3>6 DEF EntryAt, Longer
  <2>2. ASSUME r = e.to, n \in DOMAIN h, h[n].declared # Nil, h[n].declared.kind = k,
               NEW x, IsWay(h, n, e.from, x), w = x \cup {N}
        PROVE  v \in new
    <3>1. x \in SUBSET DOMAIN h
      BY <2>2, WayIn
    <3>2. PICK m : m = <<n, x>>
      OBVIOUS
    <3>3. m \in Entries(h, e.from, k) /\ m[1] = n /\ m[2] = x
      <4>1. EntryAt(h, e.from, k, n, x)
        BY <2>2, <3>1 DEF EntryAt
      <4> QED
        BY <3>2, <4>1, IsEntry
    <3>4. v \in Further(Entries(h, e.from, k), N)
      BY <1>3, <2>2, <3>3 DEF Further
    <3> QED
      BY <1>1, <2>2, <3>4
  <2> QED
    BY <2>1, <2>2 DEF Longer
<1>4. ASSUME NEW n, NEW w, NEW m, m = <<n, w>>
      PROVE  m \in Entries(g, r, k) <=> m \in Entries(h, r, k) \cup new
  <2>1. /\ m \in Entries(g, r, k) <=> EntryAt(g, r, k, n, w)
        /\ m \in Entries(h, r, k) <=> EntryAt(h, r, k, n, w)
        /\ m \in new <=>
             /\ r = e.to /\ n \in DOMAIN h /\ h[n].declared # Nil /\ h[n].declared.kind = k
             /\ Longer(h, n, e.from, w, N)
    BY <1>3, <1>4, IsEntry
  <2>2. CASE n \in DOMAIN h
    <3>1. IsWay(g, n, r, w) <=> IsWay(h, n, r, w) \/ (r = e.to /\ Longer(h, n, e.from, w, N))
      BY <1>1, <2>2, WaysInclude
    <3>2. \A s, x : IsWay(h, n, s, x) => x \in SUBSET DOMAIN h
      BY <2>2, WayIn
    <3>3. IsWay(g, n, r, w) => w \in SUBSET DOMAIN g
      BY <1>1, <1>2, <3>1, <3>2 DEF Longer
    <3>4. EntryAt(g, r, k, n, w) <=> h[n].declared # Nil /\ h[n].declared.kind = k /\ IsWay(g, n, r, w)
      BY <1>2, <2>2, <3>3 DEF EntryAt
    <3>5. EntryAt(h, r, k, n, w) <=> h[n].declared # Nil /\ h[n].declared.kind = k /\ IsWay(h, n, r, w)
      BY <2>2, <3>2 DEF EntryAt
    <3> QED
      BY <1>1, <2>1, <2>2, <3>1, <3>4, <3>5
  <2>3. CASE n \notin DOMAIN h
    <3>1. ~ EntryAt(h, r, k, n, w) /\ ~ EntryAt(g, r, k, n, w)
      BY <1>2, <2>3 DEF EntryAt
    <3> QED
      BY <2>1, <2>3, <3>1
  <2> QED
    BY <2>2, <2>3
<1>5. \A m \in Entries(g, r, k) \cup Entries(h, r, k) \cup new : m = <<m[1], m[2]>>
  <2>1. \A m \in new : m = <<m[1], m[2]>>
    BY <1>1 DEF Further
  <2>2. \A m \in Entries(g, r, k) \cup Entries(h, r, k) : m = <<m[1], m[2]>>
    BY EntriesIn
  <2> QED
    BY <2>1, <2>2
<1> QED
  BY <1>1, <1>4, <1>5

-----------------------------------------------------------------------------
(* The routes of the root, in the order of the kinds. *)

LEMMA FlattenFive ==
  ASSUME NEW M, NEW s \in Seq(Seq(M)), Len(s) = 5
  PROVE  FlattenSeq(s) = (((s[1] \o s[2]) \o s[3]) \o s[4]) \o s[5]
<1>1. s # <<>>
  OBVIOUS
<1>2. PICK f : /\ FlattenSeq(s) = f[5]
               /\ \A i \in 1 .. 5 : f[i] = IF i = 1 THEN s[i] ELSE f[i - 1] \o s[i]
  <2>1. PICK f : /\ FlattenSeq(s) = f[Len(s)]
                 /\ \A i \in 1 .. Len(s) : f[i] = IF i = 1 THEN s[i] ELSE f[i - 1] \o s[i]
    BY <1>1, FlattenIs
  <2> QED
    BY <2>1
<1>3. f[1] = s[1]
  <2>1. 1 \in 1 .. 5
    OBVIOUS
  <2> QED
    BY <1>2, <2>1
<1>4. ASSUME NEW i \in {2, 3, 4, 5} PROVE f[i] = f[i - 1] \o s[i]
  <2>1. i \in 1 .. 5 /\ i # 1
    OBVIOUS
  <2> QED
    BY <1>2, <2>1
<1>5. f[2] = f[1] \o s[2] /\ f[3] = f[2] \o s[3] /\ f[4] = f[3] \o s[4] /\ f[5] = f[4] \o s[5]
  <2>1. 2 - 1 = 1 /\ 3 - 1 = 2 /\ 4 - 1 = 3 /\ 5 - 1 = 4
    OBVIOUS
  <2>2. f[2] = f[2 - 1] \o s[2] /\ f[3] = f[3 - 1] \o s[3] /\ f[4] = f[4 - 1] \o s[4] /\ f[5] = f[5 - 1] \o s[5]
    BY <1>4
  <2> QED
    BY <2>1, <2>2
<1> QED
  BY <1>2, <1>3, <1>5

LEMMA KindsDiffer ==
  /\ DOMAIN Kinds = 1 .. 5
  /\ \A a, b \in 1 .. 5 : Kinds[a] = Kinds[b] => a = b
  /\ \A k \in Range(Kinds) : \E a \in 1 .. 5 : Kinds[a] = k
<1>1. DOMAIN Kinds = 1 .. 5 /\ 1 .. 5 = {1, 2, 3, 4, 5}
  BY DEF Kinds
<1>2. /\ Kinds[1] = "command" /\ Kinds[2] = "task" /\ Kinds[3] = "event" /\ Kinds[4] = "middleware"
      /\ Kinds[5] = "tool"
  BY DEF Kinds
<1>3. \A a, b \in 1 .. 5 : Kinds[a] = Kinds[b] => a = b
  BY <1>1, <1>2
<1> QED
  BY <1>1, <1>3 DEF Range

Ordered(s) ==
  \A i, j \in 1 .. Len(s) : i < j =>
    \E a, b \in 1 .. 5 : a <= b /\ Kinds[a] = s[i].kind /\ Kinds[b] = s[j].kind

\* A list of what is of the first a kinds
UpTo(s, E, h, a) ==
  /\ Lists(s, E, h) /\ Ordered(s)
  /\ \A m \in E : \E b \in 1 .. a : h[m[1]].declared.kind = Kinds[b]
  /\ \A i \in 1 .. Len(s) : \E b \in 1 .. a : s[i].kind = Kinds[b]

OfKind(E, h, k) == \A m \in E : h[m[1]].declared.kind = k

LEMMA ListedKinds ==
  ASSUME NEW s, NEW E, NEW h, Lists(s, E, h), NEW k, OfKind(E, h, k)
  PROVE  \A i \in 1 .. Len(s) : s[i].kind = k
<1>1. PICK b : Pairs(b, 1 .. Len(s), E) /\ \A i \in 1 .. Len(s) : s[i] = At(h, b[i])
  BY DEF Lists
<1>2. ASSUME NEW i \in 1 .. Len(s) PROVE s[i].kind = k
  <2>1. PICK m : m = b[i] /\ m \in E
    BY <1>1 DEF Pairs
  <2>2. s[i] = MountedBy(h, m[1], m[2])
    BY <1>1, <2>1 DEF At
  <2> QED
    BY <2>1, <2>2, MountedKind DEF OfKind
<1> QED
  BY <1>2

LEMMA UpToNext ==
  ASSUME NEW s, NEW E, NEW h, NEW a \in 1 .. 4, UpTo(s, E, h, a), NEW t, NEW F, Lists(t, F, h),
         OfKind(F, h, Kinds[a + 1])
  PROVE  UpTo(s \o t, E \cup F, h, a + 1)
<1>1. PICK x, n, k : x = s \o t /\ n = Len(s) /\ k = Len(t)
  OBVIOUS
<1>2. a + 1 \in 1 .. 5 /\ \A b \in 1 .. a : b \in 1 .. 5 /\ b # a + 1 /\ b <= a + 1 /\ b \in 1 .. a + 1
  OBVIOUS
<1>3. E \cap F = {}
  <2>1. ASSUME NEW m \in E, m \in F PROVE FALSE
    <3>1. PICK b \in 1 .. a : h[m[1]].declared.kind = Kinds[b]
      BY DEF UpTo
    <3>2. Kinds[b] = Kinds[a + 1]
      BY <2>1, <3>1 DEF OfKind
    <3> QED
      BY <1>2, <3>2, KindsDiffer
  <2> QED
    BY <2>1
<1>4. Lists(x, E \cup F, h)
  BY <1>1, <1>3, ListsConcat DEF UpTo
<1>5. \A i \in 1 .. k : t[i].kind = Kinds[a + 1]
  BY <1>1, ListedKinds
<1>6. /\ n \in Nat /\ k \in Nat /\ Len(x) = n + k
      /\ \A i \in 1 .. n : x[i] = s[i]
      /\ \A i \in 1 .. Len(x) : i > n => i - n \in 1 .. k /\ x[i] = t[i - n]
  <2>1. IsList(s) /\ IsList(t)
    BY DEF UpTo, Lists
  <2>2. Together(x, s, t)
    BY <1>1, <2>1, ConcatIs
  <2> QED
    BY <1>1, <2>2 DEF Together
<1>7. \A i \in 1 .. n + k : IF i <= n THEN i \in 1 .. n /\ x[i] = s[i] ELSE x[i].kind = Kinds[a + 1]
  BY <1>5, <1>6
<1>8. \A i \in 1 .. n : \E b \in 1 .. a : s[i].kind = Kinds[b]
  BY <1>1 DEF UpTo
<1>9. ASSUME NEW i \in 1 .. n + k, NEW j \in 1 .. n + k, i < j
      PROVE  \E c, d \in 1 .. 5 : c <= d /\ Kinds[c] = x[i].kind /\ Kinds[d] = x[j].kind
  <2>1. CASE j <= n
    <3>1. i \in 1 .. n /\ j \in 1 .. n
      BY <1>6, <1>9, <2>1
    <3> QED
      BY <1>1, <1>6, <1>9, <3>1 DEF UpTo, Ordered
  <2>2. CASE ~ (j <= n)
    <3>1. x[j].kind = Kinds[a + 1]
      BY <1>7, <2>2
    <3>2. CASE i <= n
      <4>1. PICK b \in 1 .. a : x[i].kind = Kinds[b]
        BY <1>7, <1>8, <3>2
      <4>2. b \in 1 .. 5 /\ a + 1 \in 1 .. 5 /\ b <= a + 1
        BY <1>2
      <4> QED
        BY <3>1, <4>1, <4>2
    <3>3. CASE ~ (i <= n)
      <4>1. x[i].kind = Kinds[a + 1] /\ a + 1 <= a + 1
        BY <1>7, <3>3
      <4> QED
        BY <1>2, <3>1, <4>1
    <3> QED
      BY <3>2, <3>3
  <2> QED
    BY <2>1, <2>2
<1>10. Ordered(x)
  BY <1>6, <1>9 DEF Ordered
<1>11. \A i \in 1 .. Len(x) : \E b \in 1 .. a + 1 : x[i].kind = Kinds[b]
  <2> SUFFICES ASSUME NEW i \in 1 .. n + k PROVE \E b \in 1 .. a + 1 : x[i].kind = Kinds[b]
    BY <1>6
  <2>1. a + 1 \in 1 .. a + 1
    OBVIOUS
  <2> QED
    BY <1>2, <1>7, <1>8, <2>1
<1>12. \A m \in E \cup F : \E b \in 1 .. a + 1 : h[m[1]].declared.kind = Kinds[b]
  <2>1. a + 1 \in 1 .. a + 1
    OBVIOUS
  <2>2. \A m \in E : \E b \in 1 .. a : h[m[1]].declared.kind = Kinds[b]
    BY DEF UpTo
  <2> QED
    BY <1>2, <2>1, <2>2 DEF OfKind
<1> QED
  BY <1>1, <1>4, <1>10, <1>11, <1>12 DEF UpTo

LEMMA UpToFirst ==
  ASSUME NEW s, NEW E, NEW h, Lists(s, E, h), OfKind(E, h, Kinds[1])
  PROVE  UpTo(s, E, h, 1)
<1>1. \A i \in 1 .. Len(s) : s[i].kind = Kinds[1]
  BY ListedKinds
<1>2. 1 \in 1 .. 1 /\ 1 \in 1 .. 5 /\ 1 <= 1
  OBVIOUS
<1>3. Ordered(s)
  BY <1>1, <1>2 DEF Ordered
<1> QED
  BY <1>1, <1>2, <1>3 DEF UpTo, OfKind

\* The routes of all routers, as the history has it
AllListed ==
  \A r \in Router, k \in Range(Kinds) : Lists(routes[r][k], Entries(history, r, k), history)

AllEntries(h) ==
  {m \in (DOMAIN h) \X (SUBSET DOMAIN h) : h[m[1]].declared # Nil /\ m[2] \in Ways(h, m[1], Root)}

SoundHistory(h) == \E M : h \in Seq(M) /\ \A x \in M : SoundEntry(x)

\* The root's routes list all that there is to mount.
LEMMA RootListed ==
  ASSUME RoutesAssumption, RoutesSound, AllListed, SoundHistory(history)
  PROVE  Lists(RootRoutes, AllEntries(history), history) /\ Ordered(RootRoutes)
<1>1. PICK s, h : s = [k \in DOMAIN Kinds |-> routes[Root][Kinds[k]]] /\ h = history
  OBVIOUS
<1>2. PICK M : s \in Seq(Seq(M))
  BY <1>1, RootLists
<1>3. Len(s) = 5 /\ \A a \in 1 .. 5 : s[a] = routes[Root][Kinds[a]] /\ Kinds[a] \in Range(Kinds)
  <2>1. DOMAIN s = 1 .. 5 /\ DOMAIN Kinds = 1 .. 5
    BY <1>1, KindsDiffer
  <2>2. Len(s) = 5
    BY <1>2, <2>1
  <2> QED
    BY <1>1, <2>1, <2>2 DEF Range
<1>4. RootRoutes = (((s[1] \o s[2]) \o s[3]) \o s[4]) \o s[5]
  <2>1. FlattenSeq(s) = (((s[1] \o s[2]) \o s[3]) \o s[4]) \o s[5]
    BY <1>2, <1>3, FlattenFive
  <2>2. RootRoutes = FlattenSeq(s)
    BY Zenon, <1>1 DEF RootRoutes
  <2> QED
    BY Zenon, <2>1, <2>2
<1>5. PICK E : E = [a \in 1 .. 5 |-> Entries(h, Root, Kinds[a])]
  OBVIOUS
<1>6. ASSUME NEW a \in 1 .. 5
      PROVE  Lists(s[a], E[a], h) /\ OfKind(E[a], h, Kinds[a])
  <2>1. Lists(routes[Root][Kinds[a]], Entries(history, Root, Kinds[a]), history)
    BY <1>3 DEF AllListed, RoutesAssumption
  <2>2. E[a] = Entries(h, Root, Kinds[a])
    BY <1>5
  <2> QED
    BY <1>1, <1>3, <2>1, <2>2, EntriesIn DEF OfKind
<1>7. 1 \in 1 .. 5 /\ 2 \in 1 .. 5 /\ 3 \in 1 .. 5 /\ 4 \in 1 .. 5 /\ 5 \in 1 .. 5
  OBVIOUS
<1>8. UpTo(s[1], E[1], h, 1)
  BY <1>6, <1>7, UpToFirst
<1>9. ASSUME NEW a \in 1 .. 4, NEW t, NEW D, UpTo(t, D, h, a)
      PROVE  UpTo(t \o s[a + 1], D \cup E[a + 1], h, a + 1)
  <2>1. a + 1 \in 1 .. 5
    OBVIOUS
  <2> QED
    BY <1>6, <1>9, <2>1, UpToNext
<1>10. 1 + 1 = 2 /\ 2 + 1 = 3 /\ 3 + 1 = 4 /\ 4 + 1 = 5
       /\ 1 \in 1 .. 4 /\ 2 \in 1 .. 4 /\ 3 \in 1 .. 4 /\ 4 \in 1 .. 4
  OBVIOUS
<1>11. PICK t2, t3, t4, t5 : t2 = s[1] \o s[2] /\ t3 = t2 \o s[3] /\ t4 = t3 \o s[4] /\ t5 = t4 \o s[5]
  OBVIOUS
<1>12. PICK D2, D3, D4, D5 : D2 = E[1] \cup E[2] /\ D3 = D2 \cup E[3] /\ D4 = D3 \cup E[4] /\ D5 = D4 \cup E[5]
  OBVIOUS
<1>13. UpTo(t2, D2, h, 2)
  BY <1>8, <1>9, <1>10, <1>11, <1>12
<1>14. UpTo(t3, D3, h, 3)
  BY <1>9, <1>10, <1>11, <1>12, <1>13
<1>15. UpTo(t4, D4, h, 4)
  BY <1>9, <1>10, <1>11, <1>12, <1>14
<1>16. UpTo(t5, D5, h, 5)
  BY <1>9, <1>10, <1>11, <1>12, <1>15
<1>17. ASSUME NEW m PROVE m \in AllEntries(h) <=> \E a \in 1 .. 5 : m \in E[a]
  <2>1. ASSUME m \in AllEntries(h) PROVE \E a \in 1 .. 5 : m \in E[a]
    <3>1. /\ m \in (DOMAIN h) \X (SUBSET DOMAIN h) /\ h[m[1]].declared # Nil
          /\ IsWay(h, m[1], Root, m[2])
      BY <2>1, WaysAre DEF AllEntries
    <3>2. h[m[1]].declared.kind \in Range(Kinds)
      <4>1. PICK N : h \in Seq(N) /\ \A x \in N : SoundEntry(x)
        BY <1>1 DEF SoundHistory
      <4>2. h[m[1]] \in N
        BY <3>1, <4>1
      <4> QED
        BY <3>1, <4>1, <4>2 DEF SoundEntry, SoundDeclaration
    <3>3. PICK a \in 1 .. 5 : Kinds[a] = h[m[1]].declared.kind
      BY <3>2, KindsDiffer
    <3>4. m \in Entries(h, Root, Kinds[a])
      BY <3>1, <3>3 DEF Entries
    <3> QED
      BY <1>5, <3>4
  <2>2. ASSUME NEW a \in 1 .. 5, m \in E[a] PROVE m \in AllEntries(h)
    <3>1. m \in Entries(h, Root, Kinds[a])
      BY <1>5, <2>2
    <3> QED
      BY <3>1, WaysAre DEF Entries, AllEntries
  <2> QED
    BY <2>1, <2>2
<1>18. \A a \in 1 .. 5 : a = 1 \/ a = 2 \/ a = 3 \/ a = 4 \/ a = 5
  OBVIOUS
<1>19. D5 = AllEntries(h)
  <2>1. \A m : m \in D5 <=> m \in E[1] \/ m \in E[2] \/ m \in E[3] \/ m \in E[4] \/ m \in E[5]
    BY <1>12
  <2>2. \A m : m \in AllEntries(h) <=> m \in E[1] \/ m \in E[2] \/ m \in E[3] \/ m \in E[4] \/ m \in E[5]
    BY <1>7, <1>17, <1>18
  <2> QED
    BY <2>1, <2>2
<1> QED
  <2>1. RootRoutes = t5
    BY <1>4, <1>11
  <2>2. Lists(t5, D5, h) /\ Ordered(t5)
    BY <1>16 DEF UpTo
  <2> QED
    BY <1>1, <1>19, <2>1, <2>2
-----------------------------------------------------------------------------
(* What the host has after it joined a list of routes with a manifest. *)

Shares(x, y) == x.kind = y.kind /\ Names(x) \cap Names(y) # {}

\* D begins with the manifest m; the rest are routes of l under names of their own; and the
\* names of every other route of l are the manifest's.
JoinedWell(D, m, l) ==
  /\ IsList(D) /\ IsList(m) /\ IsList(l) /\ Len(m) <= Len(D)
  /\ \A i \in 1 .. Len(m) : D[i] = m[i]
  /\ \A i \in 1 .. Len(D) : i > Len(m) => \E a \in 1 .. Len(l) : D[i] = l[a]
  /\ \A i, j \in 1 .. Len(D) : i > Len(m) /\ i # j => ~ Shares(D[i], D[j])
  /\ \A a \in 1 .. Len(l) :
       \/ Names(l[a]) \subseteq NamesOf(m, l[a].kind)
       \/ \E i \in 1 .. Len(D) : i > Len(m) /\ D[i] = l[a]
  /\ \A a \in 1 .. Len(l) : Names(l[a]) # {}
  /\ \A a, b \in 1 .. Len(l) : a # b => ~ Shares(l[a], l[b])

Extended(t, s, x) ==
  /\ IsList(t) /\ Len(s) \in Nat /\ Len(t) = Len(s) + 1
  /\ DOMAIN s = 1 .. Len(s) /\ DOMAIN t = 1 .. Len(t)
  /\ \A i \in 1 .. Len(s) : i \in 1 .. Len(t) /\ t[i] = s[i]
  /\ Len(t) \in 1 .. Len(t) /\ t[Len(t)] = x
  /\ \A i \in 1 .. Len(t) : i \in 1 .. Len(s) \/ i = Len(t)

LEMMA AppendIs ==
  ASSUME NEW s, IsList(s), NEW x
  PROVE  Extended(Append(s, x), s, x)
<1> DEFINE t == Append(s, x)
<1>1. PICK M : s \in Seq(M)
  BY DEF IsList
<1>2. t \in Seq(M \cup {x})
  BY <1>1
<1>3. IsList(t)
  BY <1>2 DEF IsList
<1> QED
  BY <1>1, <1>2, <1>3 DEF Extended

LEMMA NamesAre ==
  ASSUME NEW s, IsList(s), NEW k, NEW name
  PROVE  name \in NamesOf(s, k) <=> \E i \in 1 .. Len(s) : s[i].kind = k /\ name \in Names(s[i])
<1>1. DOMAIN s = 1 .. Len(s)
  BY DEF IsList
<1> QED
  BY <1>1 DEF NamesOf, Range

\* A route that may join a list of routes that joined already
MayJoin(D, l, x) ==
  /\ Names(x) # {}
  /\ Names(x) \subseteq NamesOf(D, x.kind) \/ Names(x) \cap NamesOf(D, x.kind) = {}
  /\ Names(x) \cap NamesOf(l, x.kind) = {}

LEMMA TakenShareNothing ==
  ASSUME NEW D, NEW m, NEW l, JoinedWell(D, m, l), NEW x, MayJoin(D, l, x), NEW a \in 1 .. Len(l)
  PROVE  ~ Shares(x, l[a]) /\ ~ Shares(l[a], x)
<1>1. IsList(l)
  BY DEF JoinedWell
<1>2. \A name \in Names(x) : ~ (l[a].kind = x.kind /\ name \in Names(l[a]))
  BY <1>1, NamesAre DEF MayJoin
<1> QED
  BY <1>2 DEF Shares

LEMMA JoinsManifest ==
  ASSUME NEW D, NEW m, NEW l, JoinedWell(D, m, l), NEW x, MayJoin(D, l, x),
         Names(x) \subseteq NamesOf(D, x.kind)
  PROVE  Names(x) \subseteq NamesOf(m, x.kind)
<1> SUFFICES ASSUME NEW name \in Names(x) PROVE name \in NamesOf(m, x.kind)
  OBVIOUS
<1>1. IsList(D) /\ IsList(m) /\ IsList(l)
  BY DEF JoinedWell
<1>2. PICK i \in 1 .. Len(D) : D[i].kind = x.kind /\ name \in Names(D[i])
  BY <1>1, NamesAre
<1>3. ~ (i > Len(m))
  <2>1. ASSUME i > Len(m) PROVE FALSE
    <3>1. PICK a \in 1 .. Len(l) : D[i] = l[a]
      BY <2>1 DEF JoinedWell
    <3>2. ~ Shares(x, l[a])
      BY TakenShareNothing
    <3> QED
      BY <1>2, <3>1, <3>2 DEF Shares
  <2> QED
    BY <2>1
<1>4. i \in 1 .. Len(m) /\ D[i] = m[i]
  <2>1. Len(m) \in Nat /\ Len(D) \in Nat
    BY <1>1 DEF IsList
  <2>2. i \in 1 .. Len(m)
    BY <1>3, <2>1
  <2> QED
    BY <2>2 DEF JoinedWell
<1> QED
  BY <1>1, <1>2, <1>4, NamesAre

LEMMA JoinsKnown ==
  ASSUME NEW D, NEW m, NEW l, JoinedWell(D, m, l), NEW x, MayJoin(D, l, x),
         Names(x) \subseteq NamesOf(D, x.kind), NEW k, k = Append(l, x)
  PROVE  JoinedWell(D, m, k)
<1>1. IsList(l)
  BY DEF JoinedWell
<1>2. /\ IsList(k)
      /\ \A a \in 1 .. Len(l) : a \in 1 .. Len(k) /\ k[a] = l[a]
      /\ k[Len(k)] = x /\ \A a \in 1 .. Len(k) : a \in 1 .. Len(l) \/ a = Len(k)
  <2>1. Extended(k, l, x)
    BY <1>1, AppendIs
  <2> QED
    BY <2>1 DEF Extended
<1>3. Names(x) # {} /\ Names(x) \subseteq NamesOf(m, x.kind)
  BY JoinsManifest DEF MayJoin
<1>4. \A a \in 1 .. Len(l) : ~ Shares(x, l[a]) /\ ~ Shares(l[a], x)
  BY TakenShareNothing
<1>5. \A i \in 1 .. Len(D) : i > Len(m) => \E a \in 1 .. Len(k) : D[i] = k[a]
  BY <1>2 DEF JoinedWell
<1>6. \A a \in 1 .. Len(k) : \/ Names(k[a]) \subseteq NamesOf(m, k[a].kind)
                             \/ \E i \in 1 .. Len(D) : i > Len(m) /\ D[i] = k[a]
  <2> SUFFICES ASSUME NEW a \in 1 .. Len(k)
               PROVE  \/ Names(k[a]) \subseteq NamesOf(m, k[a].kind)
                      \/ \E i \in 1 .. Len(D) : i > Len(m) /\ D[i] = k[a]
    OBVIOUS
  <2>1. CASE a = Len(k)
    BY <1>2, <1>3, <2>1
  <2>2. CASE a \in 1 .. Len(l)
    BY <1>2, <2>2 DEF JoinedWell
  <2> QED
    BY <1>2, <2>1, <2>2
<1>7. \A a \in 1 .. Len(k) : Names(k[a]) # {}
  BY <1>2, <1>3 DEF JoinedWell
<1>8. \A a, b \in 1 .. Len(k) : a # b => ~ Shares(k[a], k[b])
  BY <1>2, <1>4 DEF JoinedWell
<1> QED
  BY <1>2, <1>5, <1>6, <1>7, <1>8 DEF JoinedWell

LEMMA JoinsNew ==
  ASSUME NEW D, NEW m, NEW l, JoinedWell(D, m, l), NEW x, MayJoin(D, l, x),
         Names(x) \cap NamesOf(D, x.kind) = {}, NEW k, k = Append(l, x), NEW E, E = Append(D, x)
  PROVE  JoinedWell(E, m, k)
<1>1. IsList(l) /\ IsList(D) /\ IsList(m) /\ Len(m) <= Len(D)
  BY DEF JoinedWell
<1>2. /\ IsList(k) /\ Len(k) \in 1 .. Len(k)
      /\ \A a \in 1 .. Len(l) : a \in 1 .. Len(k) /\ k[a] = l[a]
      /\ k[Len(k)] = x /\ \A a \in 1 .. Len(k) : a \in 1 .. Len(l) \/ a = Len(k)
  <2>1. Extended(k, l, x)
    BY <1>1, AppendIs
  <2> QED
    BY <2>1 DEF Extended
<1>3. /\ IsList(E) /\ Len(E) = Len(D) + 1 /\ Len(D) \in Nat /\ Len(E) \in 1 .. Len(E)
      /\ \A a \in 1 .. Len(D) : a \in 1 .. Len(E) /\ E[a] = D[a]
      /\ E[Len(E)] = x /\ \A a \in 1 .. Len(E) : a \in 1 .. Len(D) \/ a = Len(E)
  <2>1. Extended(E, D, x)
    BY <1>1, AppendIs
  <2> QED
    BY <2>1 DEF Extended
<1>4. Len(m) \in Nat /\ Len(m) <= Len(E) /\ Len(E) > Len(m)
  BY <1>1, <1>3 DEF IsList
<1>5. \A a \in 1 .. Len(l) : ~ Shares(x, l[a]) /\ ~ Shares(l[a], x)
  BY TakenShareNothing
<1>6. \A i \in 1 .. Len(D) : ~ Shares(x, D[i]) /\ ~ Shares(D[i], x)
  <2>1. \A i \in 1 .. Len(D) : \A name \in Names(x) : ~ (D[i].kind = x.kind /\ name \in Names(D[i]))
    BY <1>1, NamesAre
  <2> QED
    BY <2>1 DEF Shares
<1>7. \A i \in 1 .. Len(m) : E[i] = m[i]
  <2> SUFFICES ASSUME NEW i \in 1 .. Len(m) PROVE E[i] = m[i]
    OBVIOUS
  <2>1. i \in 1 .. Len(D)
    BY <1>1, <1>3, <1>4
  <2> QED
    BY <1>3, <2>1 DEF JoinedWell
<1>8. \A i \in 1 .. Len(E) : i > Len(m) => \E a \in 1 .. Len(k) : E[i] = k[a]
  <2> SUFFICES ASSUME NEW i \in 1 .. Len(E), i > Len(m) PROVE \E a \in 1 .. Len(k) : E[i] = k[a]
    OBVIOUS
  <2>1. CASE i \in 1 .. Len(D)
    BY <1>2, <1>3, <2>1 DEF JoinedWell
  <2>2. CASE i = Len(E)
    BY <1>2, <1>3, <2>2
  <2> QED
    BY <1>3, <2>1, <2>2
<1>9. \A i, j \in 1 .. Len(E) : i > Len(m) /\ i # j => ~ Shares(E[i], E[j])
  BY <1>3, <1>6 DEF JoinedWell
<1>10. \A a \in 1 .. Len(k) : \/ Names(k[a]) \subseteq NamesOf(m, k[a].kind)
                              \/ \E i \in 1 .. Len(E) : i > Len(m) /\ E[i] = k[a]
  <2> SUFFICES ASSUME NEW a \in 1 .. Len(k)
               PROVE  \/ Names(k[a]) \subseteq NamesOf(m, k[a].kind)
                      \/ \E i \in 1 .. Len(E) : i > Len(m) /\ E[i] = k[a]
    OBVIOUS
  <2>1. CASE a = Len(k)
    BY <1>2, <1>3, <1>4, <2>1
  <2>2. CASE a \in 1 .. Len(l)
    <3>1. k[a] = l[a]
      BY <1>2, <2>2
    <3>2. CASE Names(l[a]) \subseteq NamesOf(m, l[a].kind)
      BY <3>1, <3>2
    <3>3. CASE \E i \in 1 .. Len(D) : i > Len(m) /\ D[i] = l[a]
      BY <1>3, <3>1, <3>3
    <3> QED
      BY <2>2, <3>2, <3>3 DEF JoinedWell
  <2> QED
    BY <1>2, <2>1, <2>2
<1>11. \A a \in 1 .. Len(k) : Names(k[a]) # {}
  BY <1>2 DEF JoinedWell, MayJoin
<1>12. \A a, b \in 1 .. Len(k) : a # b => ~ Shares(k[a], k[b])
  BY <1>2, <1>5 DEF JoinedWell
<1> QED
  BY <1>1, <1>2, <1>3, <1>4, <1>7, <1>8, <1>9, <1>10, <1>11, <1>12 DEF JoinedWell

\* Joining one more route keeps that, whether it is defined already or not.
LEMMA JoinsWell ==
  ASSUME NEW D, NEW m, NEW l, JoinedWell(D, m, l), NEW x, MayJoin(D, l, x)
  PROVE  JoinedWell(Joined(D, x), m, Append(l, x))
<1>1. CASE Names(x) \subseteq NamesOf(D, x.kind)
  BY <1>1, JoinsKnown DEF Joined
<1>2. CASE ~ (Names(x) \subseteq NamesOf(D, x.kind))
  BY <1>2, JoinsNew DEF Joined, MayJoin
<1> QED
  BY <1>1, <1>2

LEMMA NoneJoined ==
  ASSUME NEW m, IsList(m)
  PROVE  JoinedWell(m, m, <<>>)
<1>1. Len(m) \in Nat /\ IsList(<<>>) /\ Len(<<>>) = 0
  BY DEF IsList
<1>2. \A i \in 1 .. Len(m) : ~ (i > Len(m))
  BY <1>1
<1>3. \A i \in 1 .. 0 : FALSE
  OBVIOUS
<1> QED
  BY <1>1, <1>2, <1>3 DEF JoinedWell
\* The definitions of a kind with a name, by their places
DefinedAt(s, k, name) == {i \in DOMAIN s : s[i].kind = k /\ name \in Names(s[i])}

\* What the manifest defines is defined as often as it says.
LEMMA SaidStays ==
  ASSUME NEW D, NEW m, NEW l, JoinedWell(D, m, l), NEW k, NEW name, DefinedAt(m, k, name) # {}
  PROVE  DefinedAt(D, k, name) = DefinedAt(m, k, name)
<1>1. /\ DOMAIN D = 1 .. Len(D) /\ DOMAIN m = 1 .. Len(m) /\ Len(m) <= Len(D)
      /\ Len(m) \in Nat /\ Len(D) \in Nat
  BY DEF JoinedWell, IsList
<1>2. \A i \in 1 .. Len(m) : i \in 1 .. Len(D) /\ D[i] = m[i] /\ ~ (i > Len(m))
  BY <1>1 DEF JoinedWell
<1>3. PICK j \in 1 .. Len(m) : m[j].kind = k /\ name \in Names(m[j])
  BY <1>1 DEF DefinedAt
<1>4. ASSUME NEW i \in 1 .. Len(D), i > Len(m), D[i].kind = k, name \in Names(D[i]) PROVE FALSE
  <2>1. ~ Shares(D[i], D[j])
    BY <1>2, <1>4 DEF JoinedWell
  <2> QED
    BY <1>2, <1>3, <1>4, <2>1 DEF Shares
<1>5. \A i \in 1 .. Len(D) : i > Len(m) \/ i \in 1 .. Len(m)
  BY <1>1
<1> QED
  BY <1>1, <1>2, <1>4, <1>5 DEF DefinedAt

OnlyTaken(m, l, k, name) == DefinedAt(m, k, name) = {} /\ DefinedAt(l, k, name) # {}

\* What it does not define is defined once.
LEMMA OwnIsOne ==
  ASSUME NEW D, NEW m, NEW l, JoinedWell(D, m, l), NEW k, NEW name, OnlyTaken(m, l, k, name)
  PROVE  Cardinality(DefinedAt(D, k, name)) = 1
<1>1. IsList(m) /\ DOMAIN D = 1 .. Len(D) /\ DOMAIN m = 1 .. Len(m) /\ DOMAIN l = 1 .. Len(l)
  BY DEF JoinedWell, IsList
<1> PICK a \in 1 .. Len(l) : l[a].kind = k /\ name \in Names(l[a])
  BY <1>1 DEF OnlyTaken, DefinedAt
<1>2. name \notin NamesOf(m, k)
  BY <1>1, NamesAre DEF OnlyTaken, DefinedAt
<1>3. PICK i \in 1 .. Len(D) : i > Len(m) /\ D[i] = l[a]
  BY <1>2 DEF JoinedWell
<1>4. ASSUME NEW j \in 1 .. Len(D), j # i, D[j].kind = k, name \in Names(D[j]) PROVE FALSE
  <2>1. ~ Shares(D[i], D[j])
    BY <1>3, <1>4 DEF JoinedWell
  <2> QED
    BY <1>3, <1>4, <2>1 DEF Shares
<1>5. DefinedAt(D, k, name) = {i}
  BY <1>1, <1>3, <1>4 DEF DefinedAt
<1>6. Cardinality({i}) = 1
  BY FS_Singleton
<1> QED
  BY <1>5, <1>6

LEMMA DefinedAre ==
  ASSUME NEW D, NEW m, NEW l, JoinedWell(D, m, l)
  PROVE  Range(D) = Range(m) \cup
           {x \in Range(l) : \A d \in Range(m) : d.kind = x.kind => Names(d) \cap Names(x) = {}}
<1>1. /\ IsList(m) /\ DOMAIN D = 1 .. Len(D) /\ DOMAIN m = 1 .. Len(m) /\ DOMAIN l = 1 .. Len(l)
      /\ Len(m) \in Nat /\ Len(D) \in Nat /\ Len(m) <= Len(D)
  BY DEF JoinedWell, IsList
<1>2. \A i \in 1 .. Len(m) : i \in 1 .. Len(D) /\ D[i] = m[i] /\ ~ (i > Len(m))
  BY <1>1 DEF JoinedWell
<1>3. \A i \in 1 .. Len(D) : i > Len(m) \/ i \in 1 .. Len(m)
  BY <1>1
<1> DEFINE Apart(x) == \A d \in Range(m) : d.kind = x.kind => Names(d) \cap Names(x) = {}
<1>4. ASSUME NEW i \in 1 .. Len(D), i > Len(m) PROVE D[i] \in Range(l) /\ Apart(D[i])
  <2>1. D[i] \in Range(l)
    BY <1>1, <1>4 DEF JoinedWell, Range
  <2>2. ASSUME NEW d \in Range(m), d.kind = D[i].kind PROVE Names(d) \cap Names(D[i]) = {}
    <3>1. PICK j \in 1 .. Len(m) : d = m[j]
      BY <1>1 DEF Range
    <3>2. ~ Shares(D[i], D[j])
      BY <1>2, <1>4, <3>1 DEF JoinedWell
    <3> QED
      BY <1>2, <2>2, <3>1, <3>2 DEF Shares
  <2> QED
    BY <2>1, <2>2
<1>5. ASSUME NEW x \in Range(l), Apart(x) PROVE x \in Range(D)
  <2>1. PICK a \in 1 .. Len(l) : x = l[a]
    BY <1>1 DEF Range
  <2>2. Names(x) # {}
    BY <2>1 DEF JoinedWell
  <2>3. PICK name : name \in Names(x)
    BY <2>2
  <2>4. name \notin NamesOf(m, x.kind)
    <3>1. ASSUME name \in NamesOf(m, x.kind) PROVE FALSE
      <4>1. PICK j \in 1 .. Len(m) : m[j].kind = x.kind /\ name \in Names(m[j])
        BY <1>1, <3>1, NamesAre
      <4>2. m[j] \in Range(m)
        BY <1>1 DEF Range
      <4> QED
        BY <1>5, <2>3, <4>1, <4>2
    <3> QED
      BY <3>1
  <2>5. PICK i \in 1 .. Len(D) : D[i] = x
    BY <2>1, <2>3, <2>4 DEF JoinedWell
  <2> QED
    BY <1>1, <2>5 DEF Range
<1>6. ASSUME NEW x \in Range(m) PROVE x \in Range(D)
  BY <1>1, <1>2 DEF Range
<1>7. ASSUME NEW x \in Range(D) PROVE x \in Range(m) \/ (x \in Range(l) /\ Apart(x))
  <2>1. PICK i \in 1 .. Len(D) : x = D[i]
    BY <1>1 DEF Range
  <2>2. CASE i \in 1 .. Len(m)
    BY <1>1, <1>2, <2>1, <2>2 DEF Range
  <2>3. CASE i > Len(m)
    BY <1>4, <2>1, <2>3
  <2> QED
    BY <1>3, <2>2, <2>3
<1>8. \A x : x \in Range(D) <=> x \in Range(m) \/ (x \in Range(l) /\ Apart(x))
  BY <1>5, <1>6, <1>7
<1> QED
  BY <1>8

LEMMA HostHas ==
  ASSUME JoinedWell(Definitions, plugin.manifest, registered), \A d \in Range(Definitions) : Handled(d)
  PROVE  HostHasThem
<1>1. PICK D, m, l : D = Definitions /\ m = plugin.manifest /\ l = registered
  OBVIOUS
<1>2. JoinedWell(D, m, l) /\ \A d \in Range(D) : Handled(d)
  BY <1>1
<1>3. IsList(l) /\ DOMAIN l = 1 .. Len(l)
  BY <1>2 DEF JoinedWell, IsList
<1>4. \A i, j \in DOMAIN l : i # j /\ l[i].kind = l[j].kind => Names(l[i]) \cap Names(l[j]) = {}
  BY <1>2, <1>3 DEF JoinedWell, Shares
<1>5. ASSUME NEW route \in Range(l), NEW name \in Names(route)
      PROVE  LET said == DefinedAt(m, route.kind, name) IN
             Cardinality(DefinedAt(D, route.kind, name)) = IF said = {} THEN 1 ELSE Cardinality(said)
  <2>1. PICK a \in 1 .. Len(l) : route = l[a]
    BY <1>3 DEF Range
  <2>2. CASE DefinedAt(m, route.kind, name) # {}
    BY <1>2, <2>2, SaidStays
  <2>3. CASE DefinedAt(m, route.kind, name) = {}
    <3>1. PICK k : k = route.kind
      OBVIOUS
    <3>2. JoinedWell(D, m, l) /\ OnlyTaken(m, l, k, name)
      BY <1>2, <1>3, <2>1, <2>3, <3>1 DEF OnlyTaken, DefinedAt
    <3>3. Cardinality(DefinedAt(D, k, name)) = 1
      BY <3>2, OwnIsOne
    <3> QED
      BY <2>3, <3>1, <3>3
  <2> QED
    BY <2>2, <2>3
<1>6. Range(D) = Range(m) \cup
        {route \in Range(l) : \A d \in Range(m) : d.kind = route.kind => Names(d) \cap Names(route) = {}}
  BY <1>2, DefinedAre
<1>7. ASSUME NEW d \in Range(m)
      PROVE  \E route \in Range(l) : route.kind = d.kind /\ Names(route) \cap Names(d) # {}
  <2>1. Names(d) \cap NamesOf(l, d.kind) # {}
    BY <1>1, <1>2, <1>6, <1>7 DEF Handled
  <2> QED
    BY <2>1 DEF NamesOf
<1> QED
  BY <1>1, <1>4, <1>5, <1>6, <1>7 DEF HostHasThem, DefinedAt
-----------------------------------------------------------------------------
(* What holds until a command is called: the routes are what the history makes of the *)
(* declarations, and the host was given the first of the root's.                      *)

Begun ==
  /\ IsList(registered) /\ Len(registered) <= Len(RootRoutes)
  /\ \A i \in 1 .. Len(registered) : registered[i] = RootRoutes[i]

Joint == JoinedWell(Definitions, plugin.manifest, registered)

MountInv ==
  /\ stage = "building" => registered = <<>>
  /\ stage = "mounted" => Len(registered) = Len(RootRoutes)
  /\ stage # "calling" => SoundHistory(history) /\ AllListed /\ Begun /\ Joint

LEMMA SoundHistoryGrows ==
  ASSUME NEW h, SoundHistory(h), NEW e, SoundEntry(e)
  PROVE  SoundHistory(Append(h, e))
<1>1. PICK M : h \in Seq(M) /\ \A x \in M : SoundEntry(x)
  BY DEF SoundHistory
<1>2. Append(h, e) \in Seq(M \cup {e}) /\ \A x \in M \cup {e} : SoundEntry(x)
  BY <1>1
<1> QED
  BY <1>2 DEF SoundHistory

LEMMA RootIsList ==
  ASSUME RoutesAssumption, RoutesSound
  PROVE  IsList(RootRoutes) /\ Len(RootRoutes) \in Nat
<1>1. PICK s : s = [k \in DOMAIN Kinds |-> routes[Root][Kinds[k]]]
  OBVIOUS
<1>2. PICK M : s \in Seq(Seq(M)) /\ s # <<>>
  BY <1>1, RootLists
<1>3. RootRoutes \in Seq(M)
  BY <1>1, <1>2, FlattensInto DEF RootRoutes
<1> QED
  BY <1>3 DEF IsList

LEMMA RootStaysList == RoutesSound' => (Len(RootRoutes) \in Nat)'
<1>1. RoutesSound => Len(RootRoutes) \in Nat
  BY RootIsList, RoutesAssumption
<1> QED
  BY <1>1, PTL

\* While a plugin is being built, none of its routes is registered.
LEMMA BegunEmpty ==
  ASSUME RoutesSound', registered = <<>>, UNCHANGED registered
  PROVE  Begun'
<1>1. (Len(RootRoutes) \in Nat)'
  BY RootStaysList
<1>2. IsList(registered') /\ Len(registered') = 0 /\ \A i \in 1 .. 0 : FALSE
  BY DEF IsList
<1> QED
  BY <1>1, <1>2 DEF Begun

LEMMA MountBegins == ASSUME RoutesAssumption, RoutesInit PROVE MountInv
<1>1. RoutesInv
  BY RoutesBegin
<1>2. registered = <<>> /\ history = <<>> /\ stage = "building"
  BY DEF RoutesInit
<1>3. SoundHistory(history)
  <2>1. history \in Seq({})
    BY <1>2
  <2> QED
    BY <2>1 DEF SoundHistory
<1>4. AllListed
  <2> SUFFICES ASSUME NEW r \in Router, NEW k \in Range(Kinds)
               PROVE  Lists(routes[r][k], Entries(history, r, k), history)
    BY DEF AllListed
  <2>1. routes[r][k] = <<>>
    BY DEF RoutesInit, Empty
  <2>2. Entries(history, r, k) = {}
    BY <1>2, EntriesNone
  <2> QED
    BY <2>1, <2>2, ListsNone
<1>5. Begun
  <2>1. Len(RootRoutes) \in Nat
    BY <1>1, RootIsList DEF RoutesInv
  <2>2. IsList(registered) /\ Len(registered) = 0 /\ \A i \in 1 .. 0 : FALSE
    BY <1>2 DEF IsList
  <2> QED
    BY <2>1, <2>2 DEF Begun
<1>6. Joint
  <2>1. PICK m : m = plugin.manifest
    OBVIOUS
  <2>2. IsList(m)
    BY <1>1, <2>1 DEF RoutesInv, DeclaresSound, IsList
  <2>3. Definitions = m
    BY <1>2, <2>1, JoinedNone DEF Definitions
  <2> QED
    BY <1>2, <2>1, <2>2, <2>3, NoneJoined DEF Joint
<1> QED
  BY <1>2, <1>3, <1>4, <1>5, <1>6 DEF MountInv

\* In the history g there is one more declaration, e, than in h.
LEMMA ListedDeclared ==
  ASSUME NEW M, NEW h \in Seq(M), NEW d, SoundDeclaration(d), IsPath(Config[d.router].prefix),
         NEW e, e.declared = d, e.to = d.router, NEW r, NEW k, NEW l, Lists(l, Entries(h, r, k), h)
  PROVE  Lists(IF r = d.router /\ k = d.kind THEN Append(l, Definition(d)) ELSE l,
               Entries(Append(h, e), r, k), Append(h, e))
<1>1. PICK g : g = Append(h, e)
  OBVIOUS
<1>2. PICK n : n = Len(h) + 1
  OBVIOUS
<1>3. PICK E : E = Entries(h, r, k)
  OBVIOUS
<1>4. E \subseteq (DOMAIN h) \X (SUBSET DOMAIN h)
  BY <1>3, EntriesIn
<1>5. Lists(l, E, g)
  BY <1>1, <1>3, <1>4, ListsGrow
<1>6. Entries(g, r, k) = E \cup (IF r = d.router /\ k = d.kind THEN {<<n, {}>>} ELSE {})
  <2>1. Declaring(h, g, e)
    BY <1>1 DEF SoundDeclaration, Declaring
  <2> QED
    <3>1. Entries(g, r, k) = Entries(h, r, k) \cup DeclaredAt(e, Len(h) + 1, r, k)
      BY <2>1, EntriesDeclare
    <3> QED
      BY <1>2, <1>3, <3>1 DEF DeclaredAt
<1>7. CASE ~ (r = d.router /\ k = d.kind)
  BY <1>1, <1>5, <1>6, <1>7
<1>8. CASE r = d.router /\ k = d.kind
  <2>1. PICK m : m = <<n, {}>>
    OBVIOUS
  <2>2. PICK x : x = Definition(d)
    OBVIOUS
  <2>3. x = At(g, m)
    <3>1. MountedBy(g, n, {}) = Definition(d)
      BY <1>1, <1>2, MountedDeclared
    <3> QED
      BY <2>1, <2>2, <3>1 DEF At
  <2>4. Lists(<<x>>, {m}, g)
    BY <2>3, ListsOne
  <2>5. E \cap {m} = {}
    <3>1. n \notin DOMAIN h
      BY <1>2
    <3> QED
      BY <1>4, <2>1, <3>1
  <2>6. Lists(l \o <<x>>, E \cup {m}, g)
    BY <1>5, <2>4, <2>5, ListsConcat
  <2>7. Append(l, x) = l \o <<x>>
    <3>1. PICK N : l \in Seq(N)
      BY <1>5 DEF Lists, IsList
    <3>2. PICK u, v : u = Append(l, x) /\ v = l \o <<x>>
      OBVIOUS
    <3>3. u \in Seq(N \cup {x}) /\ v \in Seq(N \cup {x})
      BY <3>1, <3>2
    <3>4. Len(u) = Len(v) /\ \A i \in 1 .. Len(u) : u[i] = v[i]
      BY <3>1, <3>2
    <3> QED
      BY <3>2, <3>3, <3>4
  <2> QED
    BY <1>1, <1>6, <1>8, <2>1, <2>2, <2>6, <2>7
<1> QED
  BY <1>7, <1>8

\* In the history there is one more inclusion, e.
LEMMA ListedIncluded ==
  ASSUME NEW M, NEW h \in Seq(M), \A x \in M : SoundEntry(x), NEW e, SoundEntry(e), e.declared = Nil,
         NEW k, NEW l, Lists(l, Entries(h, e.to, k), h), NEW c, Lists(c, Entries(h, e.from, k), h)
  PROVE  Lists(l \o [i \in DOMAIN c |-> Included(c[i], Config[e.to])],
               Entries(Append(h, e), e.to, k), Append(h, e))
<1>1. PICK g : g = Append(h, e)
  OBVIOUS
<1>2. PICK n : n = Len(h) + 1
  OBVIOUS
<1>3. PICK E, F : E = Entries(h, e.to, k) /\ F = Entries(h, e.from, k)
  OBVIOUS
<1>4. /\ E \subseteq (DOMAIN h) \X (SUBSET DOMAIN h) /\ F \subseteq (DOMAIN h) \X (SUBSET DOMAIN h)
      /\ \A m \in F : h[m[1]].declared # Nil
  BY <1>3, EntriesIn
<1>5. PICK t : t = [i \in DOMAIN c |-> Included(c[i], Config[e.to])]
  OBVIOUS
<1>6. Lists(l, E, g)
  BY <1>1, <1>3, <1>4, ListsGrow
<1>7. Lists(t, Further(F, n), g)
  BY <1>1, <1>2, <1>3, <1>4, <1>5, ListsInclude
<1>8. E \cap Further(F, n) = {}
  <2>1. n \notin DOMAIN h
    BY <1>2
  <2>2. \A m \in E : n \notin m[2]
    BY <1>4, <2>1
  <2>3. \A m \in Further(F, n) : n \in m[2]
    BY DEF Further
  <2> QED
    BY <2>2, <2>3
<1>9. Lists(l \o t, E \cup Further(F, n), g)
  BY <1>6, <1>7, <1>8, ListsConcat
<1>10. Entries(g, e.to, k) = E \cup Further(F, n)
  <2>1. Including(h, g, e)
    BY <1>1 DEF Including
  <2>2. PICK r : r = e.to
    OBVIOUS
  <2>3. Entries(g, r, k) = Entries(h, r, k) \cup IncludedAt(h, e, Len(h) + 1, r, k)
    BY <2>1, EntriesInclude
  <2> QED
    BY <1>2, <1>3, <2>2, <2>3 DEF IncludedAt
<1> QED
  BY <1>1, <1>5, <1>9, <1>10
\* What neither routes nor registrations change keeps the invariant.
LEMMA MountKept ==
  ASSUME MountInv, UNCHANGED <<plugin, routes, registered, history>>,
         stage' = "building" => stage = "building",
         stage' = "mounted" => Len(registered) = Len(RootRoutes),
         stage = "calling" => stage' = "calling"
  PROVE  MountInv'
<1>1. RootRoutes' = RootRoutes /\ Definitions' = Definitions
  BY DEF RootRoutes, Definitions
<1>2. Begun => Begun'
  BY <1>1 DEF Begun
<1>3. Joint => Joint'
  BY <1>1 DEF Joint
<1>4. AllListed => AllListed'
  BY DEF AllListed
<1>5. stage' # "calling" => stage # "calling"
  OBVIOUS
<1> QED
  BY <1>1, <1>2, <1>3, <1>4, <1>5 DEF MountInv

\* While a plugin is being built
LEMMA BuildKept ==
  ASSUME MountInv, RoutesSound', Building, UNCHANGED <<plugin, stage, registered>>,
         SoundHistory(history)', AllListed'
  PROVE  MountInv'
<1>1. stage = "building" /\ stage' = "building" /\ registered = <<>> /\ registered' = <<>>
  BY DEF Building, MountInv
<1>2. Begun'
  BY <1>1, BegunEmpty
<1>3. Joint'
  <2>1. Definitions' = Definitions
    BY DEF Definitions
  <2>2. Joint
    BY <1>1 DEF MountInv
  <2> QED
    BY <2>1, <2>2 DEF Joint
<1> QED
  BY <1>1, <1>2, <1>3 DEF MountInv

LEMMA DeclareMounts ==
  ASSUME RoutesAssumption, RoutesInv, RoutesInv', MountInv, NEW d \in plugin.declares, Declare(d), Building
  PROVE  MountInv'
<1>1. PICK e : e = [declared |-> d, from |-> Nil, to |-> d.router]
  OBVIOUS
<1>2. e.declared = d /\ e.to = d.router
  BY <1>1
<1>3. PICK h : h = history
  OBVIOUS
<1>4. history' = Append(h, e)
  BY <1>1, <1>3 DEF Declare
<1>5. SoundDeclaration(d) /\ d.router \in Router /\ IsPath(Config[d.router].prefix)
  BY DEF RoutesInv, DeclaresSound, SoundDeclaration, RoutesAssumption
<1>6. stage # "calling"
  BY DEF Building
<1>7. SoundHistory(h) /\ AllListed
  BY <1>3, <1>6 DEF MountInv
<1>8. SoundEntry(e)
  BY <1>2, <1>5 DEF SoundEntry, SoundDeclaration
<1>9. SoundHistory(history)'
  BY <1>4, <1>7, <1>8, SoundHistoryGrows
<1>10. PICK M : h \in Seq(M)
  BY <1>7 DEF SoundHistory
<1>11. ASSUME NEW r \in Router, NEW k \in Range(Kinds)
       PROVE  Lists(routes'[r][k], Entries(history', r, k), history')
  <2>1. PICK l, x : l = routes[r][k] /\ x = Definition(d)
    OBVIOUS
  <2>2. Lists(l, Entries(h, r, k), h)
    BY <1>3, <1>7, <2>1 DEF AllListed
  <2>3. Lists(IF r = d.router /\ k = d.kind THEN Append(l, x) ELSE l,
              Entries(Append(h, e), r, k), Append(h, e))
    BY <1>2, <1>5, <1>10, <2>1, <2>2, ListedDeclared
  <2>4. routes'[r][k] = IF r = d.router /\ k = d.kind THEN Append(l, x) ELSE l
    <3>1. routes' = [routes EXCEPT ![d.router] =
                      [routes[d.router] EXCEPT ![d.kind] = Append(routes[d.router][d.kind], x)]]
      BY <2>1 DEF Declare
    <3> QED
      BY <1>5, <2>1, <3>1 DEF RoutesInv, RoutesSound
  <2> QED
    BY <1>4, <2>3, <2>4
<1>12. AllListed'
  BY <1>11 DEF AllListed
<1> QED
  BY <1>9, <1>12, BuildKept DEF Declare, RoutesInv

LEMMA IncludeMounts ==
  ASSUME RoutesAssumption, RoutesInv, RoutesInv', MountInv, NEW r \in Router, NEW child \in Router,
         Include(r, child)
  PROVE  MountInv'
<1>1. PICK e : e = [declared |-> Nil, from |-> child, to |-> r]
  OBVIOUS
<1>2. e.declared = Nil /\ e.from = child /\ e.to = r
  BY <1>1
<1>3. PICK h : h = history
  OBVIOUS
<1>4. history' = Append(h, e) /\ Building /\ r # child
  BY <1>1, <1>3 DEF Include
<1>5. stage # "calling"
  BY <1>4 DEF Building
<1>6. SoundHistory(h) /\ AllListed
  BY <1>3, <1>5 DEF MountInv
<1>7. SoundEntry(e)
  BY <1>2, <1>4 DEF SoundEntry
<1>8. SoundHistory(history)'
  BY <1>4, <1>6, <1>7, SoundHistoryGrows
<1>9. PICK M : h \in Seq(M) /\ \A x \in M : SoundEntry(x)
  BY <1>6 DEF SoundHistory
<1>10. PICK own : own = [k \in DOMAIN routes[r] |->
         routes[r][k] \o [i \in DOMAIN routes[child][k] |-> Included(routes[child][k][i], Config[r])]]
  OBVIOUS
<1>11. routes' = [routes EXCEPT ![r] = own] /\ DOMAIN routes = Router
  BY <1>10 DEF Include, RoutesInv, RoutesSound
<1>12. ASSUME NEW q \in Router, NEW k \in Range(Kinds)
       PROVE  Lists(routes'[q][k], Entries(history', q, k), history')
  <2>1. PICK l, c : l = routes[q][k] /\ c = routes[child][k]
    OBVIOUS
  <2>2. Lists(l, Entries(h, q, k), h) /\ Lists(c, Entries(h, child, k), h)
    BY <1>3, <1>6, <2>1 DEF AllListed
  <2>3. CASE q = r
    <3>1. Lists(l \o [i \in DOMAIN c |-> Included(c[i], Config[e.to])],
                Entries(Append(h, e), e.to, k), Append(h, e))
      BY <1>2, <1>7, <1>9, <2>2, <2>3, ListedIncluded
    <3>2. routes'[q][k] = l \o [i \in DOMAIN c |-> Included(c[i], Config[r])]
      BY <1>10, <1>11, <2>1, <2>3 DEF RoutesInv, RoutesSound
    <3> QED
      BY <1>2, <1>4, <2>3, <3>1, <3>2
  <2>4. CASE q # r
    <3>1. routes'[q][k] = l
      BY <1>11, <2>1, <2>4
    <3>2. Entries(Append(h, e), q, k) = Entries(h, q, k)
      <4>1. PICK g : g = Append(h, e)
        OBVIOUS
      <4>2. Including(h, g, e)
        BY <1>2, <4>1 DEF Including
      <4>3. Entries(g, q, k) = Entries(h, q, k) \cup IncludedAt(h, e, Len(h) + 1, q, k)
        BY <1>9, <4>2, EntriesInclude
      <4> QED
        BY <1>2, <2>4, <4>1, <4>3 DEF IncludedAt
    <3>3. PICK E : E = Entries(h, q, k)
      OBVIOUS
    <3>4. E \subseteq (DOMAIN h) \X (SUBSET DOMAIN h)
      BY <3>3, EntriesIn
    <3>5. Lists(l, E, Append(h, e))
      BY <1>9, <2>2, <3>3, <3>4, ListsGrow
    <3> QED
      BY <1>4, <3>1, <3>2, <3>3, <3>5
  <2> QED
    BY <2>3, <2>4
<1>13. AllListed'
  BY <1>12 DEF AllListed
<1> QED
  BY <1>4, <1>8, <1>13, BuildKept DEF Include, RoutesInv

LEMMA RegisterMounts ==
  ASSUME RoutesAssumption, RoutesInv, MountInv, Register
  PROVE  MountInv'
<1>1. PICK l, x, D : l = registered /\ x = NextRoute /\ D = Definitions
  OBVIOUS
<1>2. /\ stage = "mounting" /\ stage' = "mounting" /\ registered' = Append(l, x)
      /\ Len(l) < Len(RootRoutes) /\ Takes(x)
      /\ UNCHANGED <<plugin, routes, history>>
  BY <1>1 DEF Register
<1>3. SoundHistory(history) /\ AllListed /\ Begun /\ Joint
  BY <1>2 DEF MountInv
<1>4. RootRoutes' = RootRoutes
  BY <1>2 DEF RootRoutes
<1>5. PICK m : m = plugin.manifest
  OBVIOUS
<1>6. JoinedWell(D, m, l)
  BY <1>1, <1>3, <1>5 DEF Joint
<1>7. Sound(x)
  BY <1>1, NextSound DEF RoutesInv, Register
<1>8. MayJoin(D, l, x)
  <2>1. CASE x.kind = "command"
    <3>1. x.name \in Names(x) /\ Names(x) = CommandNames(x)
      BY <1>7, <2>1 DEF Names, CommandNames, Sound
    <3> QED
      BY <1>1, <1>2, <2>1, <3>1 DEF MayJoin, Takes, Defines
  <2>2. CASE x.kind # "command"
    <3>1. Names(x) = {x.name}
      BY <2>2 DEF Names
    <3> QED
      BY <1>1, <1>2, <3>1 DEF MayJoin, Takes
  <2> QED
    BY <2>1, <2>2
<1>9. JoinedWell(Joined(D, x), m, Append(l, x))
  BY <1>6, <1>8, JoinsWell
<1>10. Definitions' = Joined(D, x)
  <2>1. PICK M : l \in Seq(M)
    BY <1>6 DEF JoinedWell, IsList
  <2>2. AllJoined(m, Append(l, x)) = Joined(AllJoined(m, l), x)
    BY <2>1, JoinedOne
  <2> QED
    BY <1>1, <1>2, <1>5, <2>2 DEF Definitions
<1>11. Joint'
  BY <1>2, <1>5, <1>9, <1>10 DEF Joint
<1>12. PICK k : k = Append(l, x)
  OBVIOUS
<1>13. Extended(k, l, x)
  BY <1>1, <1>3, <1>12, AppendIs DEF Begun
<1>14. Begun'
  <2>1. PICK R : R = RootRoutes
    OBVIOUS
  <2>2. Len(R) \in Nat
    BY <2>1, RootIsList DEF RoutesInv
  <2>3. Len(l) <= Len(R) /\ \A i \in 1 .. Len(l) : l[i] = R[i]
    BY <1>1, <1>3, <2>1 DEF Begun
  <2>4. Len(k) <= Len(R)
    BY <1>2, <1>13, <2>1, <2>2 DEF Extended
  <2>5. x = R[Len(k)]
    BY <1>1, <1>13, <2>1 DEF NextRoute, Extended
  <2>6. \A i \in 1 .. Len(k) : k[i] = R[i]
    BY <1>13, <2>3, <2>5 DEF Extended
  <2> QED
    BY <1>2, <1>4, <1>12, <1>13, <2>1, <2>4, <2>6 DEF Begun, Extended
<1>15. AllListed' /\ SoundHistory(history')
  BY <1>2, <1>3 DEF AllListed
<1> QED
  BY <1>2, <1>11, <1>14, <1>15 DEF MountInv

LEMMA MountStep ==
  ASSUME RoutesAssumption, RoutesInv, RoutesInv', MountInv, [RoutesNext]_<<routeVars, argumentVars>>
  PROVE  MountInv'
<1>1. ASSUME NEW d \in plugin.declares,
             Command(d) \/ Scheduled(d) \/ Event(d) \/ Middleware(d) \/ Tool(d)
      PROVE  MountInv'
  <2>1. Declare(d) /\ Building
    BY <1>1 DEF Command, Scheduled, Event, Middleware, Tool, Declares
  <2> QED
    BY <2>1, DeclareMounts
<1>2. ASSUME NEW d \in plugin.declares, DeclareRefused(d) PROVE MountInv'
  BY <1>2, MountKept DEF DeclareRefused, Declares, Building
<1>3. ASSUME NEW r \in Router, NEW child \in Router, Include(r, child) PROVE MountInv'
  BY <1>3, IncludeMounts
<1>4. CASE SetUp
  BY <1>4, MountKept DEF SetUp
<1>5. CASE Register
  BY <1>5, RegisterMounts
<1>6. CASE RegisterFails
  BY <1>6, MountKept DEF RegisterFails
<1>7. CASE Mounted
  BY <1>7, MountKept DEF Mounted
<1>8. ASSUME NEW route \in Range(registered), CallCommand(route) PROVE MountInv'
  BY <1>8 DEF CallCommand, MountInv
<1>9. ASSUME NEW route \in Range(registered), CallInjected(route) PROVE MountInv'
  <2>1. UNCHANGED <<plugin, stage, routes, registered, history>>
    BY Zenon, <1>9 DEF CallInjected
  <2> QED
    BY <2>1, MountKept DEF MountInv
<1>10. ASSUME NEW route \in Range(registered), CallTool(route) PROVE MountInv'
  <2>1. UNCHANGED <<plugin, stage, routes, registered, history>>
    BY Zenon, <1>10 DEF CallTool
  <2> QED
    BY <2>1, MountKept DEF MountInv
<1>11. ASSUME NEW d \in Range(plugin.manifest), CallNobody(d) PROVE MountInv'
  BY <1>11, MountKept DEF CallNobody, MountInv
<1>12. CASE UNCHANGED routeVars
  BY <1>12, MountKept DEF routeVars, MountInv
<1> QED
  BY <1>1, <1>2, <1>3, <1>4, <1>5, <1>6, <1>7, <1>8, <1>9, <1>10, <1>11, <1>12 DEF RoutesNext

LEMMA MountedIsDeclared ==
  ASSUME RoutesAssumption, RoutesInv, MountInv
  PROVE  MountedAsDeclared
<1> SUFFICES ASSUME stage = "mounted" PROVE MountedAsDeclared
  BY DEF MountedAsDeclared
<1>1. /\ SoundHistory(history) /\ AllListed /\ Begun /\ Joint
      /\ Len(registered) = Len(RootRoutes)
  BY DEF MountInv
<1> DEFINE s == registered
           E == {m \in (DOMAIN history) \X (SUBSET DOMAIN history) :
                   history[m[1]].declared # Nil /\ m[2] \in Ways(history, m[1], Root)}
           v == [m \in E |-> MountedBy(history, m[1], m[2])]
<1>2. E = AllEntries(history)
  BY DEF AllEntries
<1> HIDE DEF s, E, v
<1>3. s = RootRoutes
  <2>1. PICK R : R = RootRoutes
    OBVIOUS
  <2>2. IsList(R)
    BY <2>1, RootIsList DEF RoutesInv
  <2>3. IsList(s) /\ Len(s) = Len(R) /\ \A i \in 1 .. Len(s) : s[i] = R[i]
    BY <1>1, <2>1 DEF Begun, s
  <2>4. PICK M, N : s \in Seq(M) /\ R \in Seq(N)
    BY <2>2, <2>3 DEF IsList
  <2>5. s = R
    BY <2>3, <2>4
  <2> QED
    BY <2>1, <2>5
<1>4. Lists(s, E, history) /\ Ordered(s)
  BY <1>1, <1>2, <1>3, RootListed DEF RoutesInv
<1>5. v = [m \in E |-> At(history, m)]
  BY DEF At, v
<1>6. \A x : Cardinality({i \in DOMAIN s : s[i] = x}) = Cardinality({m \in E : v[m] = x})
  <2>1. \A x : AsOften(s, E, v, x)
    BY <1>4, <1>5, ListsCount
  <2> QED
    BY <2>1 DEF AsOften
<1>7. \A i, j \in DOMAIN s : i < j =>
        \E a, b \in DOMAIN Kinds : a <= b /\ Kinds[a] = s[i].kind /\ Kinds[b] = s[j].kind
  <2>1. DOMAIN s = 1 .. Len(s) /\ DOMAIN Kinds = 1 .. 5
    BY <1>4, KindsDiffer DEF Lists, IsList
  <2> QED
    BY <1>4, <2>1 DEF Ordered
<1>8. HostHasThem
  BY <1>1, HostHas DEF Joint, RoutesInv, AllHandled
<1> QED
  BY Zenon, <1>6, <1>7, <1>8 DEF MountedAsDeclared, s, E, v

\* Whatever a plugin declares and includes, in whatever order: the host of a mounted plugin
\* has every handler once for each way on which it was included up to the root, as the
\* routers on that way ask for it, and no other.
THEOREM TheHostHasIt == RoutesSpec => []MountedAsDeclared
<1>1. RoutesInit => RoutesInv /\ MountInv
  BY RoutesBegin, MountBegins, RoutesAssumption
<1>2. RoutesInv /\ [RoutesNext]_<<routeVars, argumentVars>> => RoutesInv'
  BY RoutesStep, RoutesAssumption
<1>3. RoutesInv /\ RoutesInv' /\ MountInv /\ [RoutesNext]_<<routeVars, argumentVars>> => MountInv'
  BY MountStep, RoutesAssumption
<1>4. RoutesInv /\ MountInv => MountedAsDeclared
  BY MountedIsDeclared, RoutesAssumption
<1> QED
  BY <1>1, <1>2, <1>3, <1>4, PTL DEF RoutesSpec

=============================================================================
