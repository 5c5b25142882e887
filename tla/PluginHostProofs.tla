-------------------------- MODULE PluginHostProofs --------------------------
(***************************************************************************)
(* Proofs about PluginHost and PluginInstall, each behaviour of which is   *)
(* one of PluginHost.  The argument goes through the calls that the        *)
(* host's operations are composed of: each of them leaves the registries   *)
(* Good, and Apart from the plugin it is about untouched, whether it       *)
(* returns or raises; so do their compositions, whatever the modules do.   *)
(***************************************************************************)
EXTENDS PluginInstall, TLAPS

\* CommandsResolve, NamesAreOwn, StatusIsTrue and the types, of any record of the registries.
Resolves(s) ==
  /\ \A c \in Command, p \in Plugin : s.index[c] = p <=> c \in EnabledNames(s, p)
  /\ \A p \in Plugin : EnabledNames(s, p) # {} => p \in s.ready
  /\ \A c, d \in Command :
       s.index[c] # None /\ s.index[d] # None /\ Namespace[c] = Namespace[d]
         => s.index[c] = s.index[d]

Typed(s) ==
  /\ s \in Register
  /\ \A p \in Plugin : s.def[p] = "absent" <=> s.module[p] = None

Good(s) ==
  /\ Typed(s)
  /\ Resolves(s)
  /\ \A p \in Plugin : s.names[p] \subseteq Owned(s, p)
  /\ \A p \in Plugin :
       s.status[p] \in {"enabled", "disabled"} => s.def[p] = s.status[p]

Apart(s, t, p) == \A q \in Plugin \ {p} : Share(t, q) = Share(s, q)

USE PluginHostAssumption

LEMMA ApartTransitive ==
  ASSUME NEW s, NEW t, NEW u, NEW p, Apart(s, t, p), Apart(t, u, p)
  PROVE  Apart(s, u, p)
BY Zenon DEF Apart

LEMMA NamesAreCommands ==
  ASSUME NEW s, Typed(s), NEW p \in Plugin
  PROVE  /\ EnabledNames(s, p) \subseteq Command
         /\ s.def[p] = "enabled" => s.module[p] \in Module
BY DEF EnabledNames, Typed, Register

LEMMA ReclaimedGood ==
  ASSUME NEW s, Good(s), NEW p \in Plugin
  PROVE  Good(Reclaimed(s, p)) /\ Apart(s, Reclaimed(s, p), p)
<1> DEFINE r == Reclaimed(s, p)
<1>0. s \in Register
  BY DEF Good, Typed
<1>a. r \in Register
  BY <1>0 DEF Register, Reclaimed
<1>b. r.def = s.def /\ r.module = s.module /\ r.status = s.status
  BY <1>0 DEF Register, Reclaimed
<1>1. Typed(r)
  BY <1>a, <1>b DEF Good, Typed
<1>2. \A q \in Plugin : EnabledNames(r, q) = EnabledNames(s, q)
  BY DEF Good, Typed, Register, Reclaimed, EnabledNames
<1>3. r.index = s.index /\ r.ready = s.ready
  BY DEF Good, Typed, Register, Reclaimed
<1>4. Resolves(r)
  BY <1>2, <1>3 DEF Good, Resolves
<1>5. \A q \in Plugin \ {p} : r.names[q] = s.names[q] /\ Owned(r, q) = Owned(s, q)
  BY DEF Good, Typed, Register, Reclaimed, Owned
<1>6. r.names[p] = {}
  BY DEF Good, Typed, Register, Reclaimed
<1>7. Good(r)
  BY <1>b, <1>1, <1>4, <1>5, <1>6 DEF Good
<1>8. Apart(s, r, p)
  <2> SUFFICES ASSUME NEW q \in Plugin \ {p} PROVE Share(r, q) = Share(s, q)
    BY DEF Apart
  <2>1. r.def[q] = s.def[q] /\ r.module[q] = s.module[q] /\ r.status[q] = s.status[q]
    BY DEF Good, Typed, Register, Reclaimed
  <2>2. q \in r.tasks <=> q \in s.tasks
    BY DEF Good, Typed, Register, Reclaimed
  <2> QED BY <1>2, <1>3, <1>5, <2>1, <2>2 DEF Share
<1> QED BY <1>7, <1>8

\* Taking a plugin's names out of the index, and nothing else out of sight.
LEMMA UnindexedResolves ==
  ASSUME NEW s, Good(s), NEW p \in Plugin, NEW r,
         r.index = Unindexed(s, p), s.ready \ {p} \subseteq r.ready,
         \A q \in Plugin : EnabledNames(r, q) = IF q = p THEN {} ELSE EnabledNames(s, q)
  PROVE  Resolves(r)
<1>1. \A c \in Command : r.index[c] = IF c \in EnabledNames(s, p) THEN None ELSE s.index[c]
  BY DEF Unindexed
<1>2. \A c \in Command, q \in Plugin : r.index[c] = q <=> c \in EnabledNames(r, q)
  <2> SUFFICES ASSUME NEW c \in Command, NEW q \in Plugin
               PROVE  r.index[c] = q <=> c \in EnabledNames(r, q)
    OBVIOUS
  <2>1. s.index[c] = q <=> c \in EnabledNames(s, q)
    BY DEF Good, Resolves
  <2>2. s.index[c] = p <=> c \in EnabledNames(s, p)
    BY DEF Good, Resolves
  <2> QED BY <1>1, <2>1, <2>2
<1>3. \A q \in Plugin : EnabledNames(r, q) # {} => q \in r.ready
  BY DEF Good, Resolves
<1>4. \A c, d \in Command :
        r.index[c] # None /\ r.index[d] # None /\ Namespace[c] = Namespace[d]
          => r.index[c] = r.index[d]
  BY <1>1 DEF Good, Resolves
<1> QED BY <1>2, <1>3, <1>4 DEF Resolves

\* Adding names that conflict with nobody's to the index, for a plugin that had
\* none there.
LEMMA IndexedResolves ==
  ASSUME NEW s, Good(s), NEW p \in Plugin, NEW names \in SUBSET Command, NEW r,
         EnabledNames(s, p) = {}, ~Conflicts(s, p, names),
         r.index = Indexed(s, p, names), s.ready \subseteq r.ready,
         names # {} => p \in r.ready,
         \A q \in Plugin : EnabledNames(r, q) = IF q = p THEN names ELSE EnabledNames(s, q)
  PROVE  Resolves(r)
<1>1. \A c \in Command : r.index[c] = IF c \in names THEN p ELSE s.index[c]
  BY DEF Indexed
<1>2. \A c \in Command : s.index[c] # p
  BY DEF Good, Resolves
<1>3. \A c \in names, d \in Command : Namespace[c] = Namespace[d] => s.index[d] = None
  BY <1>2 DEF Conflicts
<1>4. \A c \in Command, q \in Plugin : r.index[c] = q <=> c \in EnabledNames(r, q)
  <2> SUFFICES ASSUME NEW c \in Command, NEW q \in Plugin
               PROVE  r.index[c] = q <=> c \in EnabledNames(r, q)
    OBVIOUS
  <2>1. s.index[c] = q <=> c \in EnabledNames(s, q)
    BY DEF Good, Resolves
  <2>2. c \in names => s.index[c] = None
    BY <1>3
  <2> QED BY <1>1, <1>2, <2>1, <2>2
<1>5. \A q \in Plugin : EnabledNames(r, q) # {} => q \in r.ready
  BY DEF Good, Resolves
<1>6. \A c, d \in Command :
        r.index[c] # None /\ r.index[d] # None /\ Namespace[c] = Namespace[d]
          => r.index[c] = r.index[d]
  BY <1>1, <1>3 DEF Good, Resolves
<1> QED BY <1>4, <1>5, <1>6 DEF Resolves

LEMMA DroppedGood ==
  ASSUME NEW s, Good(s), NEW p \in Plugin, s.names[p] = {}
  PROVE  Good(Dropped(s, p)) /\ Apart(s, Dropped(s, p), p)
<1> DEFINE r == Dropped(s, p)
<1>0. s \in Register
  BY DEF Good, Typed
<1>1. /\ \A q \in Plugin : r.def[q] = IF q = p THEN "absent" ELSE s.def[q]
      /\ \A q \in Plugin : r.module[q] = IF q = p THEN None ELSE s.module[q]
      /\ \A q \in Plugin : r.status[q] = IF q = p THEN "none" ELSE s.status[q]
      /\ r.ready = s.ready \ {p}
      /\ r.index = Unindexed(s, p)
      /\ r.owner = s.owner /\ r.names = s.names /\ r.tasks = s.tasks /\ r.leaky = s.leaky
  BY <1>0 DEF Register, Dropped
<1>2. Unindexed(s, p) \in [Command -> Plugin \cup {None}]
  BY <1>0 DEF Register, Unindexed
<1>3. r \in Register
  BY <1>0, <1>2 DEF Register, Dropped
<1>4. Typed(r)
  BY <1>1, <1>3 DEF Good, Typed
<1>5. \A q \in Plugin : EnabledNames(r, q) = IF q = p THEN {} ELSE EnabledNames(s, q)
  BY <1>1 DEF EnabledNames
<1>7. Resolves(r)
  BY <1>1, <1>5, UnindexedResolves
<1>8. \A q \in Plugin : Owned(r, q) = Owned(s, q)
  BY <1>1 DEF Owned
<1>9. Good(r)
  BY <1>1, <1>4, <1>7, <1>8 DEF Good
<1>10. Apart(s, r, p)
  BY <1>1, <1>5, <1>8 DEF Apart, Share
<1> QED BY <1>9, <1>10

LEMMA UnregisteredGood ==
  ASSUME NEW s, Good(s), NEW p \in Plugin
  PROVE  /\ Good(Unregistered(s, p)) /\ Apart(s, Unregistered(s, p), p)
         /\ ~Installed(Unregistered(s, p), p)
<1> DEFINE r == Reclaimed(s, p)
<1>1. Good(r) /\ Apart(s, r, p)
  BY ReclaimedGood
<1>2. s \in Register
  BY DEF Good, Typed
<1>3. r.names[p] = {} /\ r.def = s.def
  BY <1>2 DEF Register, Reclaimed
<1>4. CASE Installed(s, p)
  <2>1. Good(Dropped(r, p)) /\ Apart(r, Dropped(r, p), p)
    BY <1>1, <1>3, DroppedGood
  <2>2. Dropped(r, p).def[p] = "absent"
    BY <1>1 DEF Good, Typed, Register, Dropped
  <2> QED BY <1>1, <1>4, <2>1, <2>2, ApartTransitive DEF Unregistered, Installed
<1>5. CASE ~Installed(s, p)
  BY <1>1, <1>3, <1>5 DEF Unregistered, Installed
<1> QED BY <1>4, <1>5

LEMMA DisabledGood ==
  ASSUME NEW s, Good(s), NEW p \in Plugin
  PROVE  /\ Good(Disabled(s, p)) /\ Apart(s, Disabled(s, p), p)
         /\ Disabled(s, p).def[p] # "enabled"
<1>1. CASE s.def[p] # "enabled"
  BY <1>1 DEF Disabled, Apart
<1>2. CASE s.def[p] = "enabled"
  <2> DEFINE r == Disabled(s, p)
  <2>0. s \in Register
    BY DEF Good, Typed
  <2>1. /\ \A q \in Plugin : r.def[q] = IF q = p THEN "disabled" ELSE s.def[q]
        /\ \A q \in Plugin : r.status[q] = IF q = p THEN "disabled" ELSE s.status[q]
        /\ r.module = s.module /\ r.ready = s.ready
        /\ r.index = Unindexed(s, p)
        /\ r.owner = s.owner /\ r.names = s.names /\ r.tasks = s.tasks /\ r.leaky = s.leaky
    BY <1>2, <2>0 DEF Register, Disabled
  <2>2. Unindexed(s, p) \in [Command -> Plugin \cup {None}]
    BY <2>0 DEF Register, Unindexed
  <2>3. r \in Register
    BY <1>2, <2>0, <2>2 DEF Register, Disabled
  <2>4. Typed(r)
    BY <1>2, <2>1, <2>3 DEF Good, Typed
  <2>5. \A q \in Plugin : EnabledNames(r, q) = IF q = p THEN {} ELSE EnabledNames(s, q)
    BY <2>1 DEF EnabledNames
  <2>7. Resolves(r)
    BY <2>1, <2>5, UnindexedResolves
  <2>8. \A q \in Plugin : Owned(r, q) = Owned(s, q)
    BY <2>1 DEF Owned
  <2>9. Good(r)
    BY <2>1, <2>4, <2>7, <2>8 DEF Good
  <2>10. Apart(s, r, p)
    BY <2>1, <2>5, <2>8 DEF Apart, Share
  <2> QED BY <2>1, <2>9, <2>10
<1> QED BY <1>1, <1>2

\* A step that touches no more than the status and the history of p.
LEMMA MarkedGood ==
  ASSUME NEW s, Good(s), NEW p \in Plugin, NEW r \in Register,
         r.def = s.def, r.module = s.module, r.ready = s.ready, r.index = s.index,
         r.owner = s.owner, r.names = s.names, r.tasks = s.tasks,
         r.status[p] \in {"failed", "loaded"},
         \A q \in Plugin \ {p} : r.status[q] = s.status[q]
  PROVE  Good(r) /\ Apart(s, r, p)
<1>1. \A q \in Plugin : EnabledNames(r, q) = EnabledNames(s, q) /\ Owned(r, q) = Owned(s, q)
  BY DEF EnabledNames, Owned
<1>2. Resolves(r)
  BY <1>1 DEF Good, Resolves
<1>3. Good(r)
  BY <1>1, <1>2 DEF Good, Typed
<1>4. Apart(s, r, p)
  BY <1>1 DEF Apart, Share
<1> QED BY <1>3, <1>4

\* What a setup registers before it raises or returns.
LEMMA SetUpGood ==
  ASSUME NEW s, Good(s), NEW p \in Plugin, NEW task \in BOOLEAN,
         NEW tools \in SUBSET Tool, \A t \in tools : s.owner[t] = None
  PROVE  LET r == SetUp(s, p, tools, task)
         IN  /\ Good(r) /\ Apart(s, r, p)
             /\ r.def = s.def /\ r.module = s.module
             /\ tools \subseteq Owned(r, p)
<1> DEFINE r == SetUp(s, p, tools, task)
<1>0. s \in Register
  BY DEF Good, Typed
<1>1. /\ r.def = s.def /\ r.module = s.module /\ r.status = s.status
      /\ r.ready = s.ready /\ r.index = s.index /\ r.names = s.names
      /\ r.owner = [t \in Tool |-> IF t \in tools THEN p ELSE s.owner[t]]
      /\ r.tasks = IF task THEN s.tasks \cup {p} ELSE s.tasks
  BY <1>0 DEF Register, SetUp
<1>2. r \in Register
  BY <1>0 DEF Register, SetUp
<1>3. \A q \in Plugin : EnabledNames(r, q) = EnabledNames(s, q)
  BY <1>1 DEF EnabledNames
<1>4. Resolves(r)
  BY <1>1, <1>3 DEF Good, Resolves
<1>5. \A q \in Plugin \ {p} : Owned(r, q) = Owned(s, q)
  BY <1>1 DEF Owned
<1>6. Owned(s, p) \subseteq Owned(r, p) /\ tools \subseteq Owned(r, p)
  BY <1>1 DEF Owned
<1>7. Good(r)
  BY <1>1, <1>2, <1>4, <1>5, <1>6 DEF Good, Typed
<1>8. \A q \in Plugin \ {p} : q \in r.tasks <=> q \in s.tasks
  BY <1>1
<1>9. Apart(s, r, p)
  BY <1>1, <1>3, <1>5, <1>8 DEF Apart, Share
<1> QED BY <1>1, <1>6, <1>7, <1>9

LEMMA CutShortGood ==
  ASSUME NEW s, Good(s), NEW p \in Plugin, NEW m \in Module, NEW u \in CutShort(s, p, m)
  PROVE  Good(u) /\ Apart(s, u, p)
<1>1. PICK done \in [tools : SUBSET (m.tools \ Clashes(s, p, m)), task : {FALSE, m.task}] :
        u = [SetUp(s, p, done.tools, done.task) EXCEPT !.status[p] = "failed",
                                                       !.leaky = @ \cup {p}]
  BY Zenon DEF CutShort
<1> DEFINE tools == done.tools
           task == done.task
           r == SetUp(s, p, tools, task)
<1>2. tools \in SUBSET Tool /\ task \in BOOLEAN
  BY <1>1
<1>3. \A t \in tools : s.owner[t] = None
  BY <1>1 DEF Clashes
<1>4. Good(r) /\ Apart(s, r, p)
  BY <1>2, <1>3, SetUpGood
<1>5. r \in Register
  BY <1>4 DEF Good, Typed
<1> HIDE DEF r
<1>6. u = [r EXCEPT !.status[p] = "failed", !.leaky = @ \cup {p}]
  BY <1>1 DEF r
<1>7. /\ u \in Register
      /\ u.def = r.def /\ u.module = r.module /\ u.ready = r.ready /\ u.index = r.index
      /\ u.owner = r.owner /\ u.names = r.names /\ u.tasks = r.tasks
      /\ u.status[p] = "failed" /\ \A q \in Plugin \ {p} : u.status[q] = r.status[q]
  BY <1>5, <1>6 DEF Register
<1>8. Good(u) /\ Apart(r, u, p)
  BY <1>4, <1>7, MarkedGood
<1> QED BY <1>4, <1>8, ApartTransitive

\* The registry's register, where no conflict keeps it from going through.
LEMMA EnteredGood ==
  ASSUME NEW s, Good(s), NEW p \in Plugin, ~Installed(s, p), NEW m \in Module,
         NEW def \in {"enabled", "disabled"},
         def = "enabled" => ~Conflicts(s, p, m.commands)
  PROVE  LET r == Entered(s, p, m, def)
         IN  Good(r) /\ Apart(s, r, p) /\ r.def[p] = def
<1> DEFINE r == Entered(s, p, m, def)
           names == IF def = "enabled" THEN m.commands ELSE {}
<1>0. s \in Register
  BY DEF Good, Typed
<1>1. names \in SUBSET Command
  OBVIOUS
<1>2. /\ \A q \in Plugin : r.def[q] = IF q = p THEN def ELSE s.def[q]
      /\ \A q \in Plugin : r.module[q] = IF q = p THEN m ELSE s.module[q]
      /\ \A q \in Plugin : r.status[q] = IF q = p THEN def ELSE s.status[q]
      /\ r.ready = IF def = "enabled" THEN s.ready \cup {p} ELSE s.ready
      /\ r.index = Indexed(s, p, names)
      /\ r.owner = s.owner /\ r.names = s.names /\ r.tasks = s.tasks /\ r.leaky = s.leaky
  BY <1>0 DEF Register, Entered
<1>3. Indexed(s, p, names) \in [Command -> Plugin \cup {None}]
  BY <1>0, <1>1 DEF Register, Indexed
<1>4. r \in Register
  BY <1>0, <1>3 DEF Register, Entered
<1>5. Typed(r)
  BY <1>2, <1>4 DEF Good, Typed
<1>6. EnabledNames(s, p) = {}
  BY DEF Installed, EnabledNames
<1>7. \A q \in Plugin : EnabledNames(r, q) = IF q = p THEN names ELSE EnabledNames(s, q)
  BY <1>2 DEF EnabledNames
<1>8. ~Conflicts(s, p, names) /\ (names # {} => p \in r.ready)
  BY <1>2 DEF Conflicts
<1> HIDE DEF r, names
<1>9. Resolves(r)
  <2>1. s.ready \subseteq r.ready /\ r.index = Indexed(s, p, names)
    BY <1>2
  <2> QED BY <1>1, <2>1, <1>6, <1>7, <1>8, IndexedResolves
<1>10. \A q \in Plugin : Owned(r, q) = Owned(s, q)
  BY <1>2 DEF Owned
<1>11. Good(r)
  BY <1>2, <1>5, <1>9, <1>10 DEF Good
<1>12. Apart(s, r, p)
  BY <1>2, <1>7, <1>10 DEF Apart, Share
<1> QED BY <1>2, <1>11, <1>12 DEF r

LEMMA ConcludedGood ==
  ASSUME NEW s, Good(s), NEW p \in Plugin, NEW m \in Module, m.tools \subseteq Owned(s, p)
  PROVE  LET a == Concluded(s, p, m) IN Good(a.s) /\ Apart(s, a.s, p)
<1> DEFINE r == [s EXCEPT !.names[p] = m.tools]
<1>0. s \in Register
  BY DEF Good, Typed
<1>1. /\ r \in Register
      /\ r.def = s.def /\ r.module = s.module /\ r.status = s.status /\ r.ready = s.ready
      /\ r.index = s.index /\ r.owner = s.owner /\ r.tasks = s.tasks
      /\ \A q \in Plugin : r.names[q] = IF q = p THEN m.tools ELSE s.names[q]
  BY <1>0 DEF Register
<1>2. \A q \in Plugin : EnabledNames(r, q) = EnabledNames(s, q) /\ Owned(r, q) = Owned(s, q)
  BY <1>1 DEF EnabledNames, Owned
<1>3. Resolves(r)
  BY <1>1, <1>2 DEF Good, Resolves
<1>4. Good(r)
  BY <1>1, <1>2, <1>3 DEF Good, Typed
<1>5. Apart(s, r, p)
  BY <1>1, <1>2 DEF Apart, Share
<1>6. Installed(r, p) = Installed(s, p)
  BY <1>1 DEF Installed
<1>7. Conflicts(r, p, m.commands) = Conflicts(s, p, m.commands)
  BY <1>1 DEF Conflicts
<1> HIDE DEF r
<1>8. CASE Installed(s, p) \/ Conflicts(s, p, m.commands)
  <2> DEFINE c == Reclaimed(r, p)
             u == [c EXCEPT !.status[p] = "failed",
                            !.leaky = IF Installed(s, p) THEN @ \cup {p} ELSE @]
  <2>1. Good(c) /\ Apart(r, c, p)
    BY <1>4, ReclaimedGood
  <2>2. c \in Register
    BY <2>1 DEF Good, Typed
  <2>3. Concluded(s, p, m) = Raised(u)
    BY <1>8 DEF Concluded, r
  <2>4. Concluded(s, p, m).s = u
    BY <2>3 DEF Raised
  <2> HIDE DEF c
  <2>5. /\ u \in Register
        /\ u.def = c.def /\ u.module = c.module /\ u.ready = c.ready /\ u.index = c.index
        /\ u.owner = c.owner /\ u.names = c.names /\ u.tasks = c.tasks
        /\ u.status[p] = "failed" /\ \A q \in Plugin \ {p} : u.status[q] = c.status[q]
    BY <2>2 DEF Register
  <2> HIDE DEF u
  <2>6. Good(u) /\ Apart(c, u, p)
    BY <2>1, <2>5, MarkedGood
  <2> QED BY <1>5, <2>1, <2>4, <2>6, ApartTransitive
<1>9. CASE ~(Installed(s, p) \/ Conflicts(s, p, m.commands))
  <2>1. Good(Entered(r, p, m, "enabled")) /\ Apart(r, Entered(r, p, m, "enabled"), p)
    BY <1>4, <1>6, <1>7, <1>9, EnteredGood
  <2>2. Concluded(s, p, m) = Returned(Entered(r, p, m, "enabled"))
    BY <1>9 DEF Concluded, r
  <2>3. Concluded(s, p, m).s = Entered(r, p, m, "enabled")
    BY <2>2 DEF Returned
  <2> QED BY <1>5, <2>1, <2>3, ApartTransitive
<1> QED BY <1>8, <1>9

\* Whatever a module's setup does and however its registration ends.
LEMMA RegistrationGood ==
  ASSUME NEW s, Good(s), NEW p \in Plugin, NEW m \in Module, NEW a \in Registrations(s, p, m)
  PROVE  Good(a.s) /\ Apart(s, a.s, p)
<1> DEFINE done == SetUp(s, p, m.tools, m.task)
<1>1. CASE Shelved(m, p)
  <2>1. a = IF Installed(s, p) THEN Raised(s) ELSE Returned(Entered(s, p, m, "disabled"))
    BY <1>1 DEF Registrations
  <2>2. CASE Installed(s, p)
    BY <2>1, <2>2 DEF Raised, Apart
  <2>3. CASE ~Installed(s, p)
    <3>1. a.s = Entered(s, p, m, "disabled")
      BY <2>1, <2>3 DEF Returned
    <3> QED BY <2>3, <3>1, EnteredGood
  <2> QED BY <2>2, <2>3
<1>2. CASE ~Shelved(m, p) /\ SetupRaises(s, p, m)
  <2>1. PICK u \in CutShort(s, p, m) : a = Raised(u)
    BY <1>2 DEF Registrations
  <2>2. a.s = u
    BY <2>1 DEF Raised
  <2> QED BY <2>2, CutShortGood
<1>3. CASE ~Shelved(m, p) /\ ~SetupRaises(s, p, m)
  <2>1. m.tools \in SUBSET Tool /\ m.task \in BOOLEAN /\ \A t \in m.tools : s.owner[t] = None
    BY <1>3 DEF SetupRaises, Clashes
  <2>2. Good(done) /\ Apart(s, done, p) /\ m.tools \subseteq Owned(done, p)
    BY <2>1, SetUpGood
  <2>3. CASE m.breaks = "build"
    <3> DEFINE u == [done EXCEPT !.status[p] = "loaded", !.leaky = @ \cup {p}]
    <3>1. a = Raised(u)
      BY <1>3, <2>3 DEF Registrations
    <3>2. a.s = u
      BY <3>1 DEF Raised
    <3>3. done \in Register
      BY <2>2 DEF Good, Typed
    <3> HIDE DEF done
    <3>4. /\ u \in Register
          /\ u.def = done.def /\ u.module = done.module /\ u.ready = done.ready
          /\ u.index = done.index /\ u.owner = done.owner /\ u.names = done.names
          /\ u.tasks = done.tasks
          /\ u.status[p] = "loaded" /\ \A q \in Plugin \ {p} : u.status[q] = done.status[q]
      BY <3>3 DEF Register
    <3> HIDE DEF u
    <3>5. Good(u) /\ Apart(done, u, p)
      BY <2>2, <3>4, MarkedGood
    <3> QED BY <2>2, <3>2, <3>5, ApartTransitive
  <2>4. CASE m.breaks # "build"
    <3>1. a = Concluded(done, p, m)
      BY <1>3, <2>4 DEF Registrations
    <3> HIDE DEF done
    <3>2. Good(a.s) /\ Apart(done, a.s, p)
      BY <2>2, <3>1, ConcludedGood
    <3> QED BY <2>2, <3>2, ApartTransitive
  <2> QED BY <2>3, <2>4
<1> QED BY <1>1, <1>2, <1>3

LEMMA AsBeforeGood ==
  ASSUME NEW old, NEW s, Good(s), NEW p \in Plugin
  PROVE  /\ Good(AsBefore(old, s, p)) /\ Apart(s, AsBefore(old, s, p), p)
         /\ old.def[p] = "disabled" => AsBefore(old, s, p).def[p] # "enabled"
<1>1. CASE old.def[p] = "disabled"
  BY <1>1, DisabledGood DEF AsBefore
<1>2. CASE old.def[p] # "disabled"
  BY <1>2 DEF AsBefore, Apart
<1> QED BY <1>1, <1>2

\* A registration that raises registers no definition.
LEMMA RaisingKeepsDefinitions ==
  ASSUME NEW s, Good(s), NEW p \in Plugin, NEW m \in Module,
         NEW a \in Registrations(s, p, m), ~a.ok
  PROVE  a.s.def = s.def /\ a.s.module = s.module
<1>0. s \in Register
  BY DEF Good, Typed
<1>1. CASE Shelved(m, p)
  BY <1>1 DEF Registrations, Raised, Returned
<1>2. CASE ~Shelved(m, p) /\ SetupRaises(s, p, m)
  <2>1. PICK u \in CutShort(s, p, m) : a = Raised(u)
    BY <1>2 DEF Registrations
  <2>2. PICK d \in [tools : SUBSET (m.tools \ Clashes(s, p, m)), task : {FALSE, m.task}] :
          u = [SetUp(s, p, d.tools, d.task) EXCEPT !.status[p] = "failed",
                                                   !.leaky = @ \cup {p}]
    BY Zenon DEF CutShort
  <2> DEFINE r == SetUp(s, p, d.tools, d.task)
  <2>3. r \in Register /\ r.def = s.def /\ r.module = s.module
    BY <1>0 DEF Register, SetUp
  <2> HIDE DEF r
  <2>4. u = [r EXCEPT !.status[p] = "failed", !.leaky = @ \cup {p}]
    BY <2>2 DEF r
  <2>5. u.def = r.def /\ u.module = r.module
    BY <2>3, <2>4 DEF Register
  <2> QED BY <2>1, <2>3, <2>5 DEF Raised
<1>3. CASE ~Shelved(m, p) /\ ~SetupRaises(s, p, m)
  <2> DEFINE done == SetUp(s, p, m.tools, m.task)
  <2>1. done \in Register /\ done.def = s.def /\ done.module = s.module
    BY <1>0 DEF Register, SetUp
  <2>2. CASE m.breaks = "build"
    <3>1. a = Raised([done EXCEPT !.status[p] = "loaded", !.leaky = @ \cup {p}])
      BY <1>3, <2>2 DEF Registrations
    <3> HIDE DEF done
    <3> QED BY <2>1, <3>1 DEF Raised, Register
  <2>3. CASE m.breaks # "build"
    <3>1. a = Concluded(done, p, m)
      BY <1>3, <2>3 DEF Registrations
    <3> HIDE DEF done
    <3> DEFINE r == [done EXCEPT !.names[p] = m.tools]
               c == Reclaimed(r, p)
    <3>2. r \in Register /\ r.def = done.def /\ r.module = done.module
      BY <2>1 DEF Register
    <3>3. Installed(done, p) \/ Conflicts(done, p, m.commands)
      BY <3>1 DEF Concluded, Returned
    <3>4. a.s = [c EXCEPT !.status[p] = "failed",
                          !.leaky = IF Installed(done, p) THEN @ \cup {p} ELSE @]
      BY <3>1, <3>3 DEF Concluded, Raised
    <3> HIDE DEF r
    <3>5. c \in Register /\ c.def = r.def /\ c.module = r.module
      BY <3>2 DEF Register, Reclaimed
    <3> HIDE DEF c
    <3> QED BY <2>1, <3>2, <3>4, <3>5 DEF Register
  <2> QED BY <2>2, <2>3
<1> QED BY <1>1, <1>2, <1>3

LEMMA RollbackGood ==
  ASSUME NEW old, NEW s, Good(s), NEW p \in Plugin, old.module[p] \in Module,
         NEW t \in Rollbacks(old, s, p)
  PROVE  Good(t) /\ Apart(s, t, p) /\ (old.def[p] = "disabled" => t.def[p] # "enabled")
<1> DEFINE u == Unregistered(s, p)
           m == old.module[p]
<1>1. Good(u) /\ Apart(s, u, p) /\ ~Installed(u, p)
  BY UnregisteredGood
<1>2. PICK b \in Registrations(u, p, m) : t = IF b.ok THEN AsBefore(old, b.s, p) ELSE b.s
  BY DEF Rollbacks
<1> HIDE DEF u, m
<1>3. Good(b.s) /\ Apart(u, b.s, p)
  <2>1. m \in Module
    BY DEF m
  <2> QED BY <1>1, <2>1, RegistrationGood
<1>4. CASE b.ok
  <2>1. /\ Good(t) /\ Apart(b.s, t, p)
        /\ old.def[p] = "disabled" => t.def[p] # "enabled"
    BY <1>2, <1>3, <1>4, AsBeforeGood
  <2> QED BY <1>1, <1>3, <2>1, ApartTransitive
<1>5. CASE ~b.ok
  <2>1. m \in Module
    BY DEF m
  <2>2. b.s.def = u.def
    BY <1>1, <1>5, <2>1, RaisingKeepsDefinitions
  <2>3. t = b.s /\ t.def[p] # "enabled"
    BY <1>1, <1>2, <1>5, <2>2 DEF Installed
  <2> QED BY <1>1, <1>3, <2>3, ApartTransitive
<1> QED BY <1>4, <1>5

LEMMA ReloadGood ==
  ASSUME NEW s, Good(s), NEW p \in Plugin, Installed(s, p), NEW m \in Module,
         NEW t \in Reloads(s, p, m)
  PROVE  Good(t) /\ Apart(s, t, p) /\ (s.def[p] = "disabled" => t.def[p] # "enabled")
<1> DEFINE u == Unregistered(s, p)
<1>1. Good(u) /\ Apart(s, u, p)
  BY UnregisteredGood
<1>2. PICK a \in Registrations(u, p, m) :
        t \in IF a.ok THEN {AsBefore(s, a.s, p)} ELSE Rollbacks(s, a.s, p)
  BY DEF Reloads
<1> HIDE DEF u
<1>3. Good(a.s) /\ Apart(u, a.s, p)
  BY <1>1, RegistrationGood
<1>4. /\ Good(t) /\ Apart(a.s, t, p)
      /\ s.def[p] = "disabled" => t.def[p] # "enabled"
  <2>1. CASE a.ok
    <3>1. t = AsBefore(s, a.s, p)
      BY <1>2, <2>1
    <3> QED BY <1>3, <3>1, AsBeforeGood
  <2>2. CASE ~a.ok
    <3>1. s.module[p] \in Module
      BY DEF Good, Typed, Register, Installed
    <3>2. t \in Rollbacks(s, a.s, p)
      BY <1>2, <2>2
    <3> QED BY <1>3, <3>1, <3>2, RollbackGood
  <2> QED BY <2>1, <2>2
<1> QED BY <1>1, <1>3, <1>4, ApartTransitive

LEMMA EnableGood ==
  ASSUME NEW p \in Plugin, Good(state), Enable(p)
  PROVE  Good(state') /\ Apart(state, state', p)
<1> DEFINE m == state.module[p]
<1>0. state \in Register /\ m \in Module
  BY DEF Good, Typed, Register, Enable
<1>1. /\ \A q \in Plugin : state'.def[q] = IF q = p THEN "enabled" ELSE state.def[q]
      /\ \A q \in Plugin : state'.status[q] = IF q = p THEN "enabled" ELSE state.status[q]
      /\ state'.module = state.module /\ state'.ready = state.ready
      /\ state'.index = Indexed(state, p, m.commands)
      /\ state'.owner = state.owner /\ state'.names = state.names
      /\ state'.tasks = state.tasks
  BY <1>0 DEF Register, Enable
<1>2. Indexed(state, p, m.commands) \in [Command -> Plugin \cup {None}]
  BY <1>0 DEF Register, Indexed
<1>3. state' \in Register
  BY <1>0, <1>2 DEF Register, Enable
<1>4. Typed(state')
  BY <1>1, <1>3 DEF Good, Typed, Enable
<1>5. /\ EnabledNames(state, p) = {} /\ ~Conflicts(state, p, m.commands)
      /\ m.commands # {} => p \in state.ready
      /\ m.commands \in SUBSET Command
  BY <1>0 DEF Enable, MayEnable, EnabledNames
<1>6. \A q \in Plugin :
        EnabledNames(state', q) = IF q = p THEN m.commands ELSE EnabledNames(state, q)
  BY <1>1 DEF EnabledNames
<1> HIDE DEF m
<1>7. Resolves(state')
  BY <1>1, <1>5, <1>6, IndexedResolves
<1>8. \A q \in Plugin : Owned(state', q) = Owned(state, q)
  BY <1>1 DEF Owned
<1>9. Good(state')
  BY <1>1, <1>4, <1>7, <1>8 DEF Good
<1>10. Apart(state, state', p)
  BY <1>1, <1>6, <1>8 DEF Apart, Share
<1> QED BY <1>9, <1>10

-----------------------------------------------------------------------------
LEMMA InitGood == Init => Good(state)
  BY DEF Init, Good, Typed, Register, Resolves, EnabledNames, Owned

LEMMA StepGood ==
  ASSUME Good(state), [Next]_state
  PROVE  Good(state') /\ (state' = state \/ \E p \in Plugin : Apart(state, state', p))
<1>1. CASE state' = state
  BY <1>1
<1>2. CASE Next
  <2>1. PICK p \in Plugin :
          (\E m \in Module : Load(p, m) \/ Reload(p, m)) \/ Enable(p) \/ Disable(p)
    BY <1>2 DEF Next
  <2>2. ASSUME NEW m \in Module, Load(p, m) PROVE Good(state') /\ Apart(state, state', p)
    BY <2>2, RegistrationGood DEF Load
  <2>3. ASSUME NEW m \in Module, Reload(p, m) PROVE Good(state') /\ Apart(state, state', p)
    BY <2>3, ReloadGood DEF Reload
  <2>4. CASE Enable(p)
    BY <2>4, EnableGood
  <2>5. CASE Disable(p)
    BY <2>5, DisabledGood DEF Disable
  <2> QED BY <2>1, <2>2, <2>3, <2>4, <2>5
<1> QED BY <1>1, <1>2

LEMMA AlwaysGood == Spec => []Good(state)
<1>1. Good(state) /\ [Next]_state => Good(state)'
  BY StepGood
<1> QED BY InitGood, <1>1, PTL DEF Spec

\* The registries keep their types, whatever modules plugins consist of.
THEOREM HostTypes == Spec => []TypeOK
<1>1. Good(state) => TypeOK
  BY DEF Good, Typed, TypeOK
<1> QED BY AlwaysGood, <1>1, PTL

\* The command index (registry.py _command_to_plugin) agrees with the enabled
\* definitions and never gives one namespace to two plugins.
THEOREM CommandsAlwaysResolve == Spec => []CommandsResolve
<1>1. Good(state) => CommandsResolve
  BY DEF Good, Resolves, CommandsResolve
<1> QED BY AlwaysGood, <1>1, PTL

\* The host (_plugin_tool_names) only ever unregisters a plugin's own tools.
THEOREM NamesStayOwn == Spec => []NamesAreOwn
<1>1. Good(state) => NamesAreOwn
  BY DEF Good, NamesAreOwn
<1> QED BY AlwaysGood, <1>1, PTL

\* The lifecycle status (registry.py _statuses) of an installed plugin is that
\* of its definition, unless it tells of a failure.
THEOREM StatusesAreTrue == Spec => []StatusIsTrue
<1>1. Good(state) => StatusIsTrue
  BY DEF Good, StatusIsTrue
<1> QED BY AlwaysGood, <1>1, PTL

\* Loading, reloading, rolling back, enabling and disabling a plugin leave all
\* other plugins as they are in every registry.
THEOREM OthersStayUntouched == Spec => OthersUntouched
<1>1. Good(state) /\ [Next]_state
        => [\E p \in Plugin : \A q \in Plugin \ {p} : Share(state, q)' = Share(state, q)]_state
  <2> SUFFICES ASSUME Good(state), [Next]_state, state' # state
               PROVE  \E p \in Plugin : \A q \in Plugin \ {p} : Share(state, q)' = Share(state, q)
    OBVIOUS
  <2>1. PICK p \in Plugin : Apart(state, state', p)
    BY StepGood
  <2> QED BY <2>1 DEF Apart, Share, EnabledNames, Owned
<1> QED BY AlwaysGood, <1>1, PTL DEF Spec, OthersUntouched

\* reload, its rollback included, leaves a disabled plugin disabled or takes it
\* away, but never enables it.
THEOREM ReloadsKeepDisabled == Spec => ReloadKeepsDisabled
<1>1. Good(state) /\ [Next]_state
        => [\A p \in Plugin :
              state.def[p] = "disabled" /\ state'.def[p] = "enabled"
                => ~\E m \in Module : Reload(p, m)]_state
  <2> SUFFICES ASSUME Good(state), NEW p \in Plugin, NEW m \in Module, Reload(p, m),
                      state.def[p] = "disabled"
               PROVE  state'.def[p] # "enabled"
    OBVIOUS
  <2> QED BY ReloadGood DEF Reload
<1> QED BY AlwaysGood, <1>1, PTL DEF Spec, ReloadKeepsDisabled
-----------------------------------------------------------------------------
\* A registration that returns has installed the module where none was.
LEMMA ReturningInstalls ==
  ASSUME NEW s, Good(s), NEW p \in Plugin, NEW m \in Module,
         NEW a \in Registrations(s, p, m), a.ok
  PROVE  ~Installed(s, p) /\ Installed(a.s, p) /\ a.s.module[p] = m
<1>0. s \in Register
  BY DEF Good, Typed
<1>1. CASE Shelved(m, p)
  <2>1. a.s = Entered(s, p, m, "disabled") /\ ~Installed(s, p)
    BY <1>1 DEF Registrations, Raised, Returned
  <2> QED BY <1>0, <2>1 DEF Entered, Register, Installed
<1>2. CASE ~Shelved(m, p) /\ SetupRaises(s, p, m)
  BY <1>2 DEF Registrations, Raised
<1>3. CASE ~Shelved(m, p) /\ ~SetupRaises(s, p, m)
  <2> DEFINE done == SetUp(s, p, m.tools, m.task)
             r == [done EXCEPT !.names[p] = m.tools]
  <2>1. done \in Register /\ done.def = s.def
    BY <1>0 DEF Register, SetUp
  <2>2. m.breaks # "build"
    BY <1>3 DEF Registrations, Raised
  <2>3. a = Concluded(done, p, m)
    BY <1>3, <2>2 DEF Registrations
  <2> HIDE DEF done
  <2>4. a.s = Entered(r, p, m, "enabled") /\ ~Installed(done, p)
    BY <2>3 DEF Concluded, Raised, Returned
  <2>5. r \in Register
    BY <2>1 DEF Register
  <2> HIDE DEF r
  <2> QED BY <2>1, <2>4, <2>5 DEF Entered, Register, Installed
<1> QED BY <1>1, <1>2, <1>3

LEMMA AsBeforeInstalled ==
  ASSUME NEW old, NEW s, Good(s), NEW p \in Plugin
  PROVE  /\ Installed(AsBefore(old, s, p), p) <=> Installed(s, p)
         /\ AsBefore(old, s, p).module = s.module
BY DEF AsBefore, Disabled, Installed, Good, Typed, Register

LEMMA ApartKeeps ==
  ASSUME NEW s, NEW t, NEW p, Apart(s, t, p), NEW q \in Plugin \ {p}
  PROVE  t.def[q] = s.def[q] /\ t.module[q] = s.module[q]
BY DEF Apart, Share

Restored(old, t, p) == Installed(t, p) => t.module[p] = old.module[p]

\* After a rollback the plugin is gone or has its old module.
LEMMA RollbackRestoresModule ==
  ASSUME NEW old, NEW s, Good(s), NEW p \in Plugin, old.module[p] \in Module,
         NEW t \in Rollbacks(old, s, p)
  PROVE  Restored(old, t, p)
<1> DEFINE u == Unregistered(s, p)
           m == old.module[p]
<1>1. Good(u) /\ ~Installed(u, p)
  BY UnregisteredGood
<1>2. PICK b \in Registrations(u, p, m) : t = IF b.ok THEN AsBefore(old, b.s, p) ELSE b.s
  BY DEF Rollbacks
<1> HIDE DEF u
<1>3. CASE b.ok
  <2>1. Good(b.s) /\ b.s.module[p] = m
    BY <1>1, <1>3, RegistrationGood, ReturningInstalls
  <2> QED BY <1>2, <1>3, <2>1, AsBeforeInstalled DEF Restored
<1>4. CASE ~b.ok
  <2>1. b.s.def = u.def
    BY <1>1, <1>4, RaisingKeepsDefinitions
  <2> QED BY <1>1, <1>2, <1>4, <2>1 DEF Installed, Restored
<1> QED BY <1>3, <1>4

-----------------------------------------------------------------------------
(* What the registries hold of a plugin. *)

\* Accounted, of one plugin and any record of the registries.
Accounts(s, p) ==
  LET up == p \in s.ready
  IN  /\ Owned(s, p) = IF up THEN s.module[p].tools ELSE {}
      /\ s.names[p] = Owned(s, p)
      /\ p \in s.tasks <=> up /\ s.module[p].task

\* With what it rests on: executors are those of an installed module, and a module that
\* may be registered enabled has been set up without a fault of its own.
Kept(s, p) ==
  /\ p \in s.ready => Installed(s, p)
  /\ Installed(s, p) /\ ~Shelved(s.module[p], p) => s.module[p].breaks = "no"
  /\ p \notin s.leaky => Accounts(s, p)

\* An operation on p, from s to t.
Keeps(s, t, p) ==
  /\ s.leaky \subseteq t.leaky /\ t.leaky \subseteq s.leaky \cup {p}
  /\ Kept(s, p) => Kept(t, p)

LEMMA KeepsTransitive ==
  ASSUME NEW s, NEW t, NEW u, NEW p, Keeps(s, t, p), Keeps(t, u, p)
  PROVE  Keeps(s, u, p)
BY DEF Keeps

LEMMA OthersKept ==
  ASSUME NEW s, NEW t, NEW p, Apart(s, t, p), Keeps(s, t, p), NEW q \in Plugin \ {p}, Kept(s, q)
  PROVE  Kept(t, q)
<1>1. Share(t, q) = Share(s, q)
  BY DEF Apart
<1>2. /\ t.def[q] = s.def[q] /\ t.module[q] = s.module[q] /\ (q \in t.ready <=> q \in s.ready)
      /\ Owned(t, q) = Owned(s, q) /\ t.names[q] = s.names[q] /\ (q \in t.tasks <=> q \in s.tasks)
  BY <1>1 DEF Share
<1>3. q \in t.leaky <=> q \in s.leaky
  BY DEF Keeps
<1> QED
  BY <1>2, <1>3 DEF Kept, Accounts, Installed

\* Cleaning up after a plugin whose registrations are accounted for leaves nothing of it.
LEMMA ReclaimedClears ==
  ASSUME NEW s \in Register, NEW p \in Plugin, NEW t, t = Reclaimed(s, p)
  PROVE  /\ t \in Register
         /\ t.def = s.def /\ t.module = s.module /\ t.ready = s.ready /\ t.index = s.index
         /\ t.status = s.status /\ t.leaky = s.leaky
         /\ t.names[p] = {} /\ p \notin t.tasks
         /\ s.names[p] = Owned(s, p) => Owned(t, p) = {}
<1>1. /\ t \in Register
      /\ t.def = s.def /\ t.module = s.module /\ t.ready = s.ready /\ t.index = s.index
      /\ t.status = s.status /\ t.leaky = s.leaky
      /\ t.names[p] = {} /\ t.tasks = s.tasks \ {p}
      /\ t.owner = [x \in Tool |-> IF x \in s.names[p] THEN None ELSE s.owner[x]]
  BY DEF Register, Reclaimed
<1>2. ASSUME s.names[p] = Owned(s, p) PROVE Owned(t, p) = {}
  BY <1>1, <1>2 DEF Owned
<1> QED
  BY <1>1, <1>2

LEMMA UnregisteredKeeps ==
  ASSUME NEW s, Good(s), NEW p \in Plugin, NEW t, t = Unregistered(s, p)
  PROVE  Keeps(s, t, p) /\ p \notin t.tasks
<1> DEFINE r == Reclaimed(s, p)
<1>0. s \in Register
  BY DEF Good, Typed
<1>1. /\ r \in Register
      /\ r.def = s.def /\ r.module = s.module /\ r.ready = s.ready /\ r.leaky = s.leaky
      /\ r.names[p] = {} /\ p \notin r.tasks
      /\ s.names[p] = Owned(s, p) => Owned(r, p) = {}
  BY <1>0, ReclaimedClears
<1>2. t = IF Installed(s, p) THEN Dropped(r, p) ELSE r
  BY DEF Unregistered
<1> HIDE DEF r
<1>3. CASE Installed(s, p)
  <2>1. /\ t.ready = r.ready \ {p} /\ t.def[p] = "absent" /\ t.leaky = r.leaky
        /\ t.names = r.names /\ t.tasks = r.tasks /\ t.owner = r.owner
    BY <1>1, <1>2, <1>3 DEF Dropped, Register
  <2>2. Owned(t, p) = Owned(r, p)
    BY <2>1 DEF Owned
  <2>3. p \notin t.ready /\ p \notin t.tasks /\ t.names[p] = {} /\ ~Installed(t, p)
    BY <1>1, <2>1 DEF Installed
  <2>4. ASSUME p \notin s.leaky, Kept(s, p) PROVE Accounts(t, p)
    <3>1. Owned(t, p) = {}
      BY <1>1, <2>2, <2>4 DEF Kept, Accounts
    <3> QED
      BY <2>3, <3>1 DEF Accounts
  <2>5. Kept(s, p) => Kept(t, p)
    BY <1>1, <2>1, <2>3, <2>4 DEF Kept
  <2> QED
    BY <1>1, <2>1, <2>3, <2>5 DEF Keeps
<1>4. CASE ~Installed(s, p)
  <2>1. t = r
    BY <1>2, <1>4
  <2>2. ASSUME p \notin s.leaky, Kept(s, p) PROVE Accounts(t, p)
    <3>1. Owned(t, p) = {} /\ p \notin t.ready
      BY <1>1, <1>4, <2>1, <2>2 DEF Kept, Accounts
    <3> QED
      BY <1>1, <2>1, <3>1 DEF Accounts
  <2>3. ~Installed(t, p)
    BY <1>1, <1>4, <2>1 DEF Installed
  <2>4. Kept(s, p) => Kept(t, p)
    BY <1>1, <1>4, <2>1, <2>2, <2>3 DEF Kept
  <2> QED
    BY <1>1, <2>1, <2>4 DEF Keeps
<1> QED
  BY <1>3, <1>4

\* A registration that ends in the history of leaks is accounted for in no other way.
LEMMA LeakyKeeps ==
  ASSUME NEW s \in Register, NEW p \in Plugin, NEW t \in Register,
         t.def = s.def, t.module = s.module, t.ready = s.ready, t.leaky = s.leaky \cup {p}
  PROVE  Keeps(s, t, p)
BY DEF Keeps, Kept, Installed

\* What a setup that works leaves behind, where nothing of the plugin was.
LEMMA SetUpOwns ==
  ASSUME NEW s \in Register, NEW p \in Plugin, NEW m \in Module, NEW t,
         t = SetUp(s, p, m.tools, m.task)
  PROVE  /\ t \in Register
         /\ t.def = s.def /\ t.module = s.module /\ t.ready = s.ready /\ t.leaky = s.leaky
         /\ t.index = s.index /\ t.names = s.names
         /\ Owned(s, p) = {} => Owned(t, p) = m.tools
         /\ p \notin s.tasks => (p \in t.tasks <=> m.task)
<1>1. /\ t \in Register
      /\ t.def = s.def /\ t.module = s.module /\ t.ready = s.ready /\ t.leaky = s.leaky
      /\ t.index = s.index /\ t.names = s.names
      /\ t.owner = [x \in Tool |-> IF x \in m.tools THEN p ELSE s.owner[x]]
      /\ t.tasks = IF m.task THEN s.tasks \cup {p} ELSE s.tasks
  BY DEF Register, SetUp
<1>2. m.tools \in SUBSET Tool
  OBVIOUS
<1>3. ASSUME Owned(s, p) = {} PROVE Owned(t, p) = m.tools
  BY <1>1, <1>2, <1>3 DEF Owned
<1> QED
  BY <1>1, <1>3

LEMMA ConcludedKeeps ==
  ASSUME NEW s \in Register, NEW p \in Plugin, NEW m \in Module,
         ~Shelved(m, p), m.breaks = "no",
         NEW done, done = SetUp(s, p, m.tools, m.task),
         NEW a, a = Concluded(done, p, m)
  PROVE  /\ Keeps(s, a.s, p)
         /\ ~a.ok /\ ~Installed(s, p) => Conflicts(a.s, p, m.commands)
<1>1. /\ done \in Register
      /\ done.def = s.def /\ done.module = s.module /\ done.ready = s.ready /\ done.leaky = s.leaky
      /\ done.index = s.index
      /\ Owned(s, p) = {} => Owned(done, p) = m.tools
      /\ p \notin s.tasks => (p \in done.tasks <=> m.task)
  BY SetUpOwns
<1>2. PICK r : r = [done EXCEPT !.names[p] = m.tools]
  OBVIOUS
<1>3. /\ r \in Register
      /\ r.def = done.def /\ r.module = done.module /\ r.ready = done.ready /\ r.leaky = done.leaky
      /\ r.index = done.index /\ r.owner = done.owner /\ r.tasks = done.tasks
      /\ r.names[p] = m.tools
  <2>1. m.tools \in SUBSET Tool /\ done.names \in [Plugin -> SUBSET Tool]
    BY <1>1 DEF Register
  <2>2. [done.names EXCEPT ![p] = m.tools] \in [Plugin -> SUBSET Tool]
    BY <2>1
  <2>3. r.names = [done.names EXCEPT ![p] = m.tools]
    BY <1>1, <1>2 DEF Register
  <2>4. /\ r.def = done.def /\ r.module = done.module /\ r.ready = done.ready
        /\ r.leaky = done.leaky /\ r.index = done.index /\ r.owner = done.owner
        /\ r.tasks = done.tasks
    BY <1>1, <1>2 DEF Register
  <2>5. r \in Register
    BY <1>1, <1>2, <2>2 DEF Register
  <2>6. r.names[p] = m.tools
    BY <2>1, <2>3
  <2> QED
    BY <2>4, <2>5, <2>6
<1>4. Owned(r, p) = Owned(done, p)
  BY <1>3 DEF Owned
<1>5. Installed(done, p) <=> Installed(s, p)
  BY <1>1 DEF Installed
<1>6. CASE Installed(done, p) \/ Conflicts(done, p, m.commands)
  <2>1. PICK c : c = Reclaimed(r, p)
    OBVIOUS
  <2>2. /\ c \in Register
        /\ c.def = r.def /\ c.module = r.module /\ c.ready = r.ready /\ c.leaky = r.leaky
        /\ c.index = r.index
        /\ c.names[p] = {} /\ p \notin c.tasks
        /\ r.names[p] = Owned(r, p) => Owned(c, p) = {}
    BY <1>3, <2>1, ReclaimedClears
  <2>3. a = Raised([c EXCEPT !.status[p] = "failed",
                             !.leaky = IF Installed(done, p) THEN @ \cup {p} ELSE @])
    BY <1>2, <1>6, <2>1 DEF Concluded
  <2>4. PICK t : t = a.s
    OBVIOUS
  <2>5. /\ t \in Register
        /\ t.def = c.def /\ t.module = c.module /\ t.ready = c.ready /\ t.index = c.index
        /\ t.names = c.names /\ t.tasks = c.tasks /\ t.owner = c.owner
        /\ t.leaky = IF Installed(done, p) THEN c.leaky \cup {p} ELSE c.leaky
    <3>1. t = [c EXCEPT !.status[p] = "failed",
                        !.leaky = IF Installed(done, p) THEN @ \cup {p} ELSE @]
      BY <2>3, <2>4 DEF Raised
    <3>2. c \in Register
      BY <2>2
    <3> HIDE <1>6
    <3> QED
      BY <3>1, <3>2 DEF Register
  <2>6. CASE Installed(s, p)
    <3>1. Keeps(s, t, p)
      BY <1>1, <1>3, <1>5, <2>2, <2>5, <2>6, LeakyKeeps
    <3> QED
      BY <2>4, <2>6, <3>1
  <2>7. CASE ~Installed(s, p)
    <3>1. t.leaky = s.leaky /\ t.ready = s.ready /\ ~Installed(t, p)
      BY <1>1, <1>3, <1>5, <2>2, <2>5, <2>7 DEF Installed
    <3>2. ASSUME Kept(s, p), p \notin s.leaky PROVE Accounts(t, p)
      <4>1. Owned(s, p) = {} /\ p \notin s.ready
        BY <2>7, <3>2 DEF Kept, Accounts
      <4>2. Owned(c, p) = {}
        BY <1>1, <1>3, <1>4, <2>2, <4>1
      <4>3. Owned(t, p) = Owned(c, p)
        BY <2>5 DEF Owned
      <4> QED
        BY <2>2, <2>5, <3>1, <4>1, <4>2, <4>3 DEF Accounts
    <3>3. Kept(s, p) => Kept(t, p)
      BY <2>7, <3>1, <3>2 DEF Kept
    <3>4. Conflicts(t, p, m.commands)
      BY <1>3, <1>5, <1>6, <2>2, <2>5, <2>7 DEF Conflicts
    <3> QED
      BY <2>4, <3>1, <3>3, <3>4 DEF Keeps
  <2> QED
    BY <2>6, <2>7
<1>7. CASE ~(Installed(done, p) \/ Conflicts(done, p, m.commands))
  <2>1. a = Returned(Entered(r, p, m, "enabled"))
    BY <1>2, <1>7 DEF Concluded
  <2>2. PICK t : t = a.s
    OBVIOUS
  <2>3. /\ t.def[p] = "enabled" /\ t.module[p] = m /\ t.ready = r.ready \cup {p}
        /\ t.names = r.names /\ t.tasks = r.tasks /\ t.owner = r.owner /\ t.leaky = r.leaky
    <3>1. t = Entered(r, p, m, "enabled")
      BY <2>1, <2>2 DEF Returned
    <3> QED
      BY <1>3, <3>1 DEF Entered, Register
  <2>4. ASSUME Kept(s, p), p \notin s.leaky PROVE Accounts(t, p)
    <3>1. Owned(s, p) = {} /\ p \notin s.tasks
      BY <1>5, <1>7, <2>4 DEF Kept, Accounts
    <3>2. Owned(t, p) = Owned(r, p)
      BY <2>3 DEF Owned
    <3> QED
      BY <1>1, <1>3, <1>4, <2>3, <3>1, <3>2 DEF Accounts
  <2>5. Kept(s, p) => Kept(t, p)
    BY <1>1, <1>3, <2>3, <2>4 DEF Kept, Installed
  <2> QED
    BY <1>1, <1>3, <2>1, <2>2, <2>3, <2>5 DEF Keeps, Returned
<1> QED
  BY <1>6, <1>7

\* However a registration ends; and one that raises where neither the plugin nor its task
\* was does so for a name that another plugin or an earlier leak holds.
LEMMA RegistrationKeeps ==
  ASSUME NEW s, Good(s), NEW p \in Plugin, NEW m \in Module, NEW a \in Registrations(s, p, m)
  PROVE  /\ Keeps(s, a.s, p)
         /\ ~a.ok /\ ~Installed(s, p) /\ p \notin s.tasks /\ (~Shelved(m, p) => m.breaks = "no")
              => Blocked(a.s, p, m)
<1>0. s \in Register
  BY DEF Good, Typed
<1>1. CASE Shelved(m, p)
  <2>1. a = IF Installed(s, p) THEN Raised(s) ELSE Returned(Entered(s, p, m, "disabled"))
    BY <1>1 DEF Registrations
  <2>2. CASE Installed(s, p)
    BY <2>1, <2>2 DEF Raised, Keeps
  <2>3. CASE ~Installed(s, p)
    <3>1. PICK t : t = Entered(s, p, m, "disabled")
      OBVIOUS
    <3>2. /\ t.ready = s.ready /\ t.owner = s.owner /\ t.names = s.names /\ t.tasks = s.tasks
          /\ t.leaky = s.leaky /\ t.module[p] = m /\ t.def[p] = "disabled"
      BY <1>0, <3>1 DEF Entered, Register
    <3>3. Owned(t, p) = Owned(s, p)
      BY <3>2 DEF Owned
    <3>4. Kept(s, p) => Kept(t, p)
      BY <1>1, <2>3, <3>2, <3>3 DEF Kept, Accounts, Installed
    <3> QED
      BY <2>1, <2>3, <3>1, <3>2, <3>4 DEF Keeps, Returned
  <2> QED
    BY <2>2, <2>3
<1>2. CASE ~Shelved(m, p) /\ SetupRaises(s, p, m)
  <2>1. PICK u \in CutShort(s, p, m) : a = Raised(u)
    BY <1>2 DEF Registrations
  <2>2. PICK d \in [tools : SUBSET (m.tools \ Clashes(s, p, m)), task : {FALSE, m.task}] :
          u = [SetUp(s, p, d.tools, d.task) EXCEPT !.status[p] = "failed",
                                                   !.leaky = @ \cup {p}]
    BY Zenon DEF CutShort
  <2>3. PICK r : r = SetUp(s, p, d.tools, d.task)
    OBVIOUS
  <2>4. /\ r \in Register /\ r.def = s.def /\ r.module = s.module /\ r.ready = s.ready
        /\ r.leaky = s.leaky
        /\ r.owner = [x \in Tool |-> IF x \in d.tools THEN p ELSE s.owner[x]]
    BY <1>0, <2>2, <2>3 DEF Register, SetUp
  <2>5. u = [r EXCEPT !.status[p] = "failed", !.leaky = @ \cup {p}]
    BY <2>2, <2>3
  <2>6. /\ u \in Register /\ u.def = r.def /\ u.module = r.module /\ u.ready = r.ready
        /\ u.leaky = r.leaky \cup {p} /\ u.owner = r.owner
    BY <2>4, <2>5 DEF Register
  <2>7. Keeps(s, u, p)
    BY <1>0, <2>4, <2>6, LeakyKeeps
  <2>8. ASSUME p \notin s.tasks, m.breaks = "no" PROVE Blocked(u, p, m)
    <3>1. PICK x \in m.tools : s.owner[x] # None
      BY <1>2, <2>8 DEF SetupRaises, Clashes
    <3>2. x \in Tool /\ p # None
      BY <3>1
    <3>3. u.owner[x] # None
      BY <2>4, <2>6, <3>1, <3>2
    <3>4. x \in Clashes(u, p, m)
      BY <3>1, <3>3 DEF Clashes
    <3> QED
      BY <1>2, <3>4 DEF Blocked, Shelved
  <2> QED
    BY <1>2, <2>1, <2>7, <2>8 DEF Raised
<1>3. CASE ~Shelved(m, p) /\ ~SetupRaises(s, p, m)
  <2>1. PICK done : done = SetUp(s, p, m.tools, m.task)
    OBVIOUS
  <2>2. CASE m.breaks = "build"
    <3>1. a = Raised([done EXCEPT !.status[p] = "loaded", !.leaky = @ \cup {p}])
      BY <1>3, <2>1, <2>2 DEF Registrations
    <3>2. /\ done \in Register
          /\ done.def = s.def /\ done.module = s.module /\ done.ready = s.ready /\ done.leaky = s.leaky
      BY <1>0, <2>1, SetUpOwns
    <3>3. PICK u : u = [done EXCEPT !.status[p] = "loaded", !.leaky = @ \cup {p}]
      OBVIOUS
    <3>4. /\ u \in Register /\ u.def = s.def /\ u.module = s.module /\ u.ready = s.ready
          /\ u.leaky = s.leaky \cup {p}
      BY <3>2, <3>3 DEF Register
    <3>5. Keeps(s, u, p)
      BY <1>0, <3>4, LeakyKeeps
    <3> QED
      BY <1>3, <2>2, <3>1, <3>3, <3>5 DEF Raised
  <2>3. CASE m.breaks # "build"
    <3>1. a = Concluded(done, p, m)
      BY <1>3, <2>1, <2>3 DEF Registrations
    <3>2. m.breaks = "no"
      BY <1>3, <2>3 DEF SetupRaises
    <3>3. Keeps(s, a.s, p) /\ (~a.ok /\ ~Installed(s, p) => Conflicts(a.s, p, m.commands))
      BY <1>0, <1>3, <2>1, <3>1, <3>2, ConcludedKeeps
    <3> QED
      BY <1>3, <3>3 DEF Blocked, Shelved
  <2> QED
    BY <2>2, <2>3
<1> QED
  BY <1>1, <1>2, <1>3

LEMMA DisabledKeeps ==
  ASSUME NEW s, Good(s), NEW p \in Plugin, NEW t, t = Disabled(s, p)
  PROVE  Keeps(s, t, p)
<1>0. s \in Register
  BY DEF Good, Typed
<1>1. CASE s.def[p] # "enabled"
  BY <1>1 DEF Disabled, Keeps
<1>2. CASE s.def[p] = "enabled"
  <2>1. /\ t.ready = s.ready /\ t.module = s.module /\ t.leaky = s.leaky /\ t.tasks = s.tasks
        /\ t.owner = s.owner /\ t.names = s.names /\ t.def[p] = "disabled"
    BY <1>0, <1>2 DEF Disabled, Register
  <2>2. Owned(t, p) = Owned(s, p)
    BY <2>1 DEF Owned
  <2>3. Kept(s, p) => Kept(t, p)
    BY <1>2, <2>1, <2>2 DEF Kept, Accounts, Installed
  <2> QED
    BY <2>1, <2>3 DEF Keeps
<1> QED
  BY <1>1, <1>2

LEMMA AsBeforeKeeps ==
  ASSUME NEW old, NEW s, Good(s), NEW p \in Plugin
  PROVE  Keeps(s, AsBefore(old, s, p), p)
<1>1. PICK t : t = Disabled(s, p)
  OBVIOUS
<1>2. Keeps(s, t, p)
  BY <1>1, DisabledKeeps
<1> QED
  BY <1>1, <1>2 DEF AsBefore, Keeps

LEMMA EnableKeeps ==
  ASSUME Good(state), NEW p \in Plugin, Enable(p)
  PROVE  Keeps(state, state', p)
<1>0. state \in Register
  BY DEF Good, Typed
<1>1. PICK t : t = state'
  OBVIOUS
<1>2. /\ t.ready = state.ready /\ t.module = state.module /\ t.leaky = state.leaky
      /\ t.tasks = state.tasks /\ t.owner = state.owner /\ t.names = state.names
      /\ t.def[p] = "enabled" /\ state.def[p] = "disabled"
  BY <1>0, <1>1 DEF Enable, Register
<1>3. Owned(t, p) = Owned(state, p)
  BY <1>2 DEF Owned
<1>4. Kept(state, p) => Kept(t, p)
  BY <1>2, <1>3 DEF Kept, Accounts, Installed
<1> QED
  BY <1>1, <1>2, <1>4 DEF Keeps

\* A rollback that does not bring the plugin back met a name of its old module.
LEMMA RollbackKeeps ==
  ASSUME NEW old, NEW s, Good(s), NEW p \in Plugin, old.module[p] \in Module,
         NEW t \in Rollbacks(old, s, p)
  PROVE  /\ Keeps(s, t, p)
         /\ /\ ~Shelved(old.module[p], p) => old.module[p].breaks = "no"
            /\ ~Installed(t, p)
            => Blocked(t, p, old.module[p])
<1> DEFINE m == old.module[p]
<1>1. PICK u : u = Unregistered(s, p)
  OBVIOUS
<1>2. Good(u) /\ ~Installed(u, p) /\ Keeps(s, u, p) /\ p \notin u.tasks
  BY <1>1, UnregisteredGood, UnregisteredKeeps
<1>3. PICK b \in Registrations(u, p, m) : t = IF b.ok THEN AsBefore(old, b.s, p) ELSE b.s
  BY <1>1 DEF Rollbacks
<1>4. /\ Good(b.s) /\ Keeps(u, b.s, p)
      /\ ~b.ok /\ (~Shelved(m, p) => m.breaks = "no") => Blocked(b.s, p, m)
  BY <1>2, RegistrationGood, RegistrationKeeps
<1>5. Keeps(b.s, t, p)
  <2>1. CASE b.ok
    BY <1>3, <1>4, <2>1, AsBeforeKeeps
  <2>2. CASE ~b.ok
    BY <1>3, <2>2 DEF Keeps
  <2> QED
    BY <2>1, <2>2
<1>6. b.ok => Installed(t, p)
  BY <1>2, <1>3, <1>4, ReturningInstalls, AsBeforeInstalled
<1>7. Keeps(s, t, p)
  BY <1>2, <1>4, <1>5, KeepsTransitive
<1> QED
  BY <1>3, <1>4, <1>6, <1>7

\* A reload that loses the plugin met a name of its old module when it rolled back.
LEMMA ReloadKeeps ==
  ASSUME NEW s, Good(s), NEW p \in Plugin, Installed(s, p), NEW m \in Module,
         NEW t \in Reloads(s, p, m)
  PROVE  /\ Keeps(s, t, p)
         /\ Kept(s, p) /\ ~Installed(t, p) => Blocked(t, p, s.module[p])
<1>0. s.module[p] \in Module
  BY DEF Good, Typed, Register, Installed
<1>1. PICK u : u = Unregistered(s, p)
  OBVIOUS
<1>2. Good(u) /\ Keeps(s, u, p)
  BY <1>1, UnregisteredGood, UnregisteredKeeps
<1>3. PICK a \in Registrations(u, p, m) :
        t \in IF a.ok THEN {AsBefore(s, a.s, p)} ELSE Rollbacks(s, a.s, p)
  BY <1>1 DEF Reloads
<1>4. Good(a.s) /\ Keeps(u, a.s, p)
  BY <1>2, RegistrationGood, RegistrationKeeps
<1>5. CASE a.ok
  <2>1. t = AsBefore(s, a.s, p)
    BY <1>3, <1>5
  <2>2. Keeps(a.s, t, p) /\ Installed(t, p)
    BY <1>2, <1>4, <1>5, <2>1, AsBeforeKeeps, AsBeforeInstalled, ReturningInstalls
  <2> QED
    BY <1>2, <1>4, <2>2, KeepsTransitive
<1>6. CASE ~a.ok
  <2>1. t \in Rollbacks(s, a.s, p)
    BY <1>3, <1>6
  <2>2. /\ Keeps(a.s, t, p)
        /\ (~Shelved(s.module[p], p) => s.module[p].breaks = "no") /\ ~Installed(t, p)
             => Blocked(t, p, s.module[p])
    BY <1>0, <1>4, <2>1, RollbackKeeps
  <2>3. Keeps(s, t, p)
    BY <1>2, <1>4, <2>2, KeepsTransitive
  <2> QED
    BY <2>2, <2>3 DEF Kept
<1> QED
  BY <1>5, <1>6

LostBy(p) == Installed(state, p) /\ ~Installed(state', p)

\* A step keeps the account of every plugin, and loses one only to a conflict.
LEMMA StepKeeps ==
  ASSUME Good(state), \A q \in Plugin : Kept(state, q), [Next]_state
  PROVE  \A q \in Plugin :
           /\ Kept(state', q)
           /\ LostBy(q) => Blocked(state', q, state.module[q])
<1>1. CASE state' = state
  BY <1>1 DEF LostBy
<1>2. CASE Next
  <2>1. PICK p \in Plugin :
          (\E m \in Module : Load(p, m) \/ Reload(p, m)) \/ Enable(p) \/ Disable(p)
    BY <1>2 DEF Next
  <2>2. PICK t : t = state'
    OBVIOUS
  <2>3. /\ Apart(state, t, p) /\ Keeps(state, t, p)
        /\ Installed(state, p) /\ ~Installed(t, p) => Blocked(t, p, state.module[p])
    <3>1. ASSUME NEW m \in Module, Load(p, m)
          PROVE  /\ Apart(state, t, p) /\ Keeps(state, t, p)
                 /\ Installed(state, p) => Installed(t, p)
      <4>1. PICK a \in Registrations(state, p, m) : t = a.s
        BY <2>2, <3>1 DEF Load
      <4>2. Apart(state, t, p) /\ Keeps(state, t, p)
        BY <4>1, RegistrationGood, RegistrationKeeps
      <4>3. CASE a.ok
        BY <4>1, <4>2, <4>3, ReturningInstalls
      <4>4. CASE ~a.ok
        BY <4>1, <4>2, <4>4, RaisingKeepsDefinitions DEF Installed
      <4> QED
        BY <4>3, <4>4
    <3>2. ASSUME NEW m \in Module, Reload(p, m)
          PROVE  /\ Apart(state, t, p) /\ Keeps(state, t, p)
                 /\ ~Installed(t, p) => Blocked(t, p, state.module[p])
      BY <2>2, <3>2, ReloadGood, ReloadKeeps DEF Reload
    <3>3. ASSUME Enable(p)
          PROVE  Apart(state, t, p) /\ Keeps(state, t, p) /\ Installed(t, p)
      <4>1. state \in Register
        BY DEF Good, Typed
      <4> QED
        BY <2>2, <3>3, <4>1, EnableGood, EnableKeeps DEF Enable, Installed, Register
    <3>4. ASSUME Disable(p)
          PROVE  Apart(state, t, p) /\ Keeps(state, t, p) /\ Installed(t, p)
      <4>1. state \in Register /\ t = Disabled(state, p) /\ state.def[p] = "enabled"
        BY <2>2, <3>4 DEF Good, Typed, Disable
      <4>2. Apart(state, t, p) /\ Keeps(state, t, p)
        BY <4>1, DisabledGood, DisabledKeeps
      <4>3. Installed(t, p)
        BY <4>1 DEF Disabled, Installed, Register
      <4> QED
        BY <4>2, <4>3
    <3> QED
      BY <2>1, <3>1, <3>2, <3>3, <3>4
  <2>4. ASSUME NEW q \in Plugin \ {p}
        PROVE  Kept(t, q) /\ (Installed(state, q) <=> Installed(t, q))
    BY <2>3, OthersKept, ApartKeeps DEF Installed
  <2>5. Kept(t, p)
    BY <2>3 DEF Keeps
  <2> QED
    BY <2>2, <2>3, <2>4, <2>5 DEF LostBy
<1> QED
  BY <1>1, <1>2

LEMMA InitKept == Init => \A p \in Plugin : Kept(state, p)
  BY DEF Init, Kept, Accounts, Installed, Owned

LEMMA AlwaysKept == Spec => [](\A p \in Plugin : Kept(state, p))
<1> DEFINE K == \A p \in Plugin : Kept(state, p)
<1>1. Good(state) /\ K /\ [Next]_state => K'
  BY StepKeeps
<1> QED
  BY InitKept, AlwaysGood, <1>1, PTL DEF Spec

\* The tool registry and the scheduler hold what the installed modules registered: after
\* every return, raise and rollback of the host, of each plugin whose setups were neither
\* cut short nor run on top of an installed one.
THEOREM RegistriesAlwaysAgree == Spec => []RegistriesAgree
<1>1. (\A p \in Plugin : Kept(state, p)) => Accounted
  BY DEF Kept, Accounts, Accounted
<1>2. Good(state) => CommandsResolve
  BY DEF Good, Resolves, CommandsResolve
<1> QED
  BY AlwaysGood, AlwaysKept, <1>1, <1>2, PTL DEF RegistriesAgree

\* reload's rollback (host.py) loses a plugin only where a name of its old module has been
\* taken: the faults of the new module, whatever they are, are no other way to lose it.
THEOREM PluginsAreLostToConflicts == Spec => LostToAConflict
<1>1. Good(state) /\ (\A p \in Plugin : Kept(state, p)) /\ [Next]_state
        => [\A p \in Plugin :
              Installed(state, p) /\ ~Installed(state', p)
                => Blocked(state', p, state.module[p])]_state
  BY StepKeeps DEF LostBy
<1> QED
  BY AlwaysGood, AlwaysKept, <1>1, PTL DEF Spec, LostToAConflict

-----------------------------------------------------------------------------
(* PluginInstall. *)

USE InstallAssumption

\* What loading does before anything is decided: no environment that is complete is
\* touched, and what was loaded has one.
LEMMA LoadsKeep ==
  ASSUME InstallTypeOK, NEW path \in Path, NEW project \in Project,
         NEW o \in Loads(path, project)
  PROVE  /\ o.assets \in [Plugin -> Path \cup {None}]
         /\ o.env \in [Project -> Project \cup {None}]
         /\ \A q \in Project : env[Key(q)] = q => o.env[Key(q)] = q
         /\ \A q \in Plugin : assets[q] # None => o.assets[q] # None
         /\ o.ok => /\ o.assets[project.id] # None
                    /\ project.needs => o.env[Key(project)] = project
<1> DEFINE roots == Rooted(path, project)
<1>1. /\ assets \in [Plugin -> Path \cup {None}] /\ env \in [Project -> Project \cup {None}]
      /\ project.id \in Plugin /\ path # None /\ project # None
  BY DEF InstallTypeOK
<1>2. /\ roots \in [Plugin -> Path \cup {None}] /\ roots[project.id] # None
      /\ \A q \in Plugin : assets[q] # None => roots[q] # None
  BY <1>1 DEF Rooted
<1>3. CASE ~Readable(project)
  BY <1>1, <1>3 DEF Loads, LoadRaised
<1>4. CASE Readable(project) /\ ~Sound(project)
  BY <1>1, <1>2, <1>4 DEF Loads, LoadRaised
<1>5. CASE Readable(project) /\ Sound(project)
  <2>1. PICK e \in Ensured(roots, project) : o = Imported(project, e)
    BY <1>5 DEF Loads
  <2> HIDE DEF roots
  <2>2. /\ e.assets = roots
        /\ e.env \in [Project -> Project \cup {None}]
        /\ \A q \in Project : env[Key(q)] = q => e.env[Key(q)] = q
        /\ e.ok => (project.needs => e.env[Key(project)] = project)
        /\ DOMAIN e = {"ok", "assets", "env"}
    BY <1>1 DEF Ensured, Asked, Creations, Marked, Loaded, LoadRaised, Key
  <2>3. o.assets = e.assets /\ o.env = e.env /\ (o.ok => e.ok)
    BY <2>1, <2>2 DEF Imported
  <2> QED BY <1>2, <2>2, <2>3
<1> QED BY <1>3, <1>4, <1>5

\* InstalledAsRecorded, of one plugin and any state.
Recorded(s, from, roots, envs, p) ==
  /\ Installed(s, p) <=> from # None
  /\ Installed(s, p) =>
       /\ from.project.id = p
       /\ from.project.module = s.module[p]
       /\ from.project.needs => envs[Key(from.project)] = from.project
       /\ roots[p] # None

InstallInv ==
  /\ Good(state) /\ InstallTypeOK
  /\ \A p \in Plugin : Recorded(state, source[p], assets, env, p)

\* A plugin whose module and source stay what they are stays recorded, whatever is loaded.
LEMMA StaysRecorded ==
  ASSUME InstallInv, NEW path \in Path, NEW project \in Project,
         NEW o \in Loads(path, project), NEW q \in Plugin, NEW t,
         t.def[q] = state.def[q], t.module[q] = state.module[q]
  PROVE  Recorded(t, source[q], o.assets, o.env, q)
<1>1. Installed(t, q) <=> Installed(state, q)
  BY DEF Installed
<1>2. Recorded(state, source[q], assets, env, q)
  BY DEF InstallInv
<1>3. source[q] # None => source[q].project \in Project
  BY DEF InstallInv, InstallTypeOK
<1>4. /\ \A k \in Project : env[Key(k)] = k => o.env[Key(k)] = k
      /\ \A p \in Plugin : assets[p] # None => o.assets[p] # None
  BY LoadsKeep DEF InstallInv
<1> QED BY <1>1, <1>2, <1>3, <1>4 DEF Recorded

LEMMA LoadPathStep ==
  ASSUME InstallInv, NEW path \in Path, NEW project \in Project, LoadPath(path, project)
  PROVE  /\ InstallInv'
         /\ Apart(state, state', project.id)
         /\ [\E p \in Plugin, m \in Module : Load(p, m)]_state
         /\ \A p \in Plugin : source[p] # None => source'[p] = source[p]
<1> DEFINE p == project.id
           m == project.module
<1>0. p \in Plugin /\ m \in Module /\ Good(state) /\ InstallTypeOK
  BY DEF InstallInv
<1>1. PICK o \in Loads(path, project) :
        /\ assets' = o.assets /\ env' = o.env
        /\ IF o.ok THEN RegisterLoaded(path, project) ELSE UNCHANGED <<state, source>>
  BY DEF LoadPath
<1>2. /\ assets' \in [Plugin -> Path \cup {None}] /\ env' \in [Project -> Project \cup {None}]
      /\ o.ok => /\ assets'[project.id] # None
                 /\ project.needs => env'[Key(project)] = project
  BY <1>0, <1>1, LoadsKeep
<1>3. CASE ~o.ok
  <2>1. state' = state /\ source' = source
    BY <1>1, <1>3
  <2>2. \A q \in Plugin : Recorded(state', source'[q], assets', env', q)
    BY <1>1, <2>1, StaysRecorded
  <2>3. InstallTypeOK' /\ Good(state')
    BY <1>0, <1>2, <2>1 DEF InstallTypeOK, TypeOK
  <2>4. InstallInv'
    BY <2>2, <2>3 DEF InstallInv
  <2> QED BY <2>1, <2>4 DEF Apart
<1>4. CASE o.ok
  <2>1. PICK a \in Registrations(state, p, m) :
          /\ state' = a.s
          /\ source' = IF a.ok THEN [source EXCEPT ![p] = At(path, project)] ELSE source
    BY <1>1, <1>4 DEF RegisterLoaded
  <2>2. Good(state') /\ Apart(state, state', p)
    BY <1>0, <2>1, RegistrationGood
  <2>3. Load(p, m)
    BY <2>1 DEF Load
  <2>4. \A q \in Plugin \ {p} : Recorded(state', source'[q], assets', env', q)
    <3> SUFFICES ASSUME NEW q \in Plugin \ {p}
                 PROVE  Recorded(state', source'[q], assets', env', q)
      OBVIOUS
    <3>1. state'.def[q] = state.def[q] /\ state'.module[q] = state.module[q]
      BY <2>2, ApartKeeps
    <3>2. source'[q] = source[q]
      BY <1>0, <2>1 DEF InstallTypeOK
    <3> QED BY <1>1, <3>1, <3>2, StaysRecorded
  <2>5. CASE a.ok
    <3>1. Installed(state', p) /\ state'.module[p] = m
      BY <1>0, <2>1, <2>5, ReturningInstalls
    <3>2. At(path, project) # None /\ At(path, project) \in [path : Path, project : Project]
      BY DEF At
    <3>3. /\ source' \in [Plugin -> [path : Path, project : Project] \cup {None}]
          /\ source'[p] = At(path, project)
      BY <1>0, <2>1, <2>5, <3>2 DEF InstallTypeOK
    <3>4. Recorded(state', source'[p], assets', env', p)
      BY <1>2, <1>4, <3>1, <3>2, <3>3 DEF Recorded, At
    <3>5. ~Installed(state, p)
      BY <1>0, <2>1, <2>5, ReturningInstalls
    <3>6. \A q \in Plugin : source[q] # None => source'[q] = source[q]
      BY <1>0, <2>1, <2>5, <3>5 DEF InstallInv, Recorded, InstallTypeOK
    <3>7. InstallInv'
      BY <1>2, <2>2, <2>4, <3>3, <3>4 DEF InstallInv, InstallTypeOK, TypeOK, Good, Typed
    <3> QED BY <1>0, <2>2, <2>3, <3>6, <3>7
  <2>6. CASE ~a.ok
    <3>1. state'.def = state.def /\ state'.module = state.module
      BY <1>0, <2>1, <2>6, RaisingKeepsDefinitions
    <3>2. source' = source
      BY <2>1, <2>6
    <3>3. Recorded(state', source'[p], assets', env', p)
      BY <1>0, <1>1, <3>1, <3>2, StaysRecorded
    <3>4. InstallInv'
      BY <1>0, <1>2, <2>2, <2>4, <3>2, <3>3 DEF InstallInv, InstallTypeOK, TypeOK, Good, Typed
    <3> QED BY <1>0, <2>2, <2>3, <3>2, <3>4
  <2> QED BY <2>5, <2>6
<1> QED BY <1>3, <1>4

LEMMA ReloadFromStep ==
  ASSUME InstallInv, NEW p \in Plugin, NEW project \in Project, ReloadFrom(p, project)
  PROVE  /\ InstallInv'
         /\ [\E m \in Module : Reload(p, m)]_state
         /\ \A q \in Plugin \ {p} : source'[q] = source[q]
         /\ source'[p] # None =>
              /\ source'[p].path = source[p].path
              /\ \/ source'[p].project = source[p].project
                 \/ source'[p].project.version > source[p].project.version
<1> DEFINE m == project.module
           path == source[p].path
           u == Unregistered(state, p)
<1>0. /\ m \in Module /\ Good(state) /\ InstallTypeOK /\ Installed(state, p)
      /\ Recorded(state, source[p], assets, env, p)
  BY DEF InstallInv, ReloadFrom
<1>1. source[p] # None /\ path \in Path /\ source[p].project \in Project
  BY <1>0 DEF Recorded, InstallTypeOK
<1>2. PICK o \in Loads(path, project) :
        /\ assets' = o.assets /\ env' = o.env
        /\ IF o.ok /\ MayReplace(p, project) THEN Replace(p, project)
                                             ELSE UNCHANGED <<state, source>>
  BY DEF ReloadFrom
<1> HIDE DEF path
<1>3. /\ assets' \in [Plugin -> Path \cup {None}] /\ env' \in [Project -> Project \cup {None}]
      /\ o.ok => /\ assets'[project.id] # None
                 /\ project.needs => env'[Key(project)] = project
  BY <1>0, <1>1, <1>2, LoadsKeep
<1>4. CASE ~(o.ok /\ MayReplace(p, project))
  <2>1. state' = state /\ source' = source
    BY <1>2, <1>4
  <2>2. \A q \in Plugin : Recorded(state', source'[q], assets', env', q)
    BY <1>1, <1>2, <2>1, StaysRecorded
  <2>3. InstallTypeOK' /\ Good(state')
    BY <1>0, <1>3, <2>1 DEF InstallTypeOK, TypeOK
  <2>4. InstallInv'
    BY <2>2, <2>3 DEF InstallInv
  <2> QED BY <2>1, <2>4
<1>5. CASE o.ok /\ MayReplace(p, project)
  <2>1. PICK a \in Registrations(u, p, m) :
          IF a.ok
          THEN /\ state' = AsBefore(state, a.s, p)
               /\ source' = [source EXCEPT ![p].project = project]
          ELSE /\ state' \in Rollbacks(state, a.s, p)
               /\ source' = IF Installed(state', p) THEN source ELSE [source EXCEPT ![p] = None]
    BY <1>2, <1>5 DEF Replace
  <2>2. /\ project.id = p
        /\ project.version >= source[p].project.version
        /\ project.version = source[p].project.version => project = source[p].project
    BY <1>5 DEF MayReplace, NotOlder
  <2>3. state' \in Reloads(state, p, m)
    BY <2>1 DEF Reloads
  <2>4. Good(state') /\ Apart(state, state', p)
    BY <1>0, <2>3, ReloadGood
  <2>5. Reload(p, m)
    BY <1>0, <2>3 DEF Reload
  <2>6. source' \in [Plugin -> [path : Path, project : Project] \cup {None}]
    BY <1>0, <1>1, <2>1 DEF InstallTypeOK
  <2>7. \A q \in Plugin \ {p} : source'[q] = source[q]
    BY <1>0, <2>1 DEF InstallTypeOK
  <2>8. \A q \in Plugin \ {p} : Recorded(state', source'[q], assets', env', q)
    <3> SUFFICES ASSUME NEW q \in Plugin \ {p}
                 PROVE  Recorded(state', source'[q], assets', env', q)
      OBVIOUS
    <3>1. state'.def[q] = state.def[q] /\ state'.module[q] = state.module[q]
      BY <2>4, ApartKeeps
    <3> QED BY <1>1, <1>2, <2>7, <3>1, StaysRecorded
  <2>9. InstallTypeOK'
    BY <1>3, <2>4, <2>6 DEF InstallTypeOK, TypeOK, Good, Typed
  <2>10. Good(u)
    BY <1>0, UnregisteredGood
  <2> HIDE DEF u
  <2>11. CASE a.ok
    <3>1. Good(a.s) /\ Installed(a.s, p) /\ a.s.module[p] = m
      BY <1>0, <2>1, <2>10, <2>11, RegistrationGood, ReturningInstalls
    <3>2. Installed(state', p) /\ state'.module[p] = m
      BY <2>1, <2>11, <3>1, AsBeforeInstalled
    <3>3. source'[p] = [source[p] EXCEPT !.project = project]
      BY <1>0, <2>1, <2>11 DEF InstallTypeOK
    <3>4. source[p] \in [path : Path, project : Project]
      BY <1>0, <1>1 DEF InstallTypeOK
    <3>5. source'[p].project = project /\ source'[p].path = source[p].path
      BY <3>3, <3>4
    <3>6. source'[p] # None
      BY <3>3, <3>4
    <3>7. Recorded(state', source'[p], assets', env', p)
      BY <1>3, <1>5, <2>2, <3>2, <3>5, <3>6 DEF Recorded
    <3>8. \/ source'[p].project = source[p].project
          \/ source'[p].project.version > source[p].project.version
      BY <1>1, <2>2, <3>5
    <3> QED BY <2>4, <2>5, <2>7, <2>8, <2>9, <1>0, <3>5, <3>7, <3>8 DEF InstallInv
  <2>12. CASE ~a.ok
    <3>0. state.module[p] \in Module /\ state' \in Rollbacks(state, a.s, p)
      BY <1>0, <2>1, <2>12 DEF Good, Typed, Register, Installed
    <3>1. Good(a.s)
      BY <1>0, <2>1, <2>10, RegistrationGood
    <3>2. Installed(state', p) => state'.module[p] = state.module[p]
      <4>1. Restored(state, state', p)
        BY <3>0, <3>1, RollbackRestoresModule
      <4> QED BY <4>1 DEF Restored
    <3>3. CASE Installed(state', p)
      <4>1. source' = source
        BY <2>1, <2>12, <3>3
      <4>2. Recorded(state, source[p], o.assets, o.env, p)
        BY <1>1, StaysRecorded
      <4>3. Recorded(state', source'[p], assets', env', p)
        BY <1>0, <1>2, <3>2, <3>3, <4>1, <4>2 DEF Recorded
      <4> QED BY <1>0, <2>4, <2>5, <2>8, <2>9, <4>1, <4>3 DEF InstallInv
    <3>4. CASE ~Installed(state', p)
      <4>1. source'[p] = None
        BY <1>0, <2>1, <2>12, <3>4 DEF InstallTypeOK
      <4>2. Recorded(state', source'[p], assets', env', p)
        BY <3>4, <4>1 DEF Recorded
      <4> QED BY <1>0, <2>4, <2>5, <2>7, <2>8, <2>9, <4>1, <4>2 DEF InstallInv
    <3> QED BY <3>3, <3>4
  <2> QED BY <2>11, <2>12
<1> QED BY <1>4, <1>5

LEMMA SwitchStep ==
  ASSUME InstallInv, NEW p \in Plugin, Switch(p)
  PROVE  InstallInv' /\ Next /\ source' = source
<1>1. /\ Good(state) /\ InstallTypeOK /\ state \in Register
      /\ source' = source /\ assets' = assets /\ env' = env
  BY DEF InstallInv, Switch, Good, Typed
<1>2. Good(state') /\ Next
  <2>1. CASE Enable(p)
    BY <1>1, <2>1, EnableGood DEF Next
  <2>2. CASE Disable(p)
    BY <1>1, <2>2, DisabledGood DEF Disable, Next
  <2> QED BY <2>1, <2>2 DEF Switch
<1>3. /\ state'.module = state.module
      /\ \A q \in Plugin : Installed(state', q) <=> Installed(state, q)
  <2>1. CASE Enable(p)
    BY <1>1, <2>1 DEF Enable, Register, Installed
  <2>2. CASE Disable(p)
    BY <1>1, <2>2 DEF Disable, Disabled, Register, Installed
  <2> QED BY <2>1, <2>2 DEF Switch
<1>4. \A q \in Plugin : Recorded(state', source'[q], assets', env', q)
  BY <1>1, <1>3 DEF InstallInv, Recorded
<1>5. InstallTypeOK'
  BY <1>1, <1>2 DEF InstallTypeOK, TypeOK, Good, Typed
<1> QED BY <1>1, <1>2, <1>4, <1>5 DEF InstallInv

LEMMA InstallStarts == InstallInit => Init /\ InstallInv
<1> SUFFICES ASSUME InstallInit PROVE Init /\ InstallInv
  OBVIOUS
<1>1. Init /\ Good(state)
  BY InitGood DEF InstallInit
<1>2. InstallTypeOK
  BY <1>1 DEF InstallInit, InstallTypeOK, TypeOK, Good, Typed
<1>3. \A p \in Plugin : Recorded(state, source[p], assets, env, p)
  BY <1>1 DEF InstallInit, Init, Recorded, Installed
<1> QED BY <1>1, <1>2, <1>3 DEF InstallInv

LEMMA InstallStep ==
  ASSUME InstallInv, [InstallNext]_installVars
  PROVE  InstallInv' /\ [Next]_state
<1>1. CASE UNCHANGED installVars
  BY <1>1 DEF installVars, InstallInv, InstallTypeOK, TypeOK
<1>2. ASSUME NEW path \in Path, NEW project \in Project,
             LoadPath(path, project) \/ Install(path, project)
      PROVE  InstallInv' /\ [Next]_state
  <2>1. LoadPath(path, project)
    BY <1>2 DEF Install
  <2> QED BY <2>1, LoadPathStep DEF Next
<1>3. ASSUME NEW p \in Plugin, Switch(p)
      PROVE  InstallInv' /\ [Next]_state
  BY <1>3, SwitchStep
<1>4. ASSUME NEW p \in Plugin, NEW project \in Project, ReloadFrom(p, project)
      PROVE  InstallInv' /\ [Next]_state
  BY <1>4, ReloadFromStep DEF Next
<1> QED BY <1>1, <1>2, <1>3, <1>4 DEF InstallNext

LEMMA AlwaysRecorded == InstallSpec => []InstallInv
<1>1. InstallInv /\ [InstallNext]_installVars => InstallInv'
  BY InstallStep
<1> QED BY InstallStarts, <1>1, PTL DEF InstallSpec

\* Whatever is found in directories and however loading it fails, the host goes
\* through behaviours of PluginHost only: all that is proved of it holds of hosts
\* whose plugins come from projects.
THEOREM TheHost == InstallSpec => Spec
<1>1. InstallInv /\ [InstallNext]_installVars => [Next]_state
  BY InstallStep
<1> QED BY InstallStarts, AlwaysRecorded, <1>1, PTL DEF InstallSpec, Spec

\* The recorded sources (registry.py _sources) are those of the installed modules,
\* and the environments that they were loaded with stay complete.
THEOREM SourcesAreTrue == InstallSpec => []InstalledAsRecorded
<1>1. InstallInv => InstalledAsRecorded
  BY DEF InstallInv, Recorded, InstalledAsRecorded
<1> QED BY AlwaysRecorded, <1>1, PTL

\* validate_reload and validate_install, with all that happens around them, let
\* versions only rise, and installs leave what is installed alone.
THEOREM PluginsOnlyUpgrade == InstallSpec => UpgradesOnly
<1> DEFINE Up == \A p \in Plugin :
                   source[p] # None /\ source'[p] # None =>
                     /\ source'[p].path = source[p].path
                     /\ \/ source'[p].project = source[p].project
                        \/ source'[p].project.version > source[p].project.version
           Alone == (\E path \in Path, project \in Project : Install(path, project)) =>
                      \A p \in Plugin : Installed(state, p) => Share(state, p)' = Share(state, p)
<1>1. ASSUME InstallInv, InstallNext PROVE Up
  <2>1. ASSUME NEW path \in Path, NEW project \in Project,
               LoadPath(path, project) \/ Install(path, project)
        PROVE  Up
    <3>1. LoadPath(path, project)
      BY <2>1 DEF Install
    <3> QED BY <1>1, <3>1, LoadPathStep
  <2>2. ASSUME NEW p \in Plugin, Switch(p) PROVE Up
    BY <1>1, <2>2, SwitchStep
  <2>3. ASSUME NEW p \in Plugin, NEW project \in Project, ReloadFrom(p, project) PROVE Up
    BY <1>1, <2>3, ReloadFromStep
  <2> QED BY <1>1, <2>1, <2>2, <2>3 DEF InstallNext
<1>2. ASSUME InstallInv PROVE Alone
  <2> SUFFICES ASSUME NEW path \in Path, NEW project \in Project, Install(path, project),
                      NEW p \in Plugin, Installed(state, p)
               PROVE  Share(state, p)' = Share(state, p)
    OBVIOUS
  <2>1. LoadPath(path, project) /\ p # project.id
    BY DEF Install, MayInstall
  <2>2. Share(state', p) = Share(state, p)
    BY <1>2, <2>1, LoadPathStep DEF Apart
  <2> QED BY <2>2 DEF Share, EnabledNames, Owned
<1>3. InstallInv /\ [InstallNext]_installVars => [Up /\ Alone]_installVars
  BY <1>1, <1>2
<1> QED BY AlwaysRecorded, <1>3, PTL DEF InstallSpec, UpgradesOnly
=============================================================================
