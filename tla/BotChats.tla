------------------------------- MODULE BotChats -------------------------------
(***************************************************************************)
(* Messages and /session commands of one bot session that are handled at   *)
(* the same time: BotDispatcher.dispatch, the chat without tools it leads  *)
(* to, and the commands of builtin_bot_commands.py, over the conversations *)
(* of BotSessions and the table of context snapshots.                      *)
(*                                                                         *)
(* A chat pins the context of the conversation that was active when it was *)
(* dispatched, reads the window of that context's latest snapshot, asks    *)
(* the provider, and saves the window with its own turn as a new snapshot. *)
(* Between these awaits anything else may run.  A snapshot is dated before *)
(* the connection to the database is awaited, and the latest one is the    *)
(* one with the latest date, so dates and commits may be out of order.     *)
(* A command that erases a context (clear, reset, delete) first works on   *)
(* the conversations and then awaits the deletion of the snapshots.        *)
(*                                                                         *)
(* A window is abstracted to the set of turns it holds, a turn being the   *)
(* user's message and the answer to it; a snapshot belongs to the chat     *)
(* that saved it.  The sessions live in memory and the snapshots in the    *)
(* database, so a crash loses the first and keeps the second.              *)
(***************************************************************************)
EXTENDS BotSessions

CONSTANTS
  Chat,       \* bound: the messages of the session
  Eraser,     \* bound: erasing commands at work at the same time
  MaxCrashes  \* bound

ASSUME ChatsAssumption == MaxCrashes \in Nat

VARIABLES
  pc,        \* the stage of a chat
  ctx,       \* the context a chat is pinned to
  hist,      \* the turns of the window a chat read
  at,        \* created_at of a chat's snapshot
  clock,     \* the next date
  stored,    \* the chats whose snapshot is in the table
  erasing,   \* the context an erasing command is about to delete
  crashes,
  overlap,   \* history: pairs of chats that were under way together in a context
  erased,    \* history: chats whose snapshot was deleted
  outlived,  \* history: <<g, f>>: f was under way when g was erased
  tainted    \* history: contexts of which a crash, a failed deletion or a chat
             \*   under way at the deletion may have left snapshots

turnVars == <<pc, ctx, hist, at, clock, stored, overlap>>
ghostVars == <<erased, outlived, tainted>>
chatsVars == <<sessionVars, turnVars, ghostVars, erasing, crashes>>

UnderWay == {e \in Chat : pc[e] \in {"asking", "saving"}}
Pinned(c) == {e \in Chat : ctx[e] = c /\ pc[e] \in {"dispatched", "asking", "saving"}}
Saved(e) == pc[e] = "saved"

Rows(c) == {e \in stored : ctx[e] = c}
Window(e) == hist[e] \cup {e}

\* list_snapshots orders by date; the orchestrator takes the last one.
Latest(e) == \A f \in Rows(ctx[e]) : at[f] <= at[e]

TypeOK ==
  /\ SessionTypeOK
  /\ pc \in [Chat -> {"new", "dispatched", "asking", "saving", "saved", "failed"}]
  /\ ctx \in [Chat -> Name \cup {None}]
  /\ hist \in [Chat -> SUBSET Chat]
  /\ at \in [Chat -> Nat] /\ clock \in Nat
  /\ stored \subseteq Chat /\ erased \subseteq Chat
  /\ overlap \subseteq Chat \X Chat /\ outlived \subseteq Chat \X Chat
  /\ tainted \subseteq Name
  /\ erasing \in [Eraser -> Name \cup {None}]
  /\ crashes \in 0 .. MaxCrashes

ChatsInit ==
  /\ SessionInit
  /\ pc = [e \in Chat |-> "new"]
  /\ ctx = [e \in Chat |-> None]
  /\ hist = [e \in Chat |-> {}]
  /\ at = [e \in Chat |-> 0] /\ clock = 0
  /\ stored = {} /\ erased = {} /\ overlap = {} /\ outlived = {} /\ tainted = {}
  /\ erasing = [x \in Eraser |-> None]
  /\ crashes = 0

-----------------------------------------------------------------------------
(* Chats. *)

\* BotDispatcher.dispatch up to the hand-over to the orchestrator: get_or_create,
\* get_active_conversation and update_activity, without a suspension in between
Dispatch(e) ==
  /\ pc[e] = "new"
  /\ Touch
  /\ pc' = [pc EXCEPT ![e] = "dispatched"]
  /\ ctx' = [ctx EXCEPT ![e] = EnsuredActive]
  /\ UNCHANGED <<hist, at, clock, stored, overlap, ghostVars, erasing, crashes>>

Beside(e) == {f \in UnderWay : ctx[f] = ctx[e]}

\* Faulty: the history is looked up under the conversation that is active now.
ReadFromActive(e) ==
  /\ pc[e] = "dispatched"
  /\ \/ Rows(activeId) = {} /\ hist' = [hist EXCEPT ![e] = {}]
     \/ \E l \in Rows(activeId) : Latest(l) /\ hist' = [hist EXCEPT ![e] = Window(l)]
  /\ pc' = [pc EXCEPT ![e] = "asking"]
  /\ overlap' = overlap \cup ({e} \X Beside(e)) \cup (Beside(e) \X {e})
  /\ UNCHANGED <<sessionVars, ctx, at, clock, stored, ghostVars, erasing, crashes>>

\* Faulty: the history is the first snapshot of the list.
ReadFirst(e) ==
  /\ pc[e] = "dispatched"
  /\ \/ Rows(ctx[e]) = {} /\ hist' = [hist EXCEPT ![e] = {}]
     \/ \E l \in Rows(ctx[e]) :
          /\ \A f \in Rows(ctx[e]) : at[l] <= at[f]
          /\ hist' = [hist EXCEPT ![e] = Window(l)]
  /\ pc' = [pc EXCEPT ![e] = "asking"]
  /\ overlap' = overlap \cup ({e} \X Beside(e)) \cup (Beside(e) \X {e})
  /\ UNCHANGED <<sessionVars, ctx, at, clock, stored, ghostVars, erasing, crashes>>

\* _load_session_history_messages; the provider is asked next
Read(e) ==
  /\ pc[e] = "dispatched"
  /\ \/ Rows(ctx[e]) = {} /\ hist' = [hist EXCEPT ![e] = {}]
     \/ \E l \in Rows(ctx[e]) : Latest(l) /\ hist' = [hist EXCEPT ![e] = Window(l)]
  /\ pc' = [pc EXCEPT ![e] = "asking"]
  /\ overlap' = overlap \cup ({e} \X Beside(e)) \cup (Beside(e) \X {e})
  /\ UNCHANGED <<sessionVars, ctx, at, clock, stored, ghostVars, erasing, crashes>>

\* The provider answered: save_snapshot takes the date and awaits the connection.
Stamp(e) ==
  /\ pc[e] = "asking"
  /\ pc' = [pc EXCEPT ![e] = "saving"]
  /\ at' = [at EXCEPT ![e] = clock]
  /\ clock' = clock + 1
  /\ UNCHANGED <<sessionVars, ctx, hist, stored, overlap, ghostVars, erasing, crashes>>

\* The snapshot with the history and the chat's own turn is committed.
Commit(e) ==
  /\ pc[e] = "saving"
  /\ pc' = [pc EXCEPT ![e] = "saved"]
  /\ stored' = stored \cup {e}
  /\ UNCHANGED <<sessionVars, ctx, hist, at, clock, overlap, ghostVars, erasing, crashes>>

\* The message asks for no answer, or the read, the provider or the save raises:
\* nothing of the turn is kept.
Fail(e) ==
  /\ pc[e] \in {"dispatched", "asking", "saving"}
  /\ pc' = [pc EXCEPT ![e] = "failed"]
  /\ UNCHANGED <<sessionVars, ctx, hist, at, clock, stored, overlap, ghostVars, erasing, crashes>>

-----------------------------------------------------------------------------
(* Commands. *)

\* /session new, use and rename, and every command that is refused
Manage ==
  /\ \/ Touch
     \/ \E n \in Name : CreateConversation(n) \/ UseConversation(n)
     \/ \E old, new \in Name : RenameConversation(old, new)
  /\ UNCHANGED <<turnVars, ghostVars, erasing, crashes>>

\* /session clear with a name, and /reset with a name or of the active conversation:
\* the conversation is looked up, the deletion awaited
Clear(x, c) ==
  /\ erasing[x] = None
  /\ c = EnsuredActive \/ \E n \in Name, i \in DOMAIN Ensured : Found(i, n) /\ c = Ensured[i].id
  /\ Touch
  /\ erasing' = [erasing EXCEPT ![x] = c]
  /\ UNCHANGED <<turnVars, ghostVars, crashes>>

\* Faulty: the conversation is deleted and its snapshots are forgotten.
DeleteOnlyReference(x) == \E n \in Name : \E i \in DOMAIN Ensured :
  /\ erasing[x] = None
  /\ DeleteConversation(i, n)
  /\ tainted' = tainted \cup {c \in {Ensured[i].id} : Pinned(c) # {}}
  /\ UNCHANGED <<turnVars, erasing, erased, outlived, crashes>>

\* /session delete: first the reference, then the snapshots
Delete(x) == \E n \in Name : \E i \in DOMAIN Ensured :
  /\ erasing[x] = None
  /\ DeleteConversation(i, n)
  /\ erasing' = [erasing EXCEPT ![x] = Ensured[i].id]
  /\ tainted' = tainted \cup {c \in {Ensured[i].id} : Pinned(c) # {}}
  /\ UNCHANGED <<turnVars, erased, outlived, crashes>>

\* Faulty: only the first snapshot goes.
EraseFirst(x) ==
  LET gone == {e \in Rows(erasing[x]) : \A f \in Rows(erasing[x]) : at[e] <= at[f]}
  IN  /\ erasing[x] # None
      /\ stored' = stored \ gone
      /\ erased' = erased \cup gone
      /\ outlived' = outlived \cup (gone \X {f \in UnderWay : ctx[f] = erasing[x]})
      /\ erasing' = [erasing EXCEPT ![x] = None]
      /\ UNCHANGED <<sessionVars, pc, ctx, hist, at, clock, overlap, tainted, crashes>>

\* delete_snapshots_for_session commits.
Erase(x) ==
  LET gone == Rows(erasing[x])
  IN  /\ erasing[x] # None
      /\ stored' = stored \ gone
      /\ erased' = erased \cup gone
      /\ outlived' = outlived \cup (gone \X {f \in UnderWay : ctx[f] = erasing[x]})
      /\ erasing' = [erasing EXCEPT ![x] = None]
      /\ UNCHANGED <<sessionVars, pc, ctx, hist, at, clock, overlap, tainted, crashes>>

\* It raises: the command fails, a deleted conversation stays deleted.
EraseFails(x) ==
  /\ erasing[x] # None
  /\ erasing' = [erasing EXCEPT ![x] = None]
  /\ tainted' = tainted \cup {erasing[x]}
  /\ UNCHANGED <<sessionVars, turnVars, erased, outlived, crashes>>

\* The process ends at any point and starts again.
Crash ==
  /\ crashes < MaxCrashes
  /\ crashes' = crashes + 1
  /\ Forget
  /\ pc' = [e \in Chat |-> IF pc[e] \in {"new", "saved"} THEN pc[e] ELSE "failed"]
  /\ erasing' = [x \in Eraser |-> None]
  /\ tainted' = Name
  /\ UNCHANGED <<ctx, hist, at, clock, stored, overlap, erased, outlived>>

ChatsNext ==
  \/ \E e \in Chat : Dispatch(e) \/ Read(e) \/ Stamp(e) \/ Commit(e) \/ Fail(e)
  \/ Manage
  \/ \E x \in Eraser : Delete(x) \/ Erase(x) \/ EraseFails(x) \/ \E c \in Name : Clear(x, c)
  \/ Crash

ChatsSpec == ChatsInit /\ [][ChatsNext]_chatsVars

-----------------------------------------------------------------------------
(* Properties. *)

\* The turns of a window all belong to the context it is saved in: whatever
\* conversation a user switches to while a chat is under way, no context learns
\* what was said in another.
Isolated == \A e \in stored : \A g \in Window(e) : ctx[g] = ctx[e]

\* A saved turn that nobody erased is in the window the next chat will read, unless
\* a chat that was under way together with it was saved as well: then one of the
\* two may overwrite the other.  Chats that take turns lose nothing.
LossNeedsOverlap ==
  \A g \in stored : \A l \in Rows(ctx[g]) : Latest(l) =>
    \/ g \in Window(l)
    \/ \E f \in Chat : Saved(f) /\ <<g, f>> \in overlap

\* A turn whose snapshot was erased comes back only through a chat that had read
\* it, was under way when it was erased, and was saved afterwards.
ErasedStaysErased ==
  \A e \in stored : \A g \in Window(e) \cap erased :
    \E h \in Chat : Saved(h) /\ g \in hist[h] /\ <<g, h>> \in outlived

\* A conversation that is created starts with an empty context even if one of the
\* same name existed before, unless the deletion of that one's snapshots is still
\* awaited or went wrong, a chat of it was under way, or the process crashed.
FreshStartsEmpty ==
  \A c \in Name \ IdsOf(Ensured) :
    Rows(c) = {} \/ c \in tainted \/ \E x \in Eraser : erasing[x] = c

=============================================================================
