------------------------------ MODULE BotSessions ------------------------------
(***************************************************************************)
(* The conversations of one bot session (core/bot/session_manager.py).     *)
(*                                                                         *)
(* The session store that exists is the one in memory, whose coroutines    *)
(* never suspend, so each operation of the manager is one step.  Every     *)
(* operation begins with get_or_create, which saves a repaired state even  *)
(* when the operation itself is then refused.                              *)
(*                                                                         *)
(* A conversation keeps the id it got from its first name; the context in  *)
(* the database is addressed by that id.  Names are compared casefolded    *)
(* and stripped, so a name and the id derived from it are one value here.  *)
(***************************************************************************)
EXTENDS Integers, Sequences, SequencesExt

CONSTANTS
  Name,     \* conversation names, normalised
  Default,  \* DEFAULT_BOT_CONVERSATION_NAME
  None

ASSUME NameAssumption == Default \in Name /\ None \notin Name

VARIABLES
  conversations,  \* BotConversationState.conversations; empty: no state stored
  activeId          \* active_conversation_id

sessionVars == <<conversations, activeId>>

ConversationRef == [id : Name, name : Name]

NewConversation(n) == [id |-> n, name |-> n]

IdsOf(cs) == {cs[i].id : i \in DOMAIN cs}

\* _preferred_active_conversation_id
Preferred(cs) == IF Default \in IdsOf(cs) THEN Default ELSE cs[1].id

\* The state get_or_create returns: _state_with_default_conversation
Ensured == IF conversations = <<>> THEN <<NewConversation(Default)>> ELSE conversations
EnsuredActive == IF activeId \in IdsOf(Ensured) THEN activeId ELSE Preferred(Ensured)

Answers(c, n) == c.id = n \/ c.name = n

\* _find_conversation: the first one whose id or name is n
Found(i, n) ==
  /\ i \in DOMAIN Ensured
  /\ Answers(Ensured[i], n)
  /\ \A j \in DOMAIN Ensured : j < i => ~ Answers(Ensured[j], n)

Taken(n) == \E i \in DOMAIN Ensured : Found(i, n)

-----------------------------------------------------------------------------
SessionInit == conversations = <<>> /\ activeId = None

\* get_or_create, also as the first half of an operation that is then refused
Touch ==
  /\ conversations' = Ensured
  /\ activeId' = EnsuredActive

CreateConversation(n) ==
  /\ ~ Taken(n)
  /\ conversations' = Append(Ensured, NewConversation(n))
  /\ activeId' = n

UseConversation(n) == \E i \in DOMAIN Ensured :
  /\ Found(i, n)
  /\ conversations' = Ensured
  /\ activeId' = Ensured[i].id

\* Faulty: a new name that another conversation answers to is let through.
RenameWithoutLook(old, new) == \E i \in DOMAIN Ensured :
  /\ Found(i, old)
  /\ conversations' = [Ensured EXCEPT ![i].name = new]
  /\ activeId' = EnsuredActive

\* The id stays, and with it the context.
RenameConversation(old, new) == \E i \in DOMAIN Ensured :
  /\ Found(i, old)
  /\ \A j \in DOMAIN Ensured : Found(j, new) => Ensured[j].id = Ensured[i].id
  /\ conversations' = [Ensured EXCEPT ![i].name = new]
  /\ activeId' = EnsuredActive

\* delete_conversation of the i-th conversation, which only it has the id of; the
\* last one stays
Dropped(i) == RemoveAt(Ensured, i)
DeleteConversation(i, n) ==
  /\ Found(i, n)
  /\ Len(Ensured) > 1
  /\ conversations' = Dropped(i)
  /\ activeId' = IF EnsuredActive = Ensured[i].id THEN Preferred(Dropped(i)) ELSE EnsuredActive

\* The process ends, and the states it held with it.
Forget == conversations' = <<>> /\ activeId' = None

-----------------------------------------------------------------------------
(* Properties. *)

SessionTypeOK ==
  /\ conversations \in Seq(ConversationRef)
  /\ activeId \in Name \cup {None}

\* At most one conversation answers to a name, whether the name is its present one
\* or the one its id was made from, so that the name in a command means one context.
OneAnswersToEachName ==
  \A i, j \in DOMAIN conversations : \A n \in Name :
    Answers(conversations[i], n) /\ Answers(conversations[j], n) => i = j

=============================================================================
