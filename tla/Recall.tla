--------------------------------- MODULE Recall ---------------------------------
(***************************************************************************)
(* What is kept in the vector store beside documents, and what is found in *)
(* it: the tools remember_fact, search_memory and forget_memory, and       *)
(* retrieval from a collection.                                            *)
(*                                                                         *)
(* A fact is the set of its words.  Its vector has a sum for each bucket   *)
(* that words are hashed into; scores are compared by the squares of the   *)
(* cosines, with their signs, as fractions <<over, under>>.  The vectors   *)
(* of providers are opaque: how like two are is external.  Arguments are   *)
(* well-formed: others are refused before anything is done.                *)
(***************************************************************************)
EXTENDS Knowledge, Integers, FiniteSetsExt

CONSTANTS
  MemoryId,      \* the ids facts are kept under: <<"memory", m>>
  Fact,          \* the calls of remember_fact: [id, session, namespace, words, extra]
  Question,      \* the calls of search_memory: [session, namespace, words, filters, least, limit]
  Bucket, BucketOf, SignOf, \* the hash of words
  Likeness,      \* Likeness[a][b]: of contents embedded by a provider
  Gone,          \* a fact that was forgotten
  HashSize,      \* _VECTOR_DIMENSIONS
  MaxCandidates, \* of SQLiteVectorStore
  DefaultLimit, MaxLimit, \* of top_k
  MaxCalls       \* bound: on the calls of remember_fact

\* Vectors of providers are told from those of facts by their length.
ASSUME RecallAssumption ==
  /\ \A r \in Request : r.dimensions # HashSize
  /\ \A m \in MemoryId : m[1] \notin Document
  /\ DefaultLimit \in Nat \ {0} /\ MaxLimit \in Nat /\ DefaultLimit <= MaxLimit
  /\ MaxCandidates \in Nat

\* The words of a call, each with its bucket and sign, and the numbers it gives.
ASSUME CallAssumption ==
  /\ IsFiniteSet(Bucket) /\ 1 \in Bucket
  /\ \A c \in Fact :
       /\ DOMAIN c = {"id", "session", "namespace", "words", "extra"}
       /\ IsFiniteSet(c.words) /\ \A w \in c.words : SignOf[w] \in Int
       /\ \A id \in MemoryId : [c EXCEPT !.id = id] \notin {None, Gone}
  /\ \A q \in Question :
       /\ IsFiniteSet(q.words) /\ \A w \in q.words : SignOf[w] \in Int
       /\ q.limit # None => q.limit \in Nat \ {0}
       /\ q.least # None => q.least \in Int \X (Nat \ {0})

\* Embeddings are not zero: each is as like itself as can be.
ASSUME LikenessAssumption == \A r, s \in Request :
  \A p \in Range(Pieces(r)), o \in Range(Pieces(s)) :
    LET likeness == Likeness[p.content][o.content] IN
    /\ likeness \in Int \X (Nat \ {0}) /\ likeness[1] <= likeness[2]
    /\ p.content = o.content => likeness[1] = likeness[2]

VARIABLES
  forgetting, \* the facts forget_memory has looked up and is to delete
  calls,
  told        \* history: what each id was last told to keep

recallVars == <<forgetting, calls, told>>

-----------------------------------------------------------------------------
(* Vectors and searches. *)

Sums(words) ==
  [b \in Bucket |-> MapThenSumSet(LAMBDA w : SignOf[w], {w \in words : BucketOf[w] = b})]

\* _text_vector: words that cancel one another are as no words, which has a vector.
TextVector(words) ==
  LET sums == Sums(words) IN
  Vector(HashSize, IF \A b \in Bucket : sums[b] = 0
                   THEN [b \in Bucket |-> IF b = 1 THEN 1 ELSE 0] ELSE sums)

Product(v, w) == MapThenSumSet(LAMBDA b : v[b] * w[b], Bucket)

Cosine(v, w) ==
  LET dot == Product(v, w) IN
  <<(IF dot < 0 THEN -dot ELSE dot) * dot, Product(v, v) * Product(w, w)>>

Score(v, w) == IF v.size = HashSize THEN Cosine(v.of, w.of) ELSE Likeness[v.of][w.of]

AtLeast(x, y) == x[1] * y[2] >= y[1] * x[2]

MetadataMatches(metadata, filters) ==
  \A key \in DOMAIN filters : key \in DOMAIN metadata /\ metadata[key] = filters[key]

Candidates(query) ==
  {id \in DOMAIN records :
     /\ MetadataMatches(records[id].metadata, query.filters)
     /\ records[id].vector.size = query.vector.size
     /\ query.least # None => AtLeast(Score(query.vector, records[id].vector), query.least)}

\* search: the sets of ids it may answer with, none if it raises.  Equal scores come in
\* the order of the table, which is any.
Search(query) ==
  LET candidates == Candidates(query)
      score(id) == Score(query.vector, records[id].vector)
  IN IF Cardinality(DOMAIN records) > MaxCandidates THEN {}
     ELSE {best \in kSubset(Lesser(query.limit, Cardinality(candidates)), candidates) :
             \A id \in best, other \in candidates \ best : AtLeast(score(id), score(other))}

-----------------------------------------------------------------------------
(* The tools. *)

AgentMemory == "agent_memory"

\* _namespace: what is given, or the session, or a default
Namespace(given, session) ==
  IF given # None THEN given ELSE IF session # None THEN session ELSE "default"

\* Faulty: what the caller gives comes last.
MemoryMetadataByCaller(c) ==
  Merged(c.extra, [kind |-> AgentMemory, namespace |-> Namespace(c.namespace, c.session)])

MemoryMetadata(c) ==
  Merged(IF c.session = None THEN <<>> ELSE [session_id |-> c.session],
         Merged([kind |-> AgentMemory, namespace |-> Namespace(c.namespace, c.session)], c.extra))

MemoryRow(c, id) ==
  [id |-> id, content |-> c.words, vector |-> TextVector(c.words), metadata |-> MemoryMetadata(c)]

\* A caller names the id, or a new one is made.
IdFor(c, id) == IF c.id = None THEN told[id] = None ELSE id = c.id

RememberFact(c, id) ==
  /\ calls < MaxCalls /\ IdFor(c, id)
  /\ records' = Upserted(<<MemoryRow(c, id)>>)
  /\ told' = [told EXCEPT ![id] = [c EXCEPT !.id = id]]
  /\ calls' = calls + 1
  /\ UNCHANGED <<run, deletes, latest, forgetting>>

\* search_memory; what it filters by itself comes last.
SearchMemory(c) ==
  Search([vector |-> TextVector(c.words), least |-> c.least,
          limit |-> IF c.limit = None THEN DefaultLimit ELSE Lesser(c.limit, MaxLimit),
          filters |-> Merged([kind |-> AgentMemory, namespace |-> Namespace(c.namespace, c.session)],
                             c.filters)])

IsMemory(id) == id \in DOMAIN records /\ MetadataMatches(records[id].metadata, [kind |-> AgentMemory])

\* forget_memory awaits the record, and then its deletion.
ForgetLook(id) ==
  /\ IsMemory(id) /\ id \notin forgetting
  /\ forgetting' = forgetting \cup {id}
  /\ UNCHANGED <<records, run, deletes, latest, calls, told>>

\* What is not there any more is not deleted again.
ForgetDelete(id) ==
  /\ id \in forgetting
  /\ forgetting' = forgetting \ {id}
  /\ records' = [other \in DOMAIN records \ {id} |-> records[other]]
  /\ told' = [told EXCEPT ![id] = Gone]
  /\ UNCHANGED <<run, deletes, latest, calls>>

-----------------------------------------------------------------------------
(* Retrieval, as RAG chats do it. *)

\* _merge_collection_filter
Conflict(r) ==
  /\ r.collection # None /\ "collection_id" \in DOMAIN r.filters
  /\ r.filters["collection_id"] # r.collection

Retrieve(r) ==
  IF Conflict(r) THEN {}
  ELSE Search([vector |-> Vector(r.dimensions, r.content), least |-> r.least, limit |-> r.limit,
               filters |-> Merged(InCollection(r.collection), r.filters)])

-----------------------------------------------------------------------------

RecallInit ==
  /\ Init
  /\ forgetting = {} /\ calls = 0
  /\ told = [id \in MemoryId |-> None]

\* The process ends: the table is on disk.
Restart ==
  /\ forgetting # {} \/ \E j \in Run : run[j].phase \in {"embedding", "writing"}
  /\ RunsEnd
  /\ forgetting' = {}
  /\ UNCHANGED <<records, deletes, latest, calls, told>>

Index ==
  /\ \/ \E j \in Run, r \in Request : Begin(j, r)
     \/ \E j \in Run : Embedded(j)
     \/ \E j \in Run : Fail(j)
     \/ \E j \in Run : Write(j)
     \/ \E id \in DOMAIN records : Delete(id)
  /\ UNCHANGED recallVars

RecallNext ==
  \/ Index
  \/ \E c \in Fact, id \in MemoryId : RememberFact(c, id)
  \/ \E id \in MemoryId : ForgetLook(id)
  \/ \E id \in MemoryId : ForgetDelete(id)
  \/ Restart

RecallSpec == RecallInit /\ [][RecallNext]_<<vars, recallVars>>

-----------------------------------------------------------------------------
(* What is found. *)

\* The facts that were told to be kept, and what a question asks for besides.
Said(id, key, value) ==
  CASE key \in {"kind", "namespace"} -> TRUE
    [] key = "session_id" /\ told[id].session # None -> told[id].session = value
    [] OTHER -> key \in DOMAIN told[id].extra /\ told[id].extra[key] = value

Kept == {id \in MemoryId : told[id] \notin {None, Gone}}

Meant(q) ==
  {id \in Kept :
     /\ Namespace(told[id].namespace, told[id].session) = Namespace(q.namespace, q.session)
     /\ \A key \in DOMAIN q.filters : Said(id, key, q.filters[key])}

\* What is worded as the question is found before what is less like it.
FoundFirst(id, found, limit, score(_)) ==
  \/ id \in found
  \/ Cardinality(found) = limit /\ \A other \in found : score(other)[1] = score(other)[2]

\* A search of a namespace finds the facts that were told last under their ids in that
\* namespace, are not forgotten, and have the metadata asked for, and nothing else,
\* whatever metadata and filters callers give; and a fact is found by its own words, unless
\* the score asked for is that of the same words or more, which none need have.
FactsAreRecalled ==
  \A q \in Question :
    LET limit == IF q.limit = None THEN DefaultLimit ELSE Lesser(q.limit, MaxLimit)
        score(id) == Cosine(TextVector(q.words).of, TextVector(told[id].words).of)
    IN /\ SearchMemory(q) # {}
       /\ \A found \in SearchMemory(q) :
            /\ found \subseteq Meant(q)
            /\ Cardinality(found) = limit \/ q.least # None \/ found = Meant(q)
            /\ q.least = None \/ q.least[1] < q.least[2] =>
                 \A id \in Meant(q) : told[id].words = q.words => FoundFirst(id, found, limit, score)

\* Retrieval from a collection finds, for the text of a chunk of what was written last of
\* a document, that chunk, and no fact.
ChunksAreRetrieved ==
  \A id \in DOMAIN records, limit \in 1 .. 2 :
    id[1] \in Document /\ id[2] < latest[id[1]].count =>
      LET asked == [dimensions |-> records[id].vector.size, content |-> records[id].content,
                    collection |-> latest[id[1]].collection, filters |-> <<>>,
                    least |-> None, limit |-> limit]
          score(other) == Likeness[asked.content][records[other].content]
      IN /\ Retrieve(asked) # {}
         /\ \A found \in Retrieve(asked) :
              found \cap MemoryId = {} /\ FoundFirst(id, found, limit, score)

\* Unless the store holds more than a search may look at.
SearchesFind ==
  Cardinality(DOMAIN records) <= MaxCandidates => FactsAreRecalled /\ ChunksAreRetrieved

=============================================================================
