------------------------------ MODULE MCKnowledge ------------------------------
(* Knowledge and Recall on a small instance. *)
EXTENDS Recall

P(start, length) == [start |-> start, length |-> length]

\* Paragraphs of which two fit into one chunk, one to cut up among short ones, and no text.
MCText ==
  "short" :> [length |-> 9, paragraphs |-> <<P(1, 2), P(5, 1), P(8, 2)>>] @@
  "long" :> [length |-> 13, paragraphs |-> <<P(1, 2), P(5, 6), P(13, 1)>>] @@
  "blank" :> [length |-> 2, paragraphs |-> <<>>]

Of(documents, strategy, overlap, collection) ==
  [documents |-> documents, strategy |-> strategy, size |-> 5, overlap |-> overlap,
   dimensions |-> 3, collection |-> collection]

MCRequest ==
  {Of("d1" :> "short", "paragraph", 2, "a"), Of("d1" :> "long", "paragraph", 2, "b"),
   Of("d1" :> "long", "character", 1, "a"), Of("d1" :> "blank", "character", 1, None)} \cup
  {Of("d1" :> "blank", "paragraph", 0, "a"), Of("d1" :> "short" @@ "d2" :> "short", "paragraph", 2, "a")}

MCMemoryId == {<<"memory", 1>>, <<"memory", 2>>}

Told(id, session, namespace, words, extra) ==
  [id |-> id, session |-> session, namespace |-> namespace, words |-> words, extra |-> extra]

\* "up" and "down" cancel one another, and "far" and "wide" are hashed alike.
MCFact ==
  {Told(None, "s", None, {"up"}, <<>>),
   Told(None, None, "s", {"up", "down"}, "namespace" :> "t" @@ "session_id" :> "t"),
   Told(<<"memory", 1>>, "t", None, {"far"}, "kind" :> "note"),
   Told(<<"memory", 1>>, "s", "t", {"wide", "up"}, "collection_id" :> "a")}

Asked(session, namespace, words, filters, least, limit) ==
  [session |-> session, namespace |-> namespace, words |-> words, filters |-> filters,
   least |-> least, limit |-> limit]

MCQuestion ==
  {Asked(s, n, f.words, <<>>, None, limit) :
     s \in {"s", "t"}, n \in {None, "s"}, f \in MCFact, limit \in {1, None}} \cup
  {Asked("s", None, {"up"}, filters, least, 9) :
     filters \in {"kind" :> "note", "namespace" :> "t" @@ "session_id" :> "s", "collection_id" :> "a"},
     least \in {None, <<1, 2>>, <<2, 1>>}}

MCBucketOf == "up" :> 1 @@ "down" :> 1 @@ "far" :> 2 @@ "wide" :> 2
MCSignOf == "up" :> 1 @@ "down" :> -1 @@ "far" :> -1 @@ "wide" :> -1

Contents == UNION {{p.content : p \in Range(Pieces(r))} : r \in MCRequest}

MCLikeness ==
  [a \in Contents |-> [b \in Contents |->
     IF a = b THEN <<1, 1>>
     ELSE <<Cardinality(Range(a) \cap Range(b)), 1 + Cardinality(Range(a) \cup Range(b))>>]]

=============================================================================
