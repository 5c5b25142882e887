------------------------------- MODULE Knowledge -------------------------------
(***************************************************************************)
(* Indexing documents into the vector store: IndexingOrchestrator cuts the *)
(* documents into chunks, awaits the embeddings of the chunks, and writes  *)
(* the records in one transaction of SQLiteVectorStore.  Runs of index     *)
(* overlap at both awaits, and records are deleted in between.             *)
(*                                                                         *)
(* A text has a length and paragraphs, each with the position of its first *)
(* character and its length.  A content is a sequence of positions of the  *)
(* text, with two zeros for the blank line that joins paragraphs; a vector *)
(* is represented by the content that it is the embedding of.              *)
(***************************************************************************)
EXTENDS Naturals, FiniteSets, Sequences, SequencesExt, Functions, TLC

CONSTANTS
  Run,        \* bound: the runs of index, each started at most once
  Document,
  Text,       \* Text[v]: version v of a document
  Request,    \* what is indexed: the version of each document, and how
  MaxDeletes, \* bound
  None

\* validate_chunk_overlap; documents is a function: no request has a document twice.
ASSUME RequestAssumption == \A r \in Request :
  /\ r.overlap \in Nat /\ r.size \in Nat /\ r.overlap < r.size
  /\ r.dimensions \in Nat
  /\ DOMAIN r.documents \subseteq Document /\ IsFiniteSet(DOMAIN r.documents)

\* _iter_paragraph_spans: paragraphs come in order, are not empty, and do not overlap.
ASSUME TextAssumption == \A r \in Request : \A d \in DOMAIN r.documents :
  LET text == Text[r.documents[d]] IN
  /\ text.length \in Nat
  /\ text.paragraphs \in Seq([start : Nat \ {0}, length : Nat \ {0}])
  /\ \A i \in DOMAIN text.paragraphs :
       text.paragraphs[i].start + text.paragraphs[i].length <= text.length + 1
  /\ \A i, j \in DOMAIN text.paragraphs : i < j =>
       text.paragraphs[i].start + text.paragraphs[i].length <= text.paragraphs[j].start

VARIABLES
  records, \* the table vector_records, from record ids <<document, index>>
  run,     \* the runs of index: what they await, and what they are to write
  deletes,
  latest   \* history: what was written last of a document, and what is deleted of it since

vars == <<records, run, deletes, latest>>

-----------------------------------------------------------------------------
(* Cutting a document into chunks, which are records [index, content]. *)

Positions(first, n) == [i \in 1 .. n |-> first + i - 1]
Lesser(m, n) == IF m <= n THEN m ELSE n

\* _split_text_to_document_chunks
Split(text, r) ==
  LET end(start) == Lesser(start + r.size, Len(text))
      from[start \in 0 .. Len(text)] ==
        IF start = Len(text) THEN <<>>
        ELSE <<SubSeq(text, start + 1, end(start))>> \o
             (IF end(start) = Len(text) THEN <<>> ELSE from[start + r.size - r.overlap])
  IN from[0]

Numbered(contents, next) ==
  [i \in DOMAIN contents |-> [index |-> next + i - 1, content |-> contents[i]]]

\* _flush_paragraph_chunk, on the chunks so far, the paragraphs pending and the next index
Flush(s) ==
  IF s.pending = <<>> THEN s
  ELSE [chunks |-> Append(s.chunks, [index |-> s.next, content |-> s.pending]),
        pending |-> <<>>, next |-> s.next + 1]

Joined(pending, paragraph) == IF pending = <<>> THEN paragraph ELSE pending \o <<0, 0>> \o paragraph

TooLong(s, paragraph, r) == s.pending # <<>> /\ Len(Joined(s.pending, paragraph)) > r.size

\* Faulty: the chunks of a paragraph that is cut up do not advance the index.
CutUpInPlace(s, pieces) == [s EXCEPT !.chunks = @ \o Numbered(pieces, s.next)]

CutUp(s, pieces) ==
  [s EXCEPT !.chunks = @ \o Numbered(pieces, s.next), !.next = @ + Len(pieces)]

\* _chunk_documents_by_paragraph, the body of its loop
TakeParagraph(s, paragraph, r) ==
  IF Len(paragraph) > r.size THEN CutUp(Flush(s), Split(paragraph, r))
  ELSE IF TooLong(s, paragraph, r) THEN [Flush(s) EXCEPT !.pending = paragraph]
  ELSE [s EXCEPT !.pending = Joined(@, paragraph)]

\* The paragraphs one after the other
ByParagraph(text, r) ==
  LET paragraph(n) == Positions(text.paragraphs[n].start, text.paragraphs[n].length)
      taken[n \in 0 .. Len(text.paragraphs)] ==
        IF n = 0 THEN [chunks |-> <<>>, pending |-> <<>>, next |-> 0]
        ELSE TakeParagraph(taken[n - 1], paragraph(n), r)
  IN Flush(taken[Len(text.paragraphs)]).chunks

ByCharacter(text, r) == Numbered(Split(Positions(1, text.length), r), 0)

Chunks(version, r) ==
  IF r.strategy = "paragraph" THEN ByParagraph(Text[version], r) ELSE ByCharacter(Text[version], r)

\* The chunks of all documents, each with the id its record is to have.
Pieces(r) ==
  LET pieces(d) == LET chunks == Chunks(r.documents[d], r) IN
        [i \in DOMAIN chunks |-> [id |-> <<d, chunks[i].index>>, content |-> chunks[i].content]]
      documents == SetToSeq(DOMAIN r.documents)
  IN FlattenSeq([i \in DOMAIN documents |-> pieces(documents[i])])

-----------------------------------------------------------------------------

New == [phase |-> "new", request |-> None, rows |-> <<>>]

Init ==
  /\ records = <<>>
  /\ run = [j \in Run |-> New]
  /\ deletes = 0
  /\ latest = [d \in Document |-> None]

Begin(j, r) ==
  /\ run[j].phase = "new"
  /\ run' = [run EXCEPT ![j] = [phase |-> "embedding", request |-> r, rows |-> <<>>]]
  /\ UNCHANGED <<records, deletes, latest>>

\* The embeddings of the contents, each with the index of its input, in some order; a
\* provider may leave one out or give one too many.
Answers(pieces) ==
  LET embedding(i) == [index |-> i, vector |-> IF i \in DOMAIN pieces THEN pieces[i].content ELSE <<>>]
      orders == SetToSeqs(DOMAIN pieces)
  IN {[i \in DOMAIN o |-> embedding(o[i])] :
        o \in orders \cup {Append(o, Len(o) + 1) : o \in orders}
                     \cup {Tail(o) : o \in {q \in orders : q # <<>>}}}

\* {**g, **f}
Merged(f, g) == [key \in DOMAIN f \cup DOMAIN g |-> IF key \in DOMAIN f THEN f[key] ELSE g[key]]

\* _collection_metadata
InCollection(c) == IF c = None THEN <<>> ELSE [collection_id |-> c]

\* The metadata of a document, its version among them, and what is known of a chunk of it.
ChunkMetadata(collection, d, version) ==
  Merged(InCollection(collection), [document_id |-> d, version |-> version])

Vector(size, of) == [size |-> size, of |-> of]

Row(piece, vector, r) ==
  [id |-> piece.id, content |-> piece.content, vector |-> Vector(r.dimensions, vector),
   metadata |-> ChunkMetadata(r.collection, piece.id[1], r.documents[piece.id[1]])]

\* _build_vector_records
Rows(answer, pieces, r) ==
  [i \in DOMAIN pieces |->
     Row(pieces[i], (CHOOSE e \in Range(answer) : e.index = i).vector, r)]

Complete(answer, pieces) ==
  /\ \A i \in DOMAIN pieces : \E e \in Range(answer) : e.index = i
  /\ Len(answer) = Len(pieces)

Embedded(j) ==
  /\ run[j].phase = "embedding"
  /\ LET r == run[j].request
         pieces == Pieces(r)
     IN \E answer \in Answers(pieces) :
          /\ Complete(answer, pieces)
          /\ run' = [run EXCEPT ![j].phase = "writing", ![j].rows = Rows(answer, pieces, r)]
  /\ UNCHANGED <<records, deletes, latest>>

Over(j) == run' = [run EXCEPT ![j] = [phase |-> "over", request |-> None, rows |-> <<>>]]

\* The provider raises or its answer is not complete; the transaction is rolled back.
Fail(j) ==
  /\ run[j].phase \in {"embedding", "writing"}
  /\ Over(j)
  /\ UNCHANGED <<records, deletes, latest>>

\* SQLiteVectorStore.upsert.  The last row of an id is the one that stays.
Upserted(rows) ==
  [id \in DOMAIN records \cup {row.id : row \in Range(rows)} |->
     IF \E row \in Range(rows) : row.id = id
     THEN rows[CHOOSE i \in DOMAIN rows :
                 rows[i].id = id /\ \A k \in DOMAIN rows : rows[k].id = id => k <= i]
     ELSE records[id]]

Write(j) ==
  /\ run[j].phase = "writing"
  /\ records' = Upserted(run[j].rows)
  /\ LET r == run[j].request
         count(d) == Cardinality({i \in DOMAIN run[j].rows : run[j].rows[i].id[1] = d})
     IN latest' = [d \in Document |->
          IF d \in DOMAIN r.documents
          THEN [version |-> r.documents[d], collection |-> r.collection, count |-> count(d), gone |-> {}]
          ELSE latest[d]]
  /\ Over(j)
  /\ UNCHANGED deletes

Delete(id) ==
  /\ deletes < MaxDeletes /\ id \in DOMAIN records /\ id[1] \in Document
  /\ records' = [other \in DOMAIN records \ {id} |-> records[other]]
  /\ latest' = [latest EXCEPT ![id[1]].gone = @ \cup Range(records[id].content)]
  /\ deletes' = deletes + 1
  /\ UNCHANGED run

\* The process ends: the table is on disk.
RunsEnd ==
  run' = [j \in Run |-> IF run[j].phase = "new" THEN New
                        ELSE [phase |-> "over", request |-> None, rows |-> <<>>]]

Crash ==
  /\ \E j \in Run : run[j].phase \in {"embedding", "writing"}
  /\ RunsEnd
  /\ UNCHANGED <<records, deletes, latest>>

Next ==
  \/ \E j \in Run, r \in Request : Begin(j, r)
  \/ \E j \in Run : Embedded(j)
  \/ \E j \in Run : Fail(j)
  \/ \E j \in Run : Write(j)
  \/ \E id \in DOMAIN records : Delete(id)
  \/ Crash

Spec == Init /\ [][Next]_vars

-----------------------------------------------------------------------------

\* A chunk is never longer than asked for, and none repeats a part of another one.
ChunksFit(j) ==
  run[j].phase = "writing" =>
    LET rows == run[j].rows IN
    \A i \in DOMAIN rows :
      /\ Len(rows[i].content) \in 1 .. run[j].request.size
      /\ \A k \in DOMAIN rows : rows[k].id[1] = rows[i].id[1] /\ k # i =>
           ~ Range(rows[k].content) \subseteq Range(rows[i].content)

\* What was written last of a document is there: its text is found in its collection as
\* far as nobody deleted it, in records whose vectors are the embeddings of their own
\* contents, and no record of an earlier version is mixed in.  What a longer version left
\* behind stays in the store, but at higher indexes only.  And the chunks that are about to
\* be written have the size asked for and repeat no part of one another.
LatestIsWhole ==
  /\ \A j \in Run : ChunksFit(j)
  /\ \A d \in Document : latest[d] # None =>
       LET l == latest[d]
           current == {id \in DOMAIN records : id[1] = d /\ id[2] < l.count}
       IN
       /\ \A id \in current :
            /\ records[id].metadata = ChunkMetadata(l.collection, d, l.version)
            /\ records[id].vector.of = records[id].content
       /\ \A p \in Range(Text[l.version].paragraphs) :
            \A c \in p.start .. p.start + p.length - 1 :
              c \notin l.gone => \E id \in current : c \in Range(records[id].content)

=============================================================================
