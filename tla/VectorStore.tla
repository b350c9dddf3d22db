---------------------------- MODULE VectorStore ----------------------------
(***************************************************************************)
(* InMemoryVectorStore: upsert awaits the embedder and then stores, search *)
(* awaits it and then ranks what is stored.  The event loop interleaves    *)
(* the calls at these awaits, and answers need not come in the order of    *)
(* the calls.  A vector is modelled by the text it was made from, and the  *)
(* cosine by a table of scores.                                            *)
(***************************************************************************)
EXTENDS Integers, Sequences, FiniteSets

CONSTANTS
    Upserts, Searches,  \* calls
    Documents,
    Batch,       \* Batch[u]: the documents of upsert u
    IdOf, TextOf,
    Matching,    \* Matching[s]: the documents whose metadata satisfy where
    Score,       \* Score[s][text]: similarity of a text to the query of s
    K            \* K[s]: how many documents search s asks for

Ids == {IdOf[d] : d \in Documents}
Texts == {TextOf[d] : d \in Documents}

ASSUME DocumentsAssumption ==
    /\ DOMAIN IdOf = Documents /\ DOMAIN TextOf = Documents
    /\ Batch \in [Upserts -> Seq(Documents)]

\* A document object is made for one upsert.
ASSUME BatchAssumption ==
    \A u, v \in Upserts : \A m \in DOMAIN Batch[u], n \in DOMAIN Batch[v] :
        Batch[u][m] = Batch[v][n] => u = v /\ m = n

ASSUME SearchAssumption ==
    /\ Upserts \cap Searches = {}
    /\ Matching \in [Searches -> SUBSET Documents]
    /\ \A s \in Searches : Score[s] \in [Texts -> Nat] /\ K[s] \in Nat

VARIABLES
    docs,     \* _docs: the document of each id
    vectors,  \* _vectors: the vector of each id
    phase,    \* of each call: "idle", "embedding", "returned" or "raised"
    hits,     \* hits[s]: the documents that search s returned, in order
    before,   \* before[u]: the upserts that had ended when u was called (history)
    kept      \* kept[s]: documents stored when s was called and not replaced since (history)

vars == <<docs, vectors, phase, hits, before, kept>>

Nothing == [i \in {} |-> {}]

Ended == {u \in Upserts : phase[u] \in {"returned", "raised"}}

Stored == {docs[i] : i \in DOMAIN docs}

Init ==
    /\ docs = Nothing /\ vectors = Nothing
    /\ phase = [c \in Upserts \cup Searches |-> "idle"]
    /\ hits = [s \in Searches |-> <<>>]
    /\ before = [u \in Upserts |-> {}]
    /\ kept = [s \in Searches |-> {}]

-----------------------------------------------------------------------------
(* upsert.                                                                 *)

\* Mutant of CallUpsert: the documents are put in place before the embedder is awaited.
CallUpsertEager(u) ==
    /\ phase[u] = "idle"
    /\ phase' = [phase EXCEPT ![u] = "embedding"]
    /\ before' = [before EXCEPT ![u] = Ended]
    /\ docs' = [i \in DOMAIN docs \cup {IdOf[Batch[u][n]] : n \in DOMAIN Batch[u]} |->
          IF \E n \in DOMAIN Batch[u] : IdOf[Batch[u][n]] = i
          THEN Batch[u][CHOOSE n \in DOMAIN Batch[u] : IdOf[Batch[u][n]] = i]
          ELSE docs[i]]
    /\ UNCHANGED <<vectors, hits, kept>>

CallUpsert(u) ==
    /\ phase[u] = "idle"
    /\ phase' = [phase EXCEPT ![u] = "embedding"]
    /\ before' = [before EXCEPT ![u] = Ended]
    /\ UNCHANGED <<docs, vectors, hits, kept>>

\* The ids of the first n documents of a batch, and the last of these with an id.
IdsOf(u, n) == {IdOf[Batch[u][m]] : m \in 1..n}

LastOf(u, n, i) ==
    CHOOSE m \in 1..n :
        /\ IdOf[Batch[u][m]] = i
        /\ \A j \in (m + 1)..n : IdOf[Batch[u][j]] # i

\* Mutant of Put: setdefault, which keeps the document that is there.
PutIfAbsent(f, u, n, value) ==
    [i \in DOMAIN f \cup IdsOf(u, n) |->
        IF i \in DOMAIN f THEN f[i] ELSE value[Batch[u][LastOf(u, n, i)]]]

\* The loop over the first n pairs of document and vector.
Put(f, u, n, value) ==
    [i \in DOMAIN f \cup IdsOf(u, n) |->
        IF i \in IdsOf(u, n) THEN value[Batch[u][LastOf(u, n, i)]] ELSE f[i]]

Itself == [d \in Documents |-> d]

\* The embedder answers with n vectors.  With as many as documents all are stored; with
\* fewer, or more, those that have a vector are stored before zip(strict=True) raises.
Store(u) ==
    /\ phase[u] = "embedding"
    /\ \E n \in 0..Len(Batch[u]), right \in BOOLEAN :
          /\ n < Len(Batch[u]) => ~ right
          /\ docs' = Put(docs, u, n, Itself)
          /\ vectors' = Put(vectors, u, n, TextOf)
          /\ phase' = [phase EXCEPT ![u] = IF right THEN "returned" ELSE "raised"]
    /\ kept' = [s \in Searches |->
          IF phase[s] = "embedding" THEN kept[s] \cap {docs'[i] : i \in DOMAIN docs'}
                                    ELSE kept[s]]
    /\ UNCHANGED <<hits, before>>

\* The embedder raises.
UpsertRaises(u) ==
    /\ phase[u] = "embedding"
    /\ phase' = [phase EXCEPT ![u] = "raised"]
    /\ UNCHANGED <<docs, vectors, hits, before, kept>>

-----------------------------------------------------------------------------
(* search.                                                                 *)

CallSearch(s) ==
    /\ phase[s] = "idle"
    /\ phase' = [phase EXCEPT ![s] = "embedding"]
    /\ kept' = [kept EXCEPT ![s] = Stored]
    /\ UNCHANGED <<docs, vectors, hits, before>>

ScoreOf(s, d) == Score[s][vectors[IdOf[d]]]

Least(m, n) == IF m < n THEN m ELSE n

\* The n best of a set of documents.  Which of two with the same score comes first (the
\* one that was inserted first) is left open.
Best(s, D, n) ==
    {h \in [1..Least(n, Cardinality(D)) -> D] :
        /\ \A a, b \in DOMAIN h : a < b => h[a] # h[b] /\ ScoreOf(s, h[a]) >= ScoreOf(s, h[b])
        /\ \A d \in D : \A a \in DOMAIN h :
              (\A b \in DOMAIN h : h[b] # d) => ScoreOf(s, h[a]) >= ScoreOf(s, d)}

\* Mutant of Ranked: the slice is forgotten.
RankedAll(s) == Best(s, Stored \cap Matching[s], Cardinality(Stored))

\* Mutant of Ranked: the best K are taken first and then filtered.
RankedFirst(s) ==
    {SelectSeq(h, LAMBDA d : d \in Matching[s]) : h \in Best(s, Stored, K[s])}

\* where filters, then the rest is ranked and cut.
Ranked(s) == Best(s, Stored \cap Matching[s], K[s])

Answer(s) ==
    /\ phase[s] = "embedding"
    /\ \E h \in Ranked(s) : hits' = [hits EXCEPT ![s] = h]
    /\ phase' = [phase EXCEPT ![s] = "returned"]
    /\ UNCHANGED <<docs, vectors, before, kept>>

\* The embedder raises, or answers with another number of vectors than one.
SearchRaises(s) ==
    /\ phase[s] = "embedding"
    /\ phase' = [phase EXCEPT ![s] = "raised"]
    /\ UNCHANGED <<docs, vectors, hits, before, kept>>

-----------------------------------------------------------------------------
Next ==
    \/ \E u \in Upserts : CallUpsert(u) \/ Store(u) \/ UpsertRaises(u)
    \/ \E s \in Searches : CallSearch(s) \/ Answer(s) \/ SearchRaises(s)

Spec == Init /\ [][Next]_vars
-----------------------------------------------------------------------------
(* Properties.                                                             *)

Phases == {"idle", "embedding", "returned", "raised"}

\* Shape of the state: a document is stored under its own id, and a search returns no
\* more than it asks for.
TypeOK ==
    /\ DOMAIN docs \subseteq Ids
    /\ \A i \in DOMAIN docs : docs[i] \in Documents /\ IdOf[docs[i]] = i
    /\ phase \in [Upserts \cup Searches -> Phases]
    /\ \A s \in Searches : hits[s] \in Seq(Documents) /\ Len(hits[s]) <= K[s]
    /\ before \in [Upserts -> SUBSET Upserts]
    /\ kept \in [Searches -> SUBSET Documents]

\* Each document has the vector of its own text, whatever overlaps and wherever an upsert
\* breaks off: search indexes _vectors by the ids of _docs.
VectorsMatchDocuments ==
    /\ DOMAIN vectors = DOMAIN docs
    /\ \A i \in DOMAIN docs : vectors[i] = TextOf[docs[i]]

\* What an upsert that returned has written stays, or has made way for an upsert that had
\* not ended when this one was called: never for an older one, nor for an earlier document
\* of the same batch.
UpsertIsVisible ==
    \A u \in Upserts : phase[u] = "returned" => \A n \in DOMAIN Batch[u] :
        LET i == IdOf[Batch[u][n]]
        IN  /\ i \in DOMAIN docs
            /\ \E v \in Upserts \ before[u] : \E m \in DOMAIN Batch[v] :
                  docs[i] = Batch[v][m] /\ (v = u => m >= n)

\* A search finds what was stored all the while it ran: a document that matches where is
\* returned, or as many as were asked for that are at least as similar.
SearchMissesNothing ==
    \A s \in Searches : phase[s] = "returned" =>
        \A d \in kept[s] \cap Matching[s] :
            \/ \E n \in DOMAIN hits[s] : hits[s][n] = d
            \/ /\ Len(hits[s]) = K[s]
               /\ \A n \in DOMAIN hits[s] :
                     Score[s][TextOf[hits[s][n]]] >= Score[s][TextOf[d]]
=============================================================================
