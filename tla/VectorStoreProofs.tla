-------------------------- MODULE VectorStoreProofs --------------------------
(***************************************************************************)
(* What overlapping upserts leave in the store, and what a search finds of *)
(* it, for any number of calls, batches and documents.                     *)
(***************************************************************************)
EXTENDS VectorStore, WellFoundedInduction, FiniteSetTheorems, TLAPS

\* Of the places of a batch at which an id occurs there is a last one.
LEMMA LastPlace ==
    ASSUME NEW n \in Nat, NEW T, T \subseteq 1..n, T # {}
    PROVE  \E m \in T : \A j \in T : j <= m
<1> DEFINE R == OpToRel(<, Nat)
           Gaps == {n - m : m \in T}
<1>1. Gaps \subseteq Nat /\ Gaps # {}
  <2>1. \A m \in 1..n : n - m \in Nat
    OBVIOUS
  <2>2. Gaps \subseteq Nat
    BY <2>1
  <2>3. PICK m \in T : TRUE
    OBVIOUS
  <2>4. n - m \in Gaps
    BY <2>3
  <2>. QED BY <2>2, <2>4
<1>2. \E g \in Gaps : \A h \in Gaps : <<h, g>> \notin R
  <2>1. IsWellFoundedOn(R, Nat)
    BY NatLessThanWellFounded
  <2>. HIDE DEF R, Gaps
  <2>. QED BY <1>1, <2>1, WFMin
<1>3. PICK m \in T : \A j \in T : <<n - j, n - m>> \notin R
  BY <1>2
<1>4. ASSUME NEW j \in T PROVE j <= m
  <2>1. n - j \in Nat /\ n - m \in Nat /\ j \in Nat /\ m \in Nat
    OBVIOUS
  <2>2. ~ (n - j < n - m)
    BY <1>3, <2>1 DEF OpToRel
  <2>. QED BY <2>1, <2>2
<1>. QED BY <1>4

\* LastOf is the last of the places up to n at which the id i occurs.
LEMMA LastOfLemma ==
    ASSUME NEW u \in Upserts, NEW n \in 0..Len(Batch[u]), NEW i \in IdsOf(u, n)
    PROVE  /\ LastOf(u, n, i) \in 1..n
           /\ LastOf(u, n, i) \in DOMAIN Batch[u]
           /\ IdOf[Batch[u][LastOf(u, n, i)]] = i
           /\ Batch[u][LastOf(u, n, i)] \in Documents
           /\ \A m \in 1..n : IdOf[Batch[u][m]] = i => m <= LastOf(u, n, i)
<1> DEFINE T == {m \in 1..n : IdOf[Batch[u][m]] = i}
<1>1. Batch[u] \in Seq(Documents)
  BY DocumentsAssumption
<1>2. n \in Nat /\ T \subseteq 1..n /\ T # {}
  BY <1>1 DEF IdsOf
<1>3. PICK m \in T : \A j \in T : j <= m
  <2>. HIDE DEF T
  <2>. QED BY <1>2, LastPlace
<1>4. \E k \in 1..n : /\ IdOf[Batch[u][k]] = i
                      /\ \A j \in (k + 1)..n : IdOf[Batch[u][j]] # i
  <2>1. \A j \in (m + 1)..n : j \notin T
    BY <1>2, <1>3
  <2>2. \A j \in (m + 1)..n : j \in 1..n
    BY <1>2
  <2>. QED BY <2>1, <2>2, <1>3
<1>5. /\ LastOf(u, n, i) \in 1..n
      /\ IdOf[Batch[u][LastOf(u, n, i)]] = i
      /\ \A j \in (LastOf(u, n, i) + 1)..n : IdOf[Batch[u][j]] # i
  BY <1>4 DEF LastOf
<1>6. ASSUME NEW j \in 1..n, IdOf[Batch[u][j]] = i PROVE j <= LastOf(u, n, i)
  BY <1>2, <1>5, <1>6
<1>. QED BY <1>1, <1>2, <1>5, <1>6
-----------------------------------------------------------------------------
\* Each document is stored under its own id, with the vector of its text.
StoreInv ==
    /\ DOMAIN vectors = DOMAIN docs
    /\ \A i \in DOMAIN docs :
          docs[i] \in Documents /\ IdOf[docs[i]] = i /\ vectors[i] = TextOf[docs[i]]

LEMMA StoreInvStep == StoreInv /\ [Next]_vars => StoreInv'
<1> SUFFICES ASSUME StoreInv, [Next]_vars PROVE StoreInv'
  OBVIOUS
<1>1. ASSUME NEW u \in Upserts, Store(u) PROVE StoreInv'
  <2>1. PICK n \in 0..Len(Batch[u]) :
            docs' = Put(docs, u, n, Itself) /\ vectors' = Put(vectors, u, n, TextOf)
    BY <1>1 DEF Store
  <2>2. DOMAIN vectors' = DOMAIN docs'
    BY <2>1 DEF Put, StoreInv
  <2>3. ASSUME NEW i \in DOMAIN docs'
        PROVE  docs'[i] \in Documents /\ IdOf[docs'[i]] = i /\ vectors'[i] = TextOf[docs'[i]]
    <3>1. CASE i \in IdsOf(u, n)
      <4>1. docs'[i] = Itself[Batch[u][LastOf(u, n, i)]]
        BY <2>1, <3>1 DEF Put
      <4>2. vectors'[i] = TextOf[Batch[u][LastOf(u, n, i)]]
        BY <2>1, <3>1 DEF Put
      <4>. QED BY <3>1, <4>1, <4>2, LastOfLemma DEF Itself
    <3>2. CASE i \notin IdsOf(u, n)
      BY <2>1, <2>3, <3>2 DEF Put, StoreInv
    <3>. QED BY <3>1, <3>2
  <2>. QED BY <2>2, <2>3 DEF StoreInv
<1>2. CASE UNCHANGED <<docs, vectors>>
  BY <1>2 DEF StoreInv
<1>. QED
  BY <1>1, <1>2 DEF Next, CallUpsert, UpsertRaises, CallSearch, Answer, SearchRaises, vars

\* search never meets an id without a vector, nor a vector of another text: upsert puts
\* both in place after its await, also when zip(strict=True) raises half way.
THEOREM VectorsFollowDocuments == Spec => []VectorsMatchDocuments
<1>1. Init => StoreInv
  BY DEF Init, StoreInv, Nothing
<1>2. StoreInv => VectorsMatchDocuments
  BY DEF StoreInv, VectorsMatchDocuments
<1>. QED BY <1>1, <1>2, StoreInvStep, PTL DEF Spec
-----------------------------------------------------------------------------
\* Document n of upsert u is still there, or what replaced it is from an upsert that had
\* not ended when u was called.
Visible(u, n) ==
    LET i == IdOf[Batch[u][n]]
    IN  /\ i \in DOMAIN docs
        /\ \E v \in Upserts \ before[u] : \E m \in DOMAIN Batch[v] :
              docs[i] = Batch[v][m] /\ (v = u => m >= n)

\* Upserts that had ended before another was called have ended, and it is none of them.
VisibleInv ==
    /\ before \in [Upserts -> SUBSET Upserts]
    /\ phase \in [Upserts \cup Searches -> Phases]
    /\ \A u \in Upserts : before[u] \subseteq Ended /\ u \notin before[u]
    /\ UpsertIsVisible

LEMMA PhaseLemma ==
    ASSUME VisibleInv, [Next]_vars
    PROVE  /\ (before \in [Upserts -> SUBSET Upserts])'
           /\ (phase \in [Upserts \cup Searches -> Phases])'
           /\ \A u \in Upserts : (before[u] \subseteq Ended /\ u \notin before[u])'
<1>1. ASSUME NEW u \in Upserts, CallUpsert(u)
      PROVE  /\ (before \in [Upserts -> SUBSET Upserts])'
             /\ (phase \in [Upserts \cup Searches -> Phases])'
             /\ \A w \in Upserts : (before[w] \subseteq Ended /\ w \notin before[w])'
  BY <1>1 DEF CallUpsert, VisibleInv, Ended, Phases
<1>2. ASSUME UNCHANGED before, phase' \in [Upserts \cup Searches -> Phases],
             \A w \in Ended : phase'[w] = phase[w]
      PROVE  /\ (before \in [Upserts -> SUBSET Upserts])'
             /\ (phase \in [Upserts \cup Searches -> Phases])'
             /\ \A w \in Upserts : (before[w] \subseteq Ended /\ w \notin before[w])'
  BY <1>2 DEF VisibleInv, Ended
<1>3. ASSUME NEW u \in Upserts, Store(u) \/ UpsertRaises(u)
      PROVE  /\ UNCHANGED before /\ phase' \in [Upserts \cup Searches -> Phases]
             /\ \A w \in Ended : phase'[w] = phase[w]
  BY <1>3 DEF Store, UpsertRaises, VisibleInv, Ended, Phases
<1>4. ASSUME NEW s \in Searches, CallSearch(s) \/ Answer(s) \/ SearchRaises(s)
      PROVE  /\ UNCHANGED before /\ phase' \in [Upserts \cup Searches -> Phases]
             /\ \A w \in Ended : phase'[w] = phase[w]
  BY <1>4, SearchAssumption DEF CallSearch, Answer, SearchRaises, VisibleInv, Ended, Phases
<1>5. CASE UNCHANGED vars
  BY <1>5 DEF vars, VisibleInv, Ended
<1>. QED BY <1>1, <1>2, <1>3, <1>4, <1>5 DEF Next

LEMMA StoreKeepsVisible ==
    ASSUME VisibleInv, NEW w \in Upserts, Store(w)
    PROVE  UpsertIsVisible'
<1>1. PICK n \in 0..Len(Batch[w]), right \in BOOLEAN :
          /\ n < Len(Batch[w]) => ~ right
          /\ docs' = Put(docs, w, n, Itself)
          /\ phase' = [phase EXCEPT ![w] = IF right THEN "returned" ELSE "raised"]
  BY DEF Store
<1>2. phase[w] = "embedding" /\ UNCHANGED before
  BY DEF Store
<1>3. \A u \in Upserts : w \notin before[u]
  BY <1>2 DEF VisibleInv, Ended
<1>4. ASSUME NEW u \in Upserts, phase'[u] = "returned", NEW m \in DOMAIN Batch[u]
      PROVE  Visible(u, m)'
  <2> DEFINE i == IdOf[Batch[u][m]]
  <2>1. CASE i \in IdsOf(w, n)
    <3> DEFINE l == LastOf(w, n, i)
    <3>1. /\ l \in DOMAIN Batch[w] /\ Batch[w][l] \in Documents
          /\ \A j \in 1..n : IdOf[Batch[w][j]] = i => j <= l
      BY <2>1, LastOfLemma
    <3>2. i \in DOMAIN docs' /\ docs'[i] = Batch[w][l]
      BY <1>1, <2>1, <3>1 DEF Put, Itself
    <3>3. ASSUME w = u PROVE l >= m
      <4>1. n = Len(Batch[w])
        BY <1>1, <1>4, <3>3, DocumentsAssumption DEF VisibleInv
      <4>2. m \in 1..n
        BY <1>4, <3>3, <4>1, DocumentsAssumption
      <4>3. m <= l
        BY <3>1, <3>3, <4>2
      <4>4. l \in Nat /\ m \in Nat
        BY <3>1, <4>2, DocumentsAssumption
      <4>. QED BY <4>3, <4>4
    <3>4. w \in Upserts \ before'[u]
      BY <1>2, <1>3
    <3>. QED BY <3>1, <3>2, <3>3, <3>4 DEF Visible
  <2>2. CASE i \notin IdsOf(w, n)
    <3>1. u # w
      <4>1. ASSUME u = w PROVE FALSE
        <5>1. n = Len(Batch[w])
          BY <1>1, <1>4, <4>1, DocumentsAssumption DEF VisibleInv
        <5>2. m \in 1..n
          BY <1>4, <4>1, <5>1, DocumentsAssumption
        <5>. QED BY <2>2, <4>1, <5>2 DEF IdsOf
      <4>. QED BY <4>1
    <3>2. phase[u] = "returned"
      BY <1>1, <1>4, <3>1 DEF VisibleInv
    <3>3. Visible(u, m)
      BY <1>4, <3>2 DEF VisibleInv, UpsertIsVisible, Visible
    <3>4. i \in DOMAIN docs' /\ docs'[i] = docs[i]
      BY <1>1, <2>2, <3>3 DEF Put, Visible
    <3>. QED BY <1>2, <3>3, <3>4 DEF Visible
  <2>. QED BY <2>1, <2>2
<1>. QED BY <1>4 DEF UpsertIsVisible, Visible

LEMMA VisibleStep == VisibleInv /\ [Next]_vars => VisibleInv'
<1> SUFFICES ASSUME VisibleInv, [Next]_vars PROVE UpsertIsVisible'
  BY PhaseLemma DEF VisibleInv
<1>1. ASSUME NEW u \in Upserts, Store(u) PROVE UpsertIsVisible'
  BY <1>1, StoreKeepsVisible
<1>2. ASSUME UNCHANGED docs,
             \A u \in Upserts : phase'[u] = "returned" =>
                 phase[u] = "returned" /\ before'[u] = before[u]
      PROVE  UpsertIsVisible'
  BY <1>2 DEF VisibleInv, UpsertIsVisible
<1>3. ASSUME NEW u \in Upserts, CallUpsert(u) \/ UpsertRaises(u)
      PROVE  /\ UNCHANGED docs
             /\ \A w \in Upserts : phase'[w] = "returned" =>
                    phase[w] = "returned" /\ before'[w] = before[w]
  BY <1>3 DEF CallUpsert, UpsertRaises, VisibleInv
<1>4. ASSUME NEW s \in Searches, CallSearch(s) \/ Answer(s) \/ SearchRaises(s)
      PROVE  /\ UNCHANGED docs
             /\ \A w \in Upserts : phase'[w] = "returned" =>
                    phase[w] = "returned" /\ before'[w] = before[w]
  BY <1>4, SearchAssumption DEF CallSearch, Answer, SearchRaises, VisibleInv
<1>5. CASE UNCHANGED vars
  BY <1>5, <1>2 DEF vars
<1>. QED BY <1>1, <1>2, <1>3, <1>4, <1>5 DEF Next

\* What an upsert has written and returned is replaced only by an upsert that had not
\* ended when it was called, however the embedder's answers are ordered.
THEOREM UpsertsAreVisible == Spec => []UpsertIsVisible
<1>1. Init => VisibleInv
  BY DEF Init, VisibleInv, UpsertIsVisible, Ended, Phases
<1>2. VisibleInv => UpsertIsVisible
  BY DEF VisibleInv
<1>. QED BY <1>1, <1>2, VisibleStep, PTL DEF Spec
-----------------------------------------------------------------------------
(* What a search returns.                                                  *)

\* The similarity of a stored document is that of its text.
LEMMA ScoreOfStored ==
    ASSUME StoreInv, NEW s \in Searches, NEW d \in Stored
    PROVE  d \in Documents /\ ScoreOf(s, d) = Score[s][TextOf[d]]
<1>1. PICK i \in DOMAIN docs : d = docs[i]
  BY DEF Stored
<1>. QED BY <1>1 DEF StoreInv, ScoreOf

\* The n best of a set: all of it, or n documents that no other one surpasses.
LEMMA BestLemma ==
    ASSUME StoreInv, NEW s \in Searches, NEW D, D \subseteq Stored, IsFiniteSet(D),
           NEW n \in Nat, NEW h \in Best(s, D, n)
    PROVE  /\ h \in Seq(Documents) /\ Len(h) <= n
           /\ \A d \in D :
                 \/ \E a \in DOMAIN h : h[a] = d
                 \/ /\ Len(h) = n
                    /\ \A a \in DOMAIN h : Score[s][TextOf[h[a]]] >= Score[s][TextOf[d]]
<1> DEFINE c == Cardinality(D)
           l == Least(n, c)
<1>1. c \in Nat
  BY FS_CardinalityType
<1>2. /\ l \in Nat /\ l <= n
      /\ c <= n => l = c
      /\ c > n => l = n
  BY <1>1 DEF Least
<1>3. /\ h \in [1..l -> D]
      /\ \A a, b \in DOMAIN h : a < b => h[a] # h[b]
      /\ \A d \in D : \A a \in DOMAIN h :
            (\A b \in DOMAIN h : h[b] # d) => ScoreOf(s, h[a]) >= ScoreOf(s, d)
  BY DEF Best
<1>. HIDE DEF c, l
<1>4. h \in Seq(Documents) /\ Len(h) = l
  <2>1. \A d \in D : d \in Documents
    BY ScoreOfStored
  <2>2. h \in [1..l -> Documents]
    BY <1>3, <2>1
  <2>. QED BY <1>2, <2>2
<1>5. ASSUME NEW d \in D, \A b \in DOMAIN h : h[b] # d
      PROVE  /\ Len(h) = n
             /\ \A a \in DOMAIN h : Score[s][TextOf[h[a]]] >= Score[s][TextOf[d]]
  <2>1. ~ (c <= n)
    <3> SUFFICES ASSUME c <= n PROVE FALSE
      OBVIOUS
    <3>1. l = c
      BY <1>2
    <3>2. h \in Injection(1..l, D)
      <4>1. \A a, b \in 1..l : a # b => h[a] # h[b]
        BY <1>2, <1>3
      <4>. QED BY <1>3, <4>1 DEF Injection, IsInjective
    <3>3. Cardinality(1..l) = Cardinality(D)
      BY <1>2, <3>1, FS_Interval DEF c
    <3>4. h \in Surjection(1..l, D)
      BY <3>2, <3>3, FS_Injection
    <3>. QED BY <1>3, <1>5, <3>4 DEF Surjection
  <2>2. Len(h) = n
    BY <1>1, <1>2, <1>4, <2>1
  <2>3. ASSUME NEW a \in DOMAIN h PROVE Score[s][TextOf[h[a]]] >= Score[s][TextOf[d]]
    <3>1. ScoreOf(s, h[a]) >= ScoreOf(s, d)
      BY <1>3, <1>5
    <3>2. h[a] \in Stored /\ d \in Stored
      BY <1>3
    <3>. QED BY <3>1, <3>2, ScoreOfStored
  <2>. QED BY <2>2, <2>3
<1>. QED BY <1>2, <1>4, <1>5

\* A search that is under way still finds what was stored when it was called and has not
\* been replaced since; when it has returned, it has missed nothing of that.
FindsInv ==
    /\ StoreInv /\ IsFiniteSet(Stored)
    /\ DOMAIN docs \subseteq Ids
    /\ phase \in [Upserts \cup Searches -> Phases]
    /\ DOMAIN hits = Searches
    /\ \A s \in Searches : hits[s] \in Seq(Documents) /\ Len(hits[s]) <= K[s]
    /\ kept \in [Searches -> SUBSET Documents]
    /\ \A s \in Searches : phase[s] = "embedding" => kept[s] \subseteq Stored
    /\ SearchMissesNothing

LEMMA StoredStaysFinite ==
    ASSUME FindsInv, NEW u \in Upserts, Store(u)
    PROVE  IsFiniteSet(Stored') /\ DOMAIN docs' \subseteq Ids
<1>1. PICK n \in 0..Len(Batch[u]) : docs' = Put(docs, u, n, Itself)
  BY DEF Store
<1>2. Batch[u] \in Seq(Documents)
  BY DocumentsAssumption
<1> DEFINE f == [m \in 1..n |-> Batch[u][m]]
           R == {Batch[u][m] : m \in 1..n}
<1>3. IsFiniteSet(R)
  <2>1. IsFiniteSet(1..n)
    BY <1>2, FS_Interval
  <2>2. f \in Surjection(1..n, R)
    BY DEF Surjection
  <2>. HIDE DEF f, R
  <2>. QED BY <2>1, <2>2, FS_Surjection
<1>4. ASSUME NEW i \in DOMAIN docs' PROVE i \in Ids /\ docs'[i] \in Stored \cup R
  <2>1. CASE i \in IdsOf(u, n)
    <3>1. /\ LastOf(u, n, i) \in 1..n /\ IdOf[Batch[u][LastOf(u, n, i)]] = i
          /\ Batch[u][LastOf(u, n, i)] \in Documents
      BY <2>1, LastOfLemma
    <3>2. docs'[i] = Batch[u][LastOf(u, n, i)]
      BY <1>1, <2>1, <3>1 DEF Put, Itself
    <3>. QED BY <3>1, <3>2 DEF Ids
  <2>2. CASE i \notin IdsOf(u, n)
    <3>1. i \in DOMAIN docs /\ docs'[i] = docs[i]
      BY <1>1, <1>4, <2>2 DEF Put
    <3>. QED BY <3>1 DEF FindsInv, Stored
  <2>. QED BY <2>1, <2>2
<1>5. IsFiniteSet(Stored \cup R)
  <2>. HIDE DEF R
  <2>. QED BY <1>3, FS_Union DEF FindsInv
<1>6. Stored' \in SUBSET (Stored \cup R)
  <2>. HIDE DEF R
  <2>. QED BY <1>4 DEF Stored
<1>7. IsFiniteSet(Stored')
  <2>. HIDE DEF R
  <2>. QED BY <1>5, <1>6, FS_Subset
<1>. QED BY <1>4, <1>7

\* A step of an upsert leaves what searches have returned, and takes what it replaces from
\* what they are held to find.
LEMMA StoreKeepsFinds ==
    ASSUME FindsInv, NEW u \in Upserts, Store(u)
    PROVE  FindsInv'
<1>1. /\ kept' = [s \in Searches |-> IF phase[s] = "embedding"
                                     THEN kept[s] \cap {docs'[i] : i \in DOMAIN docs'}
                                     ELSE kept[s]]
      /\ UNCHANGED hits
      /\ \E p \in {"returned", "raised"} : phase' = [phase EXCEPT ![u] = p]
  BY DEF Store
<1>2. \A s \in Searches : phase'[s] = phase[s]
  BY <1>1, SearchAssumption DEF FindsInv
<1>3. phase' \in [Upserts \cup Searches -> Phases]
  BY <1>1 DEF FindsInv, Phases
<1>4. Stored' = {docs'[i] : i \in DOMAIN docs'}
  BY DEF Stored
<1>5. \A s \in Searches :
          /\ kept'[s] \subseteq kept[s]
          /\ phase[s] = "embedding" => kept'[s] \subseteq Stored'
  BY <1>1, <1>4
<1>6. kept' \in [Searches -> SUBSET Documents]
  BY <1>1, <1>5 DEF FindsInv
<1>7. SearchMissesNothing'
  BY <1>1, <1>2, <1>5 DEF FindsInv, SearchMissesNothing
<1>8. StoreInv'
  BY StoreInvStep DEF FindsInv, Next
<1>. QED BY <1>1, <1>2, <1>3, <1>5, <1>6, <1>7, <1>8, StoredStaysFinite DEF FindsInv

LEMMA AnswerKeepsFinds ==
    ASSUME FindsInv, NEW s \in Searches, Answer(s)
    PROVE  FindsInv'
<1>1. PICK h \in Ranked(s) : hits' = [hits EXCEPT ![s] = h]
  BY DEF Answer
<1>2. /\ phase[s] = "embedding" /\ phase' = [phase EXCEPT ![s] = "returned"]
      /\ UNCHANGED <<docs, vectors, kept>>
  BY DEF Answer
<1>3. K[s] \in Nat
  BY SearchAssumption
<1>4. IsFiniteSet(Stored \cap Matching[s])
  BY FS_Intersection DEF FindsInv
<1>5. /\ h \in Seq(Documents) /\ Len(h) <= K[s]
      /\ \A d \in Stored \cap Matching[s] :
            \/ \E a \in DOMAIN h : h[a] = d
            \/ /\ Len(h) = K[s]
               /\ \A a \in DOMAIN h : Score[s][TextOf[h[a]]] >= Score[s][TextOf[d]]
  <2>1. h \in Best(s, Stored \cap Matching[s], K[s]) /\ StoreInv
    BY DEF Ranked, FindsInv
  <2>2. Stored \cap Matching[s] \subseteq Stored
    OBVIOUS
  <2>. QED BY <1>3, <1>4, <2>1, <2>2, BestLemma
<1>6. /\ hits'[s] = h /\ DOMAIN hits' = Searches
      /\ \A t \in Searches : t # s => hits'[t] = hits[t] /\ phase'[t] = phase[t]
      /\ phase' \in [Upserts \cup Searches -> Phases]
      /\ phase'[s] = "returned"
  BY <1>1, <1>2 DEF FindsInv, Phases
<1>7. kept[s] \subseteq Stored
  BY <1>2 DEF FindsInv
<1>8. SearchMissesNothing'
  <2> SUFFICES ASSUME NEW t \in Searches, phase'[t] = "returned",
                      NEW d \in kept[t] \cap Matching[t]
               PROVE  \/ \E n \in DOMAIN hits'[t] : hits'[t][n] = d
                      \/ /\ Len(hits'[t]) = K[t]
                         /\ \A n \in DOMAIN hits'[t] :
                               Score[t][TextOf[hits'[t][n]]] >= Score[t][TextOf[d]]
    BY <1>2 DEF SearchMissesNothing
  <2>1. CASE t = s
    BY <1>5, <1>6, <1>7, <2>1
  <2>2. CASE t # s
    BY <1>6, <2>2 DEF FindsInv, SearchMissesNothing
  <2>. QED BY <2>1, <2>2
<1>9. StoreInv' /\ Stored' = Stored /\ UNCHANGED <<docs, kept>>
  BY <1>2 DEF FindsInv, StoreInv, Stored
<1>10. \A t \in Searches : /\ hits'[t] \in Seq(Documents) /\ Len(hits'[t]) <= K[t]
                           /\ phase'[t] = "embedding" => kept'[t] \subseteq Stored'
  BY <1>5, <1>6, <1>9 DEF FindsInv
<1>. QED BY <1>6, <1>8, <1>9, <1>10 DEF FindsInv

LEMMA FindsStep == FindsInv /\ [Next]_vars => FindsInv'
<1> SUFFICES ASSUME FindsInv, [Next]_vars PROVE FindsInv'
  OBVIOUS
<1>1. ASSUME UNCHANGED <<docs, vectors, hits>>,
             phase' \in [Upserts \cup Searches -> Phases],
             kept' \in [Searches -> SUBSET Documents],
             \A s \in Searches :
                 /\ phase'[s] = "returned" => phase[s] = "returned" /\ kept'[s] = kept[s]
                 /\ phase'[s] = "embedding" => kept'[s] \subseteq Stored
      PROVE  FindsInv'
  <2>1. StoreInv' /\ Stored' = Stored
    BY <1>1 DEF FindsInv, StoreInv, Stored
  <2>2. SearchMissesNothing'
    BY <1>1 DEF FindsInv, SearchMissesNothing
  <2>. QED BY <1>1, <2>1, <2>2 DEF FindsInv
<1>2. ASSUME NEW u \in Upserts, CallUpsert(u) \/ UpsertRaises(u) PROVE FindsInv'
  <2>1. /\ UNCHANGED <<docs, vectors, hits, kept>>
        /\ \E p \in Phases : phase' = [phase EXCEPT ![u] = p]
    BY <1>2 DEF CallUpsert, UpsertRaises, Phases
  <2>2. \A s \in Searches : phase'[s] = phase[s]
    BY <2>1, SearchAssumption DEF FindsInv
  <2>3. phase' \in [Upserts \cup Searches -> Phases]
    BY <2>1 DEF FindsInv
  <2>. QED BY <1>1, <2>1, <2>2, <2>3 DEF FindsInv
<1>3. ASSUME NEW s \in Searches, CallSearch(s) PROVE FindsInv'
  <2>1. /\ UNCHANGED <<docs, vectors, hits>>
        /\ phase' = [phase EXCEPT ![s] = "embedding"]
        /\ kept' = [kept EXCEPT ![s] = Stored]
    BY <1>3 DEF CallSearch
  <2>2. Stored \subseteq Documents
    BY DEF FindsInv, StoreInv, Stored
  <2>3. \A t \in Searches : /\ t # s => phase'[t] = phase[t] /\ kept'[t] = kept[t]
                            /\ t = s => phase'[t] = "embedding" /\ kept'[t] = Stored
    BY <2>1 DEF FindsInv
  <2>4. /\ phase' \in [Upserts \cup Searches -> Phases]
        /\ kept' \in [Searches -> SUBSET Documents]
    BY <2>1, <2>2 DEF FindsInv, Phases
  <2>. QED BY <1>1, <2>1, <2>3, <2>4 DEF FindsInv
<1>4. ASSUME NEW s \in Searches, SearchRaises(s) PROVE FindsInv'
  <2>1. /\ UNCHANGED <<docs, vectors, hits, kept>>
        /\ phase' = [phase EXCEPT ![s] = "raised"]
    BY <1>4 DEF SearchRaises
  <2>2. \A t \in Searches : phase'[t] = phase[t] \/ phase'[t] = "raised"
    BY <2>1 DEF FindsInv
  <2>3. phase' \in [Upserts \cup Searches -> Phases]
    BY <2>1 DEF FindsInv, Phases
  <2>. QED BY <1>1, <2>1, <2>2, <2>3 DEF FindsInv
<1>5. CASE UNCHANGED vars
  <2>1. UNCHANGED <<docs, vectors, hits, phase, kept>>
    BY <1>5 DEF vars
  <2>. QED BY <1>1, <2>1 DEF FindsInv
<1>. QED BY <1>2, <1>3, <1>4, <1>5, StoreKeepsFinds, AnswerKeepsFinds DEF Next

LEMMA FindsInvariant == Spec => []FindsInv
<1>1. Init => FindsInv
  <2> SUFFICES ASSUME Init PROVE FindsInv
    OBVIOUS
  <2>1. DOMAIN docs = {} /\ DOMAIN vectors = {} /\ Stored = {}
    BY DEF Init, Nothing, Stored
  <2>2. IsFiniteSet(Stored)
    BY <2>1, FS_EmptySet
  <2>3. StoreInv
    BY <2>1 DEF StoreInv
  <2>4. /\ phase \in [Upserts \cup Searches -> Phases]
        /\ \A s \in Searches : phase[s] = "idle"
        /\ kept \in [Searches -> SUBSET Documents]
    BY DEF Init, Phases
  <2>5. /\ DOMAIN hits = Searches
        /\ \A s \in Searches : hits[s] \in Seq(Documents) /\ Len(hits[s]) <= K[s]
    BY SearchAssumption DEF Init
  <2>. QED BY <2>1, <2>2, <2>3, <2>4, <2>5 DEF FindsInv, SearchMissesNothing
<1>. QED BY <1>1, FindsStep, PTL DEF Spec

\* A search returns every document that matches and was stored all the while it ran, or as
\* many as were asked for that are at least as similar, whatever upserts it overlaps.
THEOREM SearchesMissNothing == Spec => []SearchMissesNothing
<1>1. FindsInv => SearchMissesNothing
  BY DEF FindsInv
<1>. QED BY <1>1, FindsInvariant, PTL

\* The state of the store keeps its shape: each document is under its own id, and a search
\* returns no more than it asks for.
THEOREM StoreTypeCorrect == Spec => []TypeOK
<1>1. Init => VisibleInv
  BY DEF Init, VisibleInv, UpsertIsVisible, Ended, Phases
<1>2. FindsInv /\ VisibleInv => TypeOK
  BY DEF FindsInv, VisibleInv, StoreInv, TypeOK
<1>. QED BY <1>1, <1>2, VisibleStep, FindsInvariant, PTL DEF Spec
=============================================================================
