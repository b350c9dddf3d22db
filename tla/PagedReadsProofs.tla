-------------------------- MODULE PagedReadsProofs --------------------------
(***************************************************************************)
(* What a paged read returns, however the remote list changes between two  *)
(* pages, for any objects, any page limit and any number of reads.         *)
(***************************************************************************)
EXTENDS PagedReads, FiniteSetTheorems, TLAPS

-----------------------------------------------------------------------------
(* The remote list in order.                                               *)

\* The place of i among the objects of P.
Rank(P, i) == Cardinality({j \in P : j <= i})

LEMMA IdsAreFinite ==
    ASSUME NEW P, P \subseteq Ids
    PROVE  /\ IsFiniteSet(P) /\ Cardinality(P) \in Nat
           /\ \A i \in P : i \in Nat /\ i > 0
<1>1. IsFiniteSet(P)
  BY ReadsAssumption, FS_Subset
<1>2. Cardinality(P) \in Nat
  BY <1>1, FS_CardinalityType
<1>. QED BY <1>1, <1>2, ReadsAssumption

\* Ranks are different, and follow the order of creation.
LEMMA RankLemma ==
    ASSUME NEW P, P \subseteq Ids
    PROVE  /\ \A i \in P : Rank(P, i) \in 1..Cardinality(P)
           /\ \A i, k \in P : i < k => Rank(P, i) < Rank(P, k)
           /\ \A i, k \in P : i # k => Rank(P, i) # Rank(P, k)
<1> DEFINE Below(i) == {j \in P : j <= i}
<1>1. \A i \in P : /\ IsFiniteSet(Below(i)) /\ Rank(P, i) = Cardinality(Below(i))
                   /\ Rank(P, i) \in Nat /\ Rank(P, i) <= Cardinality(P)
  <2> SUFFICES ASSUME NEW i \in P
               PROVE  /\ IsFiniteSet(Below(i)) /\ Rank(P, i) = Cardinality(Below(i))
                      /\ Rank(P, i) \in Nat /\ Rank(P, i) <= Cardinality(P)
    OBVIOUS
  <2>1. Below(i) \in SUBSET P /\ Rank(P, i) = Cardinality(Below(i))
    BY DEF Rank
  <2>. HIDE DEF Below
  <2>. QED BY <2>1, IdsAreFinite, FS_Subset, FS_CardinalityType
<1>2. ASSUME NEW i \in P PROVE Rank(P, i) # 0
  <2>1. i \in Below(i)
    BY <1>2, IdsAreFinite
  <2>. HIDE DEF Below
  <2>. QED BY <1>1, <2>1, FS_EmptySet
<1>3. ASSUME NEW i \in P, NEW k \in P, i < k PROVE Rank(P, i) < Rank(P, k)
  <2>1. /\ Below(i) \in SUBSET Below(k)
        /\ k \in Below(k) /\ k \notin Below(i)
    BY <1>3, IdsAreFinite
  <2>. HIDE DEF Below
  <2>2. Cardinality(Below(i)) <= Cardinality(Below(k))
    BY <1>1, <2>1, FS_Subset
  <2>3. Cardinality(Below(i)) # Cardinality(Below(k))
    BY <1>1, <2>1, FS_Subset
  <2>. QED BY <1>1, <2>2, <2>3
<1>4. ASSUME NEW i \in P, NEW k \in P, i # k PROVE Rank(P, i) # Rank(P, k)
  <2>1. i < k \/ k < i
    BY <1>4, IdsAreFinite
  <2>2. Rank(P, i) \in Nat /\ Rank(P, k) \in Nat
    BY <1>1
  <2>. QED BY <1>3, <2>1, <2>2
<1>5. \A i \in P : Rank(P, i) \in 1..Cardinality(P)
  <2>1. Cardinality(P) \in Nat
    BY IdsAreFinite
  <2>. HIDE DEF Below
  <2>. QED BY <1>1, <1>2, <2>1
<1>. QED BY <1>3, <1>4, <1>5

\* Oldest lists a set of objects in the order of their creation.
LEMMA OldestLemma ==
    ASSUME NEW P, P \subseteq Ids
    PROVE  /\ Oldest(P) \in Seq(P) /\ Len(Oldest(P)) = Cardinality(P)
           /\ \A n \in 1..Cardinality(P) : Oldest(P)[n] \in P /\ Rank(P, Oldest(P)[n]) = n
           /\ \A i \in P : Rank(P, i) \in 1..Cardinality(P) /\ Oldest(P)[Rank(P, i)] = i
           /\ \A m, n \in 1..Cardinality(P) : m < n => Oldest(P)[m] < Oldest(P)[n]
<1> DEFINE c == Cardinality(P)
           rank == [i \in P |-> Rank(P, i)]
<1>1. IsFiniteSet(P) /\ c \in Nat
  BY IdsAreFinite
<1>2. rank \in Injection(P, 1..c)
  BY RankLemma DEF Injection, IsInjective
<1>3. rank \in Surjection(P, 1..c)
  <2>. HIDE DEF rank
  <2>1. IsFiniteSet(1..c) /\ Cardinality(1..c) = c
    BY <1>1, FS_Interval
  <2>. QED BY <1>2, <2>1, FS_Injection
<1>4. ASSUME NEW n \in 1..c PROVE Oldest(P)[n] \in P /\ Rank(P, Oldest(P)[n]) = n
  <2>1. \E i \in P : Rank(P, i) = n
    BY <1>3 DEF Surjection
  <2>2. Oldest(P)[n] = CHOOSE i \in P : Rank(P, i) = n
    BY DEF Oldest, Rank
  <2>. QED BY <2>1, <2>2
<1>5. Oldest(P) \in Seq(P) /\ Len(Oldest(P)) = c
  <2>1. Oldest(P) \in [1..c -> P]
    <3>1. Oldest(P) = [n \in 1..c |-> Oldest(P)[n]]
      BY DEF Oldest
    <3>. HIDE DEF c
    <3>. QED BY <1>4, <3>1
  <2>. QED BY <1>1, <2>1
<1>6. ASSUME NEW i \in P PROVE Rank(P, i) \in 1..c /\ Oldest(P)[Rank(P, i)] = i
  BY <1>4, RankLemma
<1>7. ASSUME NEW m \in 1..c, NEW n \in 1..c, m < n PROVE Oldest(P)[m] < Oldest(P)[n]
  <2>1. /\ Oldest(P)[m] \in P /\ Oldest(P)[n] \in P
        /\ Rank(P, Oldest(P)[m]) = m /\ Rank(P, Oldest(P)[n]) = n
    BY <1>4
  <2>2. Oldest(P)[m] \in Nat /\ Oldest(P)[n] \in Nat
    BY <2>1, IdsAreFinite
  <2>3. ~ (Oldest(P)[n] < Oldest(P)[m]) /\ Oldest(P)[n] # Oldest(P)[m]
    BY <1>7, <2>1, RankLemma
  <2>. QED BY <2>2, <2>3
<1>. QED BY <1>4, <1>5, <1>6, <1>7

\* Newest lists it the other way round.
LEMMA NewestLemma ==
    ASSUME NEW P, P \subseteq Ids
    PROVE  /\ Newest(P) \in Seq(P) /\ Len(Newest(P)) = Cardinality(P)
           /\ \A m, n \in 1..Cardinality(P) : m < n => Newest(P)[m] > Newest(P)[n]
           /\ \A i \in P : \E n \in 1..Cardinality(P) : Newest(P)[n] = i
<1> DEFINE c == Cardinality(P)
           o == Oldest(P)
<1>1. c \in Nat /\ \A i \in P : i \in Nat
  BY IdsAreFinite
<1>2. /\ o \in Seq(P) /\ Len(o) = c
      /\ \A n \in 1..c : o[n] \in P
      /\ \A i \in P : \E n \in 1..c : o[n] = i
      /\ \A m, n \in 1..c : m < n => o[m] < o[n]
  BY OldestLemma
<1>3. Newest(P) = [n \in 1..c |-> o[c - n + 1]]
  BY <1>2 DEF Newest, Reverse
<1>. HIDE DEF c, o
<1>4. \A n \in 1..c : c - n + 1 \in 1..c /\ Newest(P)[n] = o[c - n + 1] /\ Newest(P)[n] \in P
  BY <1>1, <1>2, <1>3
<1>5. Newest(P) \in Seq(P) /\ Len(Newest(P)) = c
  <2>1. Newest(P) \in [1..c -> P]
    BY <1>3, <1>4
  <2>. QED BY <1>1, <2>1
<1>6. ASSUME NEW m \in 1..c, NEW n \in 1..c, m < n PROVE Newest(P)[m] > Newest(P)[n]
  <2>1. c - n + 1 \in 1..c /\ c - m + 1 \in 1..c /\ c - n + 1 < c - m + 1
    BY <1>1, <1>6
  <2>2. o[c - n + 1] < o[c - m + 1]
    BY <1>2, <2>1
  <2>. QED BY <1>1, <1>4, <2>2
<1>7. ASSUME NEW i \in P PROVE \E n \in 1..c : Newest(P)[n] = i
  <2>1. PICK n \in 1..c : o[n] = i
    BY <1>2
  <2>2. c - n + 1 \in 1..c /\ c - (c - n + 1) + 1 = n
    BY <1>1
  <2>. QED BY <1>4, <2>1, <2>2
<1>. QED BY <1>5, <1>6, <1>7 DEF c

\* Places up to a are places up to b, and what is beyond a among these is greater.
LEMMA Places ==
    ASSUME NEW a \in Nat, NEW b \in Nat, a <= b
    PROVE  /\ 1..a \subseteq 1..b
           /\ \A m \in 1..b : m \notin 1..a => a < m /\ a < b
           /\ \A m \in 1..b, k \in 1..a : a < m => k < m
<1>. QED OBVIOUS

LEMMA PrefixLemma ==
    ASSUME NEW S, NEW s \in Seq(S), NEW n \in Nat
    PROVE  /\ Prefix(s, n) \in Seq(S)
           /\ Len(s) < n => Len(Prefix(s, n)) = Len(s)
           /\ Len(s) >= n => Len(Prefix(s, n)) = n
           /\ Len(Prefix(s, n)) <= n /\ Len(Prefix(s, n)) <= Len(s)
           /\ \A k \in 1..Len(Prefix(s, n)) : Prefix(s, n)[k] = s[k]
<1> DEFINE l == IF Len(s) < n THEN Len(s) ELSE n
<1>1. l \in Nat /\ l <= n /\ l <= Len(s)
  OBVIOUS
<1>2. Prefix(s, n) = SubSeq(s, 1, l)
  BY DEF Prefix
<1>3. Len(SubSeq(s, 1, l)) = l /\ SubSeq(s, 1, l) \in Seq(S)
      /\ \A k \in 1..l : SubSeq(s, 1, l)[k] = s[k]
  <2>. HIDE DEF l
  <2>. QED BY <1>1
<1>. QED BY <1>1, <1>2, <1>3
-----------------------------------------------------------------------------
(* Lists without repetition in an order R, of all of a set but what comes  *)
(* after them.                                                             *)

InOrder(s, R) == \A m, n \in DOMAIN s : m < n => <<s[m], s[n]>> \in R

After(s, i, R) == \A j \in Range(s) : <<j, i>> \in R

\* A list in order, of what is wanted of S, remains so when it is cut.
LEMMA CutLemma ==
    ASSUME NEW R, NEW s \in Seq(Ids), NEW n \in Nat, InOrder(s, R), NEW S,
           \A i \in S \ Range(s) : Len(s) >= n /\ After(s, i, R)
    PROVE  /\ InOrder(Prefix(s, n), R)
           /\ \A i \in S \ Range(Prefix(s, n)) :
                  Len(Prefix(s, n)) = n /\ After(Prefix(s, n), i, R)
<1> DEFINE p == Prefix(s, n)
<1>1. p \in Seq(Ids) /\ \A k \in 1..Len(p) : p[k] = s[k]
  BY PrefixLemma
<1>2. /\ DOMAIN p = 1..Len(p) /\ DOMAIN s = 1..Len(s)
      /\ Len(p) \in Nat /\ Len(s) \in Nat /\ Len(p) <= Len(s)
      /\ Len(s) >= n => Len(p) = n
      /\ Len(p) < Len(s) => Len(p) = n
  <2>1. /\ Len(p) <= Len(s)
        /\ Len(s) < n => Len(p) = Len(s)
        /\ Len(s) >= n => Len(p) = n
    BY PrefixLemma
  <2>2. Len(p) \in Nat /\ Len(s) \in Nat
    BY <1>1
  <2>. HIDE DEF p
  <2>3. Len(p) < Len(s) => Len(p) = n
    BY <2>1, <2>2
  <2>. QED BY <1>1, <2>1, <2>2, <2>3
<1>. HIDE DEF p
<1>. DEFINE a == Len(p)
            b == Len(s)
<1>3. /\ DOMAIN p \subseteq DOMAIN s
      /\ \A m \in DOMAIN s : m \notin DOMAIN p => a < m /\ a < b
      /\ \A m \in DOMAIN s, k \in DOMAIN p : a < m => k < m
  <2>1. a \in Nat /\ b \in Nat /\ a <= b /\ DOMAIN p = 1..a /\ DOMAIN s = 1..b
    BY <1>2
  <2>. HIDE DEF a, b
  <2>. QED BY <2>1, Places
<1>4. \A k \in DOMAIN p : k \in DOMAIN s /\ p[k] = s[k]
  BY <1>1, <1>2, <1>3
<1>5. InOrder(p, R)
  BY <1>4 DEF InOrder
<1>6. ASSUME NEW i \in S \ Range(p) PROVE Len(p) = n /\ After(p, i, R)
  <2>1. CASE i \notin Range(s)
    <3>1. Len(s) >= n /\ After(s, i, R)
      BY <2>1, <1>6
    <3>2. Range(p) \subseteq Range(s)
      BY <1>4 DEF Range
    <3>3. Len(p) = n
      BY <1>1, <1>2, <3>1
    <3>. QED BY <3>1, <3>2, <3>3 DEF After
  <2>2. CASE i \in Range(s)
    <3>1. PICK m \in DOMAIN s : s[m] = i
      BY <2>2 DEF Range
    <3>2. m \notin DOMAIN p
      BY <1>4, <1>6, <3>1 DEF Range
    <3>3. Len(p) < m /\ Len(p) = n
      BY <1>2, <1>3, <3>1, <3>2
    <3>4. \A k \in DOMAIN p : k \in DOMAIN s /\ k < m /\ p[k] = s[k]
      BY <1>4, <1>3, <3>1, <3>3
    <3>5. After(p, i, R)
      BY <3>1, <3>4 DEF After, Range, InOrder
    <3>. QED BY <3>3, <3>5
  <2>. QED BY <2>1, <2>2
<1>. QED BY <1>5, <1>6 DEF p

LEMMA ConcatLemma ==
    ASSUME NEW R, NEW s \in Seq(Ids), NEW t \in Seq(Ids)
    PROVE  /\ s \o t \in Seq(Ids) /\ Len(s \o t) = Len(s) + Len(t)
           /\ Range(s \o t) = Range(s) \cup Range(t)
           /\ InOrder(s, R) /\ InOrder(t, R) /\ (\A a \in Range(s), b \in Range(t) : <<a, b>> \in R)
                  => InOrder(s \o t, R)
           /\ t # <<>> => Last(s \o t) = Last(t)
<1>1. /\ s \o t \in Seq(Ids) /\ Len(s \o t) = Len(s) + Len(t)
      /\ Len(s) \in Nat /\ Len(t) \in Nat
      /\ DOMAIN s = 1..Len(s) /\ DOMAIN t = 1..Len(t) /\ DOMAIN (s \o t) = 1..(Len(s) + Len(t))
  OBVIOUS
<1>2. /\ \A n \in 1..Len(s) : n \in DOMAIN (s \o t) /\ (s \o t)[n] = s[n]
      /\ \A n \in 1..Len(t) : Len(s) + n \in DOMAIN (s \o t) /\ (s \o t)[Len(s) + n] = t[n]
  BY <1>1
<1>3. ASSUME NEW n \in DOMAIN (s \o t)
      PROVE  \/ n \in DOMAIN s /\ (s \o t)[n] = s[n]
             \/ /\ n > Len(s) /\ n - Len(s) \in DOMAIN t
                /\ (s \o t)[n] = t[n - Len(s)]
  <2>1. n \in 1..(Len(s) + Len(t))
    BY <1>1
  <2>. QED BY <1>1, <2>1
<1>4. Range(s \o t) = Range(s) \cup Range(t)
  <2>1. ASSUME NEW x \in Range(s \o t) PROVE x \in Range(s) \cup Range(t)
    BY <1>3 DEF Range
  <2>2. ASSUME NEW x \in Range(s) PROVE x \in Range(s \o t)
    BY <1>1, <1>2 DEF Range
  <2>3. ASSUME NEW x \in Range(t) PROVE x \in Range(s \o t)
    BY <1>1, <1>2 DEF Range
  <2>. QED BY <2>1, <2>2, <2>3
<1>5. ASSUME InOrder(s, R), InOrder(t, R), \A a \in Range(s), b \in Range(t) : <<a, b>> \in R,
             NEW m \in DOMAIN (s \o t), NEW n \in DOMAIN (s \o t), m < n
      PROVE  <<(s \o t)[m], (s \o t)[n]>> \in R
  <2>1. CASE n \in DOMAIN s /\ (s \o t)[n] = s[n]
    <3>1. m \in DOMAIN s /\ (s \o t)[m] = s[m]
      BY <1>1, <1>3, <1>5, <2>1
    <3>. QED BY <1>5, <2>1, <3>1 DEF InOrder
  <2>2. CASE n > Len(s) /\ n - Len(s) \in DOMAIN t /\ (s \o t)[n] = t[n - Len(s)]
    <3>1. CASE m \in DOMAIN s /\ (s \o t)[m] = s[m]
      BY <1>5, <2>2, <3>1 DEF Range
    <3>2. CASE m > Len(s) /\ m - Len(s) \in DOMAIN t /\ (s \o t)[m] = t[m - Len(s)]
      <4>1. m - Len(s) < n - Len(s)
        BY <1>1, <1>5
      <4>. QED BY <1>5, <2>2, <3>2, <4>1 DEF InOrder
    <3>. QED BY <1>3, <3>1, <3>2
  <2>. QED BY <1>3, <2>1, <2>2
<1>6. ASSUME t # <<>> PROVE Last(s \o t) = Last(t)
  <2>1. Len(t) \in 1..Len(t)
    BY <1>1, <1>6
  <2>. QED BY <1>1, <1>2, <2>1 DEF Last
<1>. QED BY <1>1, <1>4, <1>5, <1>6 DEF InOrder
-----------------------------------------------------------------------------
(* The reads.                                                              *)

Ascending  == {p \in Ids \X Ids : p[1] < p[2]}
Descending == {p \in Ids \X Ids : p[1] > p[2]}

LEMMA OrderLemma ==
    /\ \A i, j : <<i, j>> \in Ascending <=> i \in Ids /\ j \in Ids /\ i < j
    /\ \A i, j : <<i, j>> \in Descending <=> i \in Ids /\ j \in Ids /\ i > j
<1>. QED BY DEF Ascending, Descending

ExactIn(q, R) ==
    /\ InOrder(items[q], R)
    /\ \A i \in kept[q] \ Range(items[q]) :
          Len(items[q]) = maxResults[q] /\ After(items[q], i, R)

LEMMA ExactLemma ==
    ASSUME NEW q
    PROVE  /\ ExactIn(q, Ascending) => Exact(q, <)
           /\ ExactIn(q, Descending) => Exact(q, >)
<1>1. ASSUME ExactIn(q, Ascending) PROVE Exact(q, <)
  BY <1>1, OrderLemma DEF ExactIn, Exact, InOrder, After
<1>2. ASSUME ExactIn(q, Descending) PROVE Exact(q, >)
  BY <1>2, OrderLemma DEF ExactIn, Exact, InOrder, After
<1>. QED BY <1>1, <1>2

\* The state of a read: its list is of objects, and no longer than it was asked for.
ReadShape(q) ==
    /\ phase[q] \in {"idle", "waiting", "returned", "raised"}
    /\ items[q] \in Seq(Ids) /\ maxResults[q] \in Nat /\ cursor[q] \in Nat
    /\ phase[q] = "idle" => items[q] = <<>> /\ cursor[q] = NoCursor
    /\ phase[q] = "waiting" => Len(items[q]) < maxResults[q]
    /\ phase[q] # "waiting" => Len(items[q]) <= maxResults[q]
    /\ kept[q] \subseteq Ids /\ disturbed[q] \in BOOLEAN
    /\ phase[q] = "waiting" => kept[q] \subseteq present

\* A read of subscriptions has reached the cursor: what it still has to find is older.
ListInv(q) ==
    /\ phase[q] = "waiting" =>
          /\ InOrder(items[q], Descending)
          /\ \A j \in Range(items[q]) : cursor[q] # NoCursor /\ cursor[q] <= j
          /\ \A i \in kept[q] \ Range(items[q]) : cursor[q] # NoCursor => i < cursor[q]
    /\ phase[q] = "returned" => ExactIn(q, Descending)

\* A read of deals that is not disturbed has the oldest of those that match now, as many
\* as its cursor says.
DealInv(q) ==
    /\ phase[q] = "waiting" =>
          /\ cursor[q] = Len(items[q]) /\ InOrder(items[q], Ascending)
          /\ Range(items[q]) \subseteq present
          /\ \A i \in present : \A j \in Range(items[q]) : i <= j => i \in Range(items[q])
    /\ phase[q] = "returned" => ExactIn(q, Ascending)

ReadInv(q) ==
    /\ ReadShape(q)
    /\ method[q] = "list_subscriptions" => ListInv(q)
    /\ method[q] = "search_deals" /\ ~ disturbed[q] => DealInv(q)

ReadsInv ==
    /\ present \subseteq Ids /\ changes \in 0..MaxChanges
    /\ method \in [Reads -> {"search_deals", "list_subscriptions"}]
    /\ DOMAIN phase = Reads /\ DOMAIN maxResults = Reads /\ DOMAIN items = Reads
    /\ DOMAIN cursor = Reads /\ DOMAIN kept = Reads /\ DOMAIN disturbed = Reads
    /\ \A q \in Reads : ReadInv(q)

\* What a step of one read, and a change of the list, leaves of another.
LEMMA ReadStays ==
    ASSUME NEW q, ReadInv(q), UNCHANGED <<present, method>>,
           phase'[q] = phase[q], items'[q] = items[q], maxResults'[q] = maxResults[q],
           cursor'[q] = cursor[q], kept'[q] = kept[q], disturbed'[q] = disturbed[q]
    PROVE  ReadInv(q)'
<1>1. ReadShape(q)'
  BY DEF ReadInv, ReadShape
<1>2. method[q] = "list_subscriptions" => ListInv(q)'
  BY DEF ReadInv, ListInv, ExactIn, InOrder, After
<1>3. method[q] = "search_deals" /\ ~ disturbed[q] => DealInv(q)'
  BY DEF ReadInv, DealInv, ExactIn, InOrder, After
<1>. QED BY <1>1, <1>2, <1>3 DEF ReadInv

\* A change of the list disturbs a read, or is ahead of what the read has.
LEMMA ChangeKeepsReads ==
    ASSUME ReadsInv, NEW i \in Ids, Enter(i) \/ Leave(i)
    PROVE  ReadsInv'
<1>1. UNCHANGED <<phase, method, maxResults, items, cursor>>
  BY DEF Enter, Leave, read
<1>2. present' \subseteq Ids /\ changes' \in 0..MaxChanges
  <2>1. present' \subseteq Ids
    BY DEF Enter, Leave, ReadsInv
  <2>2. changes < MaxChanges /\ changes' = changes + 1
    BY DEF Enter, Leave
  <2>3. changes \in 0..MaxChanges
    BY DEF ReadsInv
  <2>. QED BY <2>1, <2>2, <2>3, ReadsAssumption
<1>3. /\ DOMAIN kept' = Reads /\ DOMAIN disturbed' = Reads
      /\ \A q \in Reads : /\ kept'[q] \subseteq kept[q]
                          /\ phase[q] # "waiting" => kept'[q] = kept[q]
                          /\ phase[q] = "waiting" =>
                                (kept[q] \subseteq present => kept'[q] \subseteq present')
  BY DEF Enter, Leave, ReadsInv
<1>4. \A q \in Reads :
          /\ disturbed'[q] \in BOOLEAN
          /\ ~ disturbed'[q] => /\ ~ disturbed[q]
                                /\ phase[q] = "waiting" => \A j \in Range(items[q]) : ~ (i <= j)
  BY DEF Enter, Leave, ReadsInv, ReadInv, ReadShape
<1>5. \A k : k # i => (k \in present' <=> k \in present)
  BY DEF Enter, Leave
<1>6. ASSUME NEW q \in Reads PROVE ReadInv(q)'
  <2>1. ReadInv(q)
    BY DEF ReadsInv
  <2>2. ReadShape(q)'
    BY <1>1, <1>3, <1>4, <2>1 DEF ReadInv, ReadShape
  <2>3. ASSUME method[q] = "list_subscriptions" PROVE ListInv(q)'
    <3>1. ListInv(q)
      BY <2>1, <2>3 DEF ReadInv
    <3>. QED BY <1>1, <1>3, <3>1 DEF ListInv, ExactIn, InOrder, After
  <2>4. ASSUME method[q] = "search_deals", ~ disturbed'[q] PROVE DealInv(q)'
    <3>1. DealInv(q)
      BY <1>4, <2>1, <2>4 DEF ReadInv
    <3>2. ASSUME phase[q] = "waiting"
          PROVE  /\ Range(items[q]) \subseteq present'
                 /\ \A k \in present' : \A j \in Range(items[q]) :
                        k <= j => k \in Range(items[q])
      <4>1. \A j \in Range(items[q]) : ~ (i <= j)
        BY <1>4, <2>4, <3>2
      <4>2. i \in Nat /\ Range(items[q]) \subseteq present /\ present \subseteq Nat
        BY <3>1, <3>2, ReadsAssumption DEF DealInv, ReadsInv
      <4>3. i \notin Range(items[q])
        BY <4>1, <4>2
      <4>. QED BY <1>5, <3>1, <3>2, <4>1, <4>2, <4>3 DEF DealInv
    <3>3. phase[q] = "returned" => ExactIn(q, Ascending)'
      BY <1>1, <1>3, <3>1 DEF DealInv, ExactIn, InOrder, After
    <3>. QED BY <1>1, <3>1, <3>2, <3>3 DEF DealInv, InOrder
  <2>. QED BY <1>1, <2>2, <2>3, <2>4 DEF ReadInv
<1>. QED BY <1>1, <1>2, <1>3, <1>6 DEF ReadsInv

LEMMA CallKeepsReads ==
    ASSUME ReadsInv, NEW q \in Reads, NEW n \in Wanted, Call(q, n)
    PROVE  ReadsInv'
<1>1. /\ phase[q] = "idle" /\ n \in Nat
      /\ maxResults' = [maxResults EXCEPT ![q] = n]
      /\ phase' = [phase EXCEPT ![q] = IF n = 0 THEN "returned" ELSE "waiting"]
      /\ kept' = [kept EXCEPT ![q] = present]
      /\ UNCHANGED <<present, changes, method, items, cursor, disturbed>>
  BY ReadsAssumption DEF Call
<1>2. /\ maxResults'[q] = n /\ kept'[q] = present
      /\ phase'[q] = IF n = 0 THEN "returned" ELSE "waiting"
      /\ \A r \in Reads : r # q => /\ maxResults'[r] = maxResults[r]
                                   /\ phase'[r] = phase[r] /\ kept'[r] = kept[r]
  BY <1>1 DEF ReadsInv
<1>3. ReadShape(q) /\ items'[q] = <<>> /\ cursor'[q] = NoCursor /\ items[q] = <<>>
  BY <1>1 DEF ReadsInv, ReadInv, ReadShape
<1>4. Range(<<>>) = {} /\ Len(<<>>) = 0 /\ DOMAIN <<>> = {}
  BY DEF Range
<1>5. ReadShape(q)'
  BY <1>1, <1>2, <1>3, <1>4 DEF ReadShape, ReadsInv
<1>6. ListInv(q)' /\ DealInv(q)'
  <2>1. \A R : InOrder(<<>>, R)
    BY <1>4 DEF InOrder
  <2>2. n = 0 => ExactIn(q, Descending)' /\ ExactIn(q, Ascending)'
    BY <1>2, <1>3, <1>4, <2>1 DEF ExactIn, After
  <2>. QED BY <1>2, <1>3, <1>4, <2>1, <2>2 DEF ListInv, DealInv, NoCursor
<1>7. \A r \in Reads : r # q => ReadInv(r)'
  BY <1>1, <1>2, ReadStays DEF ReadsInv
<1>8. ReadInv(q)'
  BY <1>5, <1>6 DEF ReadInv
<1>. QED BY <1>1, <1>7, <1>8 DEF ReadsInv

LEMMA RaiseKeepsReads ==
    ASSUME ReadsInv, NEW q \in Reads, ReadRaises(q)
    PROVE  ReadsInv'
<1>1. /\ phase' = [phase EXCEPT ![q] = "raised"]
      /\ items' = [items EXCEPT ![q] = <<>>]
      /\ UNCHANGED <<present, changes, method, maxResults, cursor, kept, disturbed>>
  BY DEF ReadRaises
<1>2. /\ phase'[q] = "raised" /\ items'[q] = <<>>
      /\ \A r \in Reads : r # q => phase'[r] = phase[r] /\ items'[r] = items[r]
  BY <1>1 DEF ReadsInv
<1>3. <<>> \in Seq(Ids) /\ Len(<<>>) = 0
  OBVIOUS
<1>4. ReadInv(q)'
  BY <1>1, <1>2, <1>3 DEF ReadsInv, ReadInv, ReadShape, ListInv, DealInv
<1>5. \A r \in Reads : r # q => ReadInv(r)'
  BY <1>1, <1>2, ReadStays DEF ReadsInv
<1>. QED BY <1>1, <1>4, <1>5 DEF ReadsInv
-----------------------------------------------------------------------------
(* A page.                                                                 *)

LEMMA TakePageLemma ==
    ASSUME ReadsInv, NEW q \in Reads, phase[q] = "waiting",
           NEW page \in Seq(Ids), NEW next \in Nat, TakePage(q, page, next),
           UNCHANGED <<present, changes, method, maxResults, kept, disturbed>>
    PROVE  /\ DOMAIN phase' = Reads /\ DOMAIN items' = Reads /\ DOMAIN cursor' = Reads
           /\ \A r \in Reads : r # q => /\ phase'[r] = phase[r] /\ items'[r] = items[r]
                                        /\ cursor'[r] = cursor[r]
           /\ cursor'[q] = next
           /\ \/ /\ phase'[q] = "waiting" /\ items'[q] = items[q] \o page /\ next # NoCursor
              \/ /\ phase'[q] = "returned"
                 /\ items'[q] = Prefix(items[q] \o page, maxResults[q])
                 /\ next = NoCursor \/ Len(items[q] \o page) >= maxResults[q]
           /\ ReadShape(q)'
<1> DEFINE all == items[q] \o page
           over == next = NoCursor \/ Len(all) >= maxResults[q]
<1>1. /\ items' = [items EXCEPT ![q] = IF over THEN Prefix(all, maxResults[q]) ELSE all]
      /\ cursor' = [cursor EXCEPT ![q] = next]
      /\ phase' = [phase EXCEPT ![q] = IF over THEN "returned" ELSE @]
  BY DEF TakePage
<1>2. ReadShape(q) /\ all \in Seq(Ids) /\ Len(all) \in Nat
  BY DEF ReadsInv, ReadInv, ReadShape
<1>3. maxResults[q] \in Nat
  BY <1>2 DEF ReadShape
<1>. HIDE DEF all
<1>4. /\ DOMAIN phase' = Reads /\ DOMAIN items' = Reads /\ DOMAIN cursor' = Reads
      /\ \A r \in Reads : r # q => /\ phase'[r] = phase[r] /\ items'[r] = items[r]
                                   /\ cursor'[r] = cursor[r]
      /\ cursor'[q] = next
      /\ phase'[q] = IF over THEN "returned" ELSE "waiting"
      /\ items'[q] = IF over THEN Prefix(all, maxResults[q]) ELSE all
  BY <1>1 DEF ReadsInv
<1>5. ReadShape(q)'
  <2>1. items'[q] \in Seq(Ids) /\ Len(items'[q]) <= maxResults[q]
        /\ (~ over => Len(items'[q]) < maxResults[q])
    <3>1. CASE over
      BY <1>2, <1>3, <1>4, <3>1, PrefixLemma
    <3>2. CASE ~ over
      BY <1>2, <1>3, <1>4, <3>2
    <3>. QED BY <3>1, <3>2
  <2>2. phase'[q] \in {"waiting", "returned"} /\ (phase'[q] = "waiting" => ~ over)
    BY <1>4
  <2>3. kept'[q] = kept[q] /\ disturbed'[q] = disturbed[q] /\ maxResults'[q] = maxResults[q]
        /\ present' = present
    OBVIOUS
  <2>. HIDE DEF over
  <2>. QED BY <1>2, <1>4, <2>1, <2>2, <2>3 DEF ReadShape
<1>6. \/ phase'[q] = "waiting" /\ items'[q] = all /\ next # NoCursor
      \/ /\ phase'[q] = "returned" /\ items'[q] = Prefix(all, maxResults[q])
         /\ next = NoCursor \/ Len(all) >= maxResults[q]
  BY <1>4
<1>. QED BY <1>4, <1>5, <1>6 DEF all

\* A read that has all, in order, but what comes after is exact when it returns.
LEMMA ReturnsExact ==
    ASSUME ReadsInv, NEW q \in Reads, NEW page \in Seq(Ids), NEW next, NEW R,
           UNCHANGED <<maxResults, kept>>,
           items'[q] = Prefix(items[q] \o page, maxResults[q]),
           next = NoCursor \/ Len(items[q] \o page) >= maxResults[q],
           InOrder(items[q] \o page, R),
           \A i \in kept[q] \ Range(items[q] \o page) :
               next # NoCursor /\ After(items[q] \o page, i, R)
    PROVE  ExactIn(q, R)'
<1>1. PICK all : all = items[q] \o page
  OBVIOUS
<1>2. all \in Seq(Ids) /\ maxResults[q] \in Nat
  BY <1>1 DEF ReadsInv, ReadInv, ReadShape
<1>3. \A i \in kept[q] \ Range(all) : Len(all) >= maxResults[q] /\ After(all, i, R)
  BY <1>1
<1>4. InOrder(all, R) /\ items'[q] = Prefix(all, maxResults[q])
  BY <1>1
<1>5. /\ InOrder(items'[q], R)
      /\ \A i \in kept[q] \ Range(items'[q]) :
             Len(items'[q]) = maxResults[q] /\ After(items'[q], i, R)
  BY <1>2, <1>3, <1>4, CutLemma
<1>. QED BY <1>5 DEF ExactIn, InOrder, After

LEMMA LimitLemma ==
    ASSUME ReadsInv, NEW q \in Reads, phase[q] = "waiting"
    PROVE  Limit(q) \in Nat /\ Limit(q) > 0
<1>1. items[q] \in Seq(Ids) /\ Len(items[q]) < maxResults[q] /\ maxResults[q] \in Nat
  BY DEF ReadsInv, ReadInv, ReadShape
<1>2. Len(items[q]) \in Nat
  BY <1>1
<1>. QED BY <1>1, <1>2, ReadsAssumption DEF Limit

\* A page of subscriptions: the newest of those older than the cursor.
LEMMA SubscriptionPageLemma ==
    ASSUME ReadsInv, NEW q \in Reads, phase[q] = "waiting"
    PROVE  /\ SubscriptionPage(q) \in Seq(Ids)
           /\ InOrder(SubscriptionPage(q), Descending)
           /\ Range(SubscriptionPage(q)) \subseteq Older(q)
           /\ \A i \in Older(q) \ Range(SubscriptionPage(q)) :
                 /\ HasMore(q) /\ SubscriptionPage(q) # <<>>
                 /\ After(SubscriptionPage(q), i, Descending)
<1>1. PICK P : P = Older(q)
  OBVIOUS
<1>2. P \subseteq Ids
  BY <1>1 DEF Older, ReadsInv
<1>3. PICK all : all = Newest(P)
  OBVIOUS
<1>4. PICK n : n = Limit(q)
  OBVIOUS
<1>5. n \in Nat /\ n > 0 /\ SubscriptionPage(q) = Prefix(all, n)
  BY <1>1, <1>3, <1>4, LimitLemma DEF SubscriptionPage
<1>6. /\ all \in Seq(P) /\ Len(all) = Cardinality(P) /\ Cardinality(P) \in Nat
      /\ DOMAIN all = 1..Cardinality(P)
      /\ \A i, k \in 1..Cardinality(P) : i < k => all[i] > all[k]
      /\ \A i \in P : \E k \in 1..Cardinality(P) : all[k] = i
  BY <1>2, <1>3, NewestLemma, IdsAreFinite
<1>7. all \in Seq(Ids) /\ P \subseteq Range(all) /\ InOrder(all, Descending)
  <2>1. \A k \in DOMAIN all : all[k] \in P
    BY <1>6
  <2>. QED BY <1>2, <1>6, <2>1, OrderLemma DEF Range, InOrder
<1>8. /\ InOrder(Prefix(all, n), Descending)
      /\ \A i \in P \ Range(Prefix(all, n)) :
             Len(Prefix(all, n)) = n /\ After(Prefix(all, n), i, Descending)
  BY <1>5, <1>7, CutLemma
<1>9. Prefix(all, n) \in Seq(Ids) /\ Prefix(all, n) \in Seq(P)
  BY <1>5, <1>6, <1>7, PrefixLemma
<1>10. Range(Prefix(all, n)) \subseteq P
  BY <1>9 DEF Range
<1>11. ASSUME NEW i \in P \ Range(Prefix(all, n)) PROVE HasMore(q) /\ Prefix(all, n) # <<>>
  <2>1. Len(Prefix(all, n)) = n /\ Len(<<>>) = 0
    BY <1>8
  <2>2. ~ (Cardinality(P) <= n)
    <3>1. ASSUME Cardinality(P) <= n PROVE FALSE
      <4>1. Len(Prefix(all, n)) <= Len(all)
        BY <1>5, <1>7, PrefixLemma
      <4>2. n = Cardinality(P)
        BY <1>5, <1>6, <2>1, <3>1, <4>1
      <4>3. PICK k \in 1..Cardinality(P) : all[k] = i
        BY <1>6
      <4>4. k \in 1..Len(Prefix(all, n)) /\ k \in DOMAIN Prefix(all, n)
        BY <1>9, <2>1, <4>2
      <4>5. Prefix(all, n)[k] = i
        BY <1>5, <1>7, <4>3, <4>4, PrefixLemma
      <4>. QED BY <1>11, <4>4, <4>5 DEF Range
    <3>. QED BY <3>1
  <2>3. HasMore(q)
    BY <1>1, <1>4, <1>5, <1>6, <2>2 DEF HasMore
  <2>. QED BY <1>5, <2>1, <2>3
<1>. QED BY <1>1, <1>5, <1>8, <1>9, <1>10, <1>11

LEMMA ListKeepsReads ==
    ASSUME ReadsInv, NEW q \in Reads, ListPage(q)
    PROVE  ReadsInv'
<1>0. \A i \in Ids : i \in Nat /\ i > 0
  BY IdsAreFinite
<1>1. PICK page : page = SubscriptionPage(q)
  OBVIOUS
<1>2. PICK next : next = IF HasMore(q) /\ page # <<>> THEN Last(page) ELSE NoCursor
  OBVIOUS
<1>3. /\ phase[q] = "waiting" /\ method[q] = "list_subscriptions"
      /\ TakePage(q, page, next)
      /\ UNCHANGED <<present, changes, method, maxResults, kept, disturbed>>
  BY <1>1, <1>2 DEF ListPage
<1>4. /\ page \in Seq(Ids) /\ InOrder(page, Descending) /\ Range(page) \subseteq Older(q)
      /\ \A i \in Older(q) \ Range(page) :
            HasMore(q) /\ page # <<>> /\ After(page, i, Descending)
  BY <1>1, <1>3, SubscriptionPageLemma
<1>5. next \in Nat
  <2>1. CASE HasMore(q) /\ page # <<>>
    <3>1. Len(page) \in DOMAIN page /\ next = page[Len(page)]
      BY <1>2, <1>4, <2>1 DEF Last
    <3>2. page[Len(page)] \in Ids
      BY <1>4, <3>1
    <3>. QED BY <1>0, <3>1, <3>2
  <2>2. CASE ~ (HasMore(q) /\ page # <<>>)
    BY <1>2, <2>2 DEF NoCursor
  <2>. QED BY <2>1, <2>2
<1>6. /\ DOMAIN phase' = Reads /\ DOMAIN items' = Reads /\ DOMAIN cursor' = Reads
      /\ \A r \in Reads : r # q => /\ phase'[r] = phase[r] /\ items'[r] = items[r]
                                   /\ cursor'[r] = cursor[r]
      /\ cursor'[q] = next
      /\ \/ /\ phase'[q] = "waiting" /\ items'[q] = items[q] \o page /\ next # NoCursor
         \/ /\ phase'[q] = "returned" /\ items'[q] = Prefix(items[q] \o page, maxResults[q])
            /\ next = NoCursor \/ Len(items[q] \o page) >= maxResults[q]
      /\ ReadShape(q)'
  BY <1>3, <1>4, <1>5, TakePageLemma
<1>7. ReadInv(q) /\ ListInv(q) /\ ReadShape(q)
  BY <1>3 DEF ReadsInv, ReadInv
<1>8. /\ items[q] \in Seq(Ids) /\ InOrder(items[q], Descending)
      /\ cursor[q] \in Nat /\ kept[q] \subseteq present /\ present \subseteq Ids
      /\ \A j \in Range(items[q]) : cursor[q] # NoCursor /\ cursor[q] <= j
      /\ \A i \in kept[q] \ Range(items[q]) : cursor[q] # NoCursor => i < cursor[q]
  BY <1>3, <1>7 DEF ReadShape, ListInv, ReadsInv
<1>9. Range(items[q]) \subseteq Ids
  BY <1>8 DEF Range
<1>10. \A j \in Range(items[q]), i \in Older(q) : <<j, i>> \in Descending
  <2> SUFFICES ASSUME NEW j \in Range(items[q]), NEW i \in Older(q)
               PROVE  <<j, i>> \in Descending
    OBVIOUS
  <2>1. cursor[q] # NoCursor /\ cursor[q] <= j
    BY <1>8
  <2>2. i \in present /\ i < cursor[q]
    BY <2>1 DEF Older
  <2>3. i \in Ids /\ j \in Ids
    BY <1>8, <1>9, <2>2
  <2>4. i < j
    BY <1>0, <1>8, <2>1, <2>2, <2>3
  <2>5. j > i
    BY <1>0, <2>3, <2>4
  <2>. QED BY <2>3, <2>5, OrderLemma
<1>11. PICK all : all = items[q] \o page
  OBVIOUS
<1>12. /\ InOrder(all, Descending) /\ Range(all) = Range(items[q]) \cup Range(page)
       /\ page # <<>> => Last(all) = Last(page)
  BY <1>4, <1>8, <1>10, <1>11, ConcatLemma
<1>13. ASSUME NEW i \in kept[q] \ Range(all)
       PROVE  /\ i \in Older(q) /\ HasMore(q) /\ page # <<>>
              /\ After(page, i, Descending) /\ After(all, i, Descending)
  <2>1. i \in Older(q)
    BY <1>8, <1>12, <1>13 DEF Older
  <2>2. i \notin Range(page)
    BY <1>12, <1>13
  <2>3. HasMore(q) /\ page # <<>> /\ After(page, i, Descending)
    BY <1>4, <2>1, <2>2
  <2>. QED BY <1>10, <1>12, <2>1, <2>3 DEF After
<1>14. (Len(page) \in 1..Len(page) /\ Len(page) \in DOMAIN page) \/ page = <<>>
  BY <1>4
<1>15. page # <<>> => Last(page) \in Range(page) /\ Last(page) \in Ids /\ Last(page) > 0
  <2>1. page # <<>> => Last(page) \in Range(page)
    BY <1>14 DEF Last, Range
  <2>2. Range(page) \subseteq Ids
    BY <1>4 DEF Range
  <2>3. page # <<>> => Last(page) \in Ids
    BY <2>1, <2>2
  <2>. QED BY <1>0, <2>1, <2>3
<1>16. \A i \in kept[q] \ Range(all) : next # NoCursor /\ After(all, i, Descending)
  BY <1>2, <1>13, <1>15 DEF NoCursor
<1>17. ASSUME phase'[q] = "returned" PROVE ExactIn(q, Descending)'
  BY <1>3, <1>4, <1>6, <1>11, <1>12, <1>16, <1>17, ReturnsExact
<1>18. ASSUME phase'[q] = "waiting"
       PROVE  /\ InOrder(items'[q], Descending)
              /\ \A j \in Range(items'[q]) : cursor'[q] # NoCursor /\ cursor'[q] <= j
              /\ \A i \in kept'[q] \ Range(items'[q]) : cursor'[q] # NoCursor => i < cursor'[q]
  <2>1. items'[q] = all /\ cursor'[q] = next /\ next # NoCursor /\ kept'[q] = kept[q]
    BY <1>3, <1>6, <1>11, <1>18
  <2>2. page # <<>> /\ next = Last(page)
    BY <1>2, <2>1
  <2>3. \A j \in Range(page) : Last(page) <= j
    <3>1. ASSUME NEW k \in DOMAIN page PROVE Last(page) <= page[k]
      <4>1. k \in 1..Len(page) /\ Len(page) \in DOMAIN page
        BY <1>4, <1>14, <2>2
      <4>2. CASE k = Len(page)
        <5>1. Last(page) = page[k] /\ Last(page) \in Nat
          BY <1>0, <1>15, <2>2, <4>2 DEF Last
        <5>. QED BY <5>1
      <4>3. CASE k < Len(page)
        <5>1. <<page[k], page[Len(page)]>> \in Descending
          BY <1>4, <4>1, <4>3 DEF InOrder
        <5>2. page[k] > Last(page) /\ page[k] \in Nat /\ Last(page) \in Nat
          BY <5>1, OrderLemma, ReadsAssumption DEF Last
        <5>. QED BY <5>2
      <4>. QED BY <4>1, <4>2, <4>3
    <3>. QED BY <3>1 DEF Range
  <2>4. \A j \in Range(items[q]) : Last(page) <= j
    <3>1. Last(page) \in Older(q)
      BY <1>4, <1>15, <2>2
    <3>2. \A j \in Range(items[q]) : j \in Ids /\ Last(page) \in Ids /\ j > Last(page)
      BY <1>10, <3>1, OrderLemma
    <3>. QED BY <1>0, <3>2
  <2>5. \A i \in kept[q] \ Range(all) : i < Last(page)
    <3>1. \A i \in kept[q] \ Range(all) : <<Last(page), i>> \in Descending
      BY <1>13, <1>15, <2>2 DEF After
    <3>. QED BY <3>1, OrderLemma, ReadsAssumption
  <2>. QED BY <1>12, <2>1, <2>2, <2>3, <2>4, <2>5
<1>19. ListInv(q)'
  BY <1>17, <1>18 DEF ListInv
<1>20. ReadInv(q)'
  BY <1>3, <1>6, <1>19 DEF ReadInv
<1>21. \A r \in Reads : r # q => ReadInv(r)'
  BY <1>3, <1>6, ReadStays DEF ReadsInv
<1>. QED BY <1>3, <1>6, <1>20, <1>21 DEF ReadsInv

\* A list that is the oldest part of P has the ranks up to its length.
LEMMA OldestPart ==
    ASSUME NEW P, P \subseteq Ids, NEW s \in Seq(Ids), InOrder(s, Ascending),
           Range(s) \subseteq P,
           \A i \in P : \A j \in Range(s) : i <= j => i \in Range(s)
    PROVE  /\ Len(s) \in 0..Cardinality(P)
           /\ \A i \in P : i \in Range(s) <=> Rank(P, i) <= Len(s)
<1> DEFINE c == Len(s)
           T == Range(s)
<1>1. IsFiniteSet(P) /\ Cardinality(P) \in Nat /\ \A i \in P : i \in Nat
  BY IdsAreFinite
<1>2. c \in Nat /\ DOMAIN s = 1..c
  OBVIOUS
<1>3. s \in Injection(1..c, T) /\ s \in Surjection(1..c, T)
  <2>1. s \in [1..c -> T]
    BY <1>2 DEF Range
  <2>2. \A m, n \in 1..c : m < n => s[m] # s[n]
    <3>1. \A m, n \in 1..c : m < n => s[m] < s[n] /\ s[m] \in Ids /\ s[n] \in Ids
      BY <1>2, OrderLemma DEF InOrder
    <3>2. \A i, j \in Ids : i < j => i # j
      BY IdsAreFinite
    <3>. QED BY <3>1, <3>2
  <2>3. \A m, n \in 1..c : m # n => s[m] # s[n]
    <3>1. \A m, n \in 1..c : m # n => m < n \/ n < m
      BY <1>2
    <3>. QED BY <2>2, <3>1
  <2>4. \A x \in T : \E m \in 1..c : s[m] = x
    BY <1>2 DEF Range
  <2>. HIDE DEF T, c
  <2>. QED BY <2>1, <2>3, <2>4 DEF Injection, Surjection, IsInjective
<1>4. IsFiniteSet(T) /\ Cardinality(T) = c
  <2>. HIDE DEF T, c
  <2>1. IsFiniteSet(1..c) /\ Cardinality(1..c) = c
    BY <1>2, FS_Interval
  <2>. QED BY <1>3, <2>1, FS_Surjection
<1>5. c <= Cardinality(P)
  <2>. HIDE DEF T, c
  <2>. QED BY <1>1, <1>4, FS_Subset DEF T
<1>6. ASSUME NEW i \in T PROVE Rank(P, i) <= c
  <2>1. {j \in P : j <= i} \in SUBSET T
    BY <1>6
  <2>. HIDE DEF T, c
  <2>. QED BY <1>4, <2>1, FS_Subset DEF Rank
<1>7. ASSUME NEW i \in P, i \notin T PROVE ~ (Rank(P, i) <= c)
  <2> DEFINE B == {j \in P : j <= i}
  <2>1. \A j \in T : j \in P /\ ~ (i <= j)
    BY <1>7
  <2>2. T \cup {i} \in SUBSET B
    BY <1>1, <1>7, <2>1
  <2>3. B \in SUBSET P /\ Rank(P, i) = Cardinality(B)
    BY DEF Rank
  <2>. HIDE DEF T, B, c
  <2>4. IsFiniteSet(B) /\ Cardinality(B) \in Nat
    BY <1>1, <2>3, FS_Subset, FS_CardinalityType
  <2>5. Cardinality(T \cup {i}) = c + 1
    BY <1>4, <1>7, FS_AddElement
  <2>6. Cardinality(T \cup {i}) <= Cardinality(B)
    BY <2>2, <2>4, FS_Subset
  <2>. QED BY <1>2, <2>3, <2>4, <2>5, <2>6
<1>. QED BY <1>1, <1>2, <1>5, <1>6, <1>7

\* The rest of a list from a place on.
LEMMA RestLemma ==
    ASSUME NEW S, NEW s \in Seq(S), NEW c \in Nat
    PROVE  /\ SubSeq(s, c + 1, Len(s)) \in Seq(S)
           /\ Len(SubSeq(s, c + 1, Len(s))) = (IF c <= Len(s) THEN Len(s) - c ELSE 0)
           /\ \A k \in 1..Len(SubSeq(s, c + 1, Len(s))) :
                 SubSeq(s, c + 1, Len(s))[k] = s[c + k]
<1>. QED OBVIOUS

\* A page of deals is a list of objects, and its cursor a position, whatever has changed.
LEMMA DealPageType ==
    ASSUME ReadsInv, NEW q \in Reads, phase[q] = "waiting"
    PROVE  DealPage(q) \in Seq(Ids) /\ DealCursor(q) \in Nat
<1>1. present \subseteq Ids /\ cursor[q] \in Nat
  BY DEF ReadsInv, ReadInv, ReadShape
<1>2. Oldest(present) \in Seq(present) /\ Len(Oldest(present)) = Cardinality(present)
  BY <1>1, OldestLemma
<1>3. Oldest(present) \in Seq(Ids)
  BY <1>1, <1>2
<1>4. SubSeq(Oldest(present), cursor[q] + 1, Cardinality(present)) \in Seq(Ids)
  BY <1>1, <1>2, <1>3, RestLemma
<1>5. DealPage(q) \in Seq(Ids)
  BY <1>4, LimitLemma, PrefixLemma DEF DealPage
<1>6. Len(DealPage(q)) \in Nat
  BY <1>5
<1>. QED BY <1>1, <1>5, <1>6 DEF DealCursor, NoCursor

\* A page of deals, for a read that has the oldest part: the next of those it has not.
LEMMA DealPageLemma ==
    ASSUME ReadsInv, NEW q \in Reads, phase[q] = "waiting", DealInv(q)
    PROVE  /\ InOrder(DealPage(q), Ascending)
           /\ Range(DealPage(q)) \subseteq present \ Range(items[q])
           /\ DealCursor(q) # NoCursor => DealCursor(q) = Len(items[q]) + Len(DealPage(q))
           /\ \A i \in present \ (Range(items[q]) \cup Range(DealPage(q))) :
                 DealCursor(q) # NoCursor /\ After(DealPage(q), i, Ascending)
<1>1. PICK s : s = items[q]
  OBVIOUS
<1>2. PICK P : P = present
  OBVIOUS
<1>3. PICK c : c = Len(s)
  OBVIOUS
<1>4. PICK N : N = Cardinality(P)
  OBVIOUS
<1>5. PICK n : n = Limit(q)
  OBVIOUS
<1>6. /\ P \subseteq Ids /\ s \in Seq(Ids) /\ cursor[q] = c /\ InOrder(s, Ascending)
      /\ Range(s) \subseteq P
      /\ \A i \in P : \A j \in Range(s) : i <= j => i \in Range(s)
  BY <1>1, <1>2, <1>3 DEF ReadsInv, ReadInv, ReadShape, DealInv
<1>7. /\ c \in Nat /\ N \in Nat /\ c <= N
      /\ \A i \in P : i \in Range(s) <=> Rank(P, i) <= c
  <2>1. c \in 0..N /\ \A i \in P : i \in Range(s) <=> Rank(P, i) <= c
    BY <1>3, <1>4, <1>6, OldestPart
  <2>. QED BY <1>4, <1>6, <2>1, IdsAreFinite
<1>8. PICK o : o = Oldest(P)
  OBVIOUS
<1>9. /\ o \in Seq(P) /\ Len(o) = N
      /\ \A k \in 1..N : o[k] \in P /\ Rank(P, o[k]) = k
      /\ \A i \in P : Rank(P, i) \in 1..N /\ o[Rank(P, i)] = i
      /\ \A k, m \in 1..N : k < m => o[k] < o[m]
  BY <1>4, <1>6, <1>8, OldestLemma
<1>10. PICK rest : rest = SubSeq(o, c + 1, N)
  OBVIOUS
<1>11. /\ rest \in Seq(P) /\ Len(rest) = N - c /\ DOMAIN rest = 1..(N - c)
       /\ \A k \in 1..(N - c) : rest[k] = o[c + k]
  <2>1. /\ rest \in Seq(P) /\ Len(rest) = N - c
        /\ \A k \in 1..Len(rest) : rest[k] = o[c + k]
    BY <1>7, <1>9, <1>10, RestLemma
  <2>. QED BY <2>1
<1>12. rest \in Seq(Ids) /\ InOrder(rest, Ascending)
  <2>1. \A k \in DOMAIN rest : rest[k] \in Ids
    BY <1>6, <1>11
  <2>2. rest \in Seq(Ids)
    BY <1>6, <1>11
  <2>3. ASSUME NEW k \in DOMAIN rest, NEW m \in DOMAIN rest, k < m PROVE rest[k] < rest[m]
    <3>1. c + k \in 1..N /\ c + m \in 1..N /\ c + k < c + m
      BY <1>7, <1>11, <2>3
    <3>. QED BY <1>9, <1>11, <3>1
  <2>. QED BY <2>1, <2>2, <2>3, OrderLemma DEF InOrder
<1>13. Range(rest) = P \ Range(s)
  <2>1. ASSUME NEW k \in DOMAIN rest PROVE rest[k] \in P \ Range(s)
    <3>1. c + k \in 1..N /\ rest[k] = o[c + k] /\ ~ (c + k <= c)
      BY <1>7, <1>11
    <3>. QED BY <1>7, <1>9, <3>1
  <2>2. ASSUME NEW i \in P \ Range(s) PROVE \E k \in DOMAIN rest : rest[k] = i
    <3>1. PICK r : r = Rank(P, i)
      OBVIOUS
    <3>2. r \in 1..N /\ o[r] = i /\ ~ (r <= c)
      BY <1>7, <1>9, <3>1
    <3>3. r - c \in 1..(N - c) /\ c + (r - c) = r
      BY <1>7, <3>2
    <3>. QED BY <1>11, <3>2, <3>3
  <2>. QED BY <2>1, <2>2 DEF Range
<1>14. PICK page : page = Prefix(rest, n)
  OBVIOUS
<1>15. n \in Nat /\ n > 0 /\ DealPage(q) = page
  BY <1>2, <1>3, <1>4, <1>5, <1>6, <1>8, <1>10, <1>14, LimitLemma DEF DealPage
<1>16. /\ page \in Seq(Ids) /\ Len(page) \in Nat /\ Len(page) <= N - c
       /\ N - c < n => Len(page) = N - c
       /\ N - c >= n => Len(page) = n
       /\ \A k \in 1..Len(page) : page[k] = rest[k]
  <2>1. /\ page \in Seq(Ids) /\ Len(page) <= Len(rest)
        /\ Len(rest) < n => Len(page) = Len(rest)
        /\ Len(rest) >= n => Len(page) = n
        /\ \A k \in 1..Len(page) : page[k] = rest[k]
    BY <1>12, <1>14, <1>15, PrefixLemma
  <2>. QED BY <1>11, <2>1
<1>17. /\ InOrder(page, Ascending)
       /\ \A i \in P \ Range(s) :
             i \notin Range(page) => Len(page) = n /\ After(page, i, Ascending)
  <2>1. PICK S : S = P \ Range(s)
    OBVIOUS
  <2>2. \A i \in S \ Range(rest) : Len(rest) >= n /\ After(rest, i, Ascending)
    BY <1>13, <2>1
  <2>3. /\ InOrder(Prefix(rest, n), Ascending)
        /\ \A i \in S \ Range(Prefix(rest, n)) :
               Len(Prefix(rest, n)) = n /\ After(Prefix(rest, n), i, Ascending)
    BY <1>12, <1>15, <2>2, CutLemma
  <2>. QED BY <1>14, <2>1, <2>3
<1>18. Range(page) \subseteq P \ Range(s)
  <2>1. DOMAIN page = 1..Len(page) /\ DOMAIN page \subseteq DOMAIN rest
    <3>1. DOMAIN page = 1..Len(page) /\ N - c \in Nat
      BY <1>7, <1>16
    <3>. QED BY <1>11, <1>16, <3>1, Places
  <2>. QED BY <1>13, <1>16, <2>1 DEF Range
<1>19. DealCursor(q) = IF c + Len(page) < N THEN c + Len(page) ELSE NoCursor
  BY <1>2, <1>4, <1>6, <1>15 DEF DealCursor
<1>20. ASSUME NEW i \in P \ Range(s), i \notin Range(page) PROVE DealCursor(q) # NoCursor
  <2>1. Len(page) = n
    BY <1>17, <1>20
  <2>2. ~ (Len(page) = N - c)
    <3>1. ASSUME Len(page) = N - c PROVE Range(rest) \subseteq Range(page)
      <4>1. DOMAIN page = DOMAIN rest /\ \A k \in DOMAIN page : page[k] = rest[k]
        BY <1>11, <1>16, <3>1
      <4>. QED BY <4>1 DEF Range
    <3>. QED BY <1>13, <1>20, <3>1
  <2>3. c + Len(page) < N /\ c + Len(page) # 0
    BY <1>7, <1>15, <1>16, <2>1, <2>2
  <2>. QED BY <1>19, <2>3 DEF NoCursor
<1>21. /\ DealCursor(q) # NoCursor => DealCursor(q) = Len(s) + Len(page)
       /\ \A i \in P \ (Range(s) \cup Range(page)) :
             DealCursor(q) # NoCursor /\ After(page, i, Ascending)
  BY <1>3, <1>17, <1>19, <1>20
<1>. QED BY <1>1, <1>2, <1>15, <1>17, <1>18, <1>21

LEMMA SearchKeepsReads ==
    ASSUME ReadsInv, NEW q \in Reads, SearchPage(q)
    PROVE  ReadsInv'
<1>1. PICK page : page = DealPage(q)
  OBVIOUS
<1>2. PICK next : next = DealCursor(q)
  OBVIOUS
<1>3. /\ phase[q] = "waiting" /\ method[q] = "search_deals"
      /\ TakePage(q, page, next)
      /\ UNCHANGED <<present, changes, method, maxResults, kept, disturbed>>
  BY <1>1, <1>2 DEF SearchPage
<1>4. page \in Seq(Ids) /\ next \in Nat
  BY <1>1, <1>2, <1>3, DealPageType
<1>5. /\ DOMAIN phase' = Reads /\ DOMAIN items' = Reads /\ DOMAIN cursor' = Reads
      /\ \A r \in Reads : r # q => /\ phase'[r] = phase[r] /\ items'[r] = items[r]
                                   /\ cursor'[r] = cursor[r]
      /\ cursor'[q] = next
      /\ \/ /\ phase'[q] = "waiting" /\ items'[q] = items[q] \o page /\ next # NoCursor
         \/ /\ phase'[q] = "returned" /\ items'[q] = Prefix(items[q] \o page, maxResults[q])
            /\ next = NoCursor \/ Len(items[q] \o page) >= maxResults[q]
      /\ ReadShape(q)'
  BY <1>3, <1>4, TakePageLemma
<1>6. ASSUME ~ disturbed[q] PROVE DealInv(q)'
  <2>1. DealInv(q) /\ ReadShape(q)
    BY <1>3, <1>6 DEF ReadsInv, ReadInv
  <2>2. /\ items[q] \in Seq(Ids) /\ InOrder(items[q], Ascending)
        /\ kept[q] \subseteq present /\ present \subseteq Ids /\ Range(items[q]) \subseteq present
        /\ \A i \in present : \A j \in Range(items[q]) : i <= j => i \in Range(items[q])
    BY <1>3, <2>1 DEF ReadShape, DealInv, ReadsInv
  <2>3. /\ InOrder(page, Ascending)
        /\ Range(page) \subseteq present \ Range(items[q])
        /\ next # NoCursor => next = Len(items[q]) + Len(page)
        /\ \A i \in present \ (Range(items[q]) \cup Range(page)) :
              next # NoCursor /\ After(page, i, Ascending)
    BY <1>1, <1>2, <1>3, <2>1, DealPageLemma
  <2>4. ASSUME NEW j \in Range(items[q]), NEW i \in present \ Range(items[q])
        PROVE  <<j, i>> \in Ascending
    <3>1. i \in Ids /\ j \in Ids /\ ~ (i <= j)
      BY <2>2
    <3>2. i \in Nat /\ j \in Nat
      BY <3>1, IdsAreFinite
    <3>3. j < i
      BY <3>1, <3>2
    <3>. QED BY <3>1, <3>3, OrderLemma
  <2>5. PICK all : all = items[q] \o page
    OBVIOUS
  <2>6. /\ InOrder(all, Ascending) /\ Range(all) = Range(items[q]) \cup Range(page)
        /\ Len(all) = Len(items[q]) + Len(page)
    BY <1>4, <2>2, <2>3, <2>4, <2>5, ConcatLemma
  <2>7. ASSUME NEW i \in present \ Range(all)
        PROVE  next # NoCursor /\ After(all, i, Ascending)
    <3>1. next # NoCursor /\ After(page, i, Ascending)
      BY <2>3, <2>6, <2>7
    <3>. QED BY <2>4, <2>6, <2>7, <3>1 DEF After
  <2>8. ASSUME phase'[q] = "returned" PROVE ExactIn(q, Ascending)'
    <3>1. \A i \in kept[q] \ Range(all) : next # NoCursor /\ After(all, i, Ascending)
      BY <2>2, <2>7
    <3>. QED BY <1>3, <1>4, <1>5, <2>5, <2>6, <2>8, <3>1, ReturnsExact
  <2>9. ASSUME phase'[q] = "waiting"
        PROVE  /\ cursor'[q] = Len(items'[q]) /\ InOrder(items'[q], Ascending)
               /\ Range(items'[q]) \subseteq present'
               /\ \A i \in present' : \A j \in Range(items'[q]) :
                      i <= j => i \in Range(items'[q])
    <3>1. items'[q] = all /\ cursor'[q] = next /\ next # NoCursor /\ present' = present
      BY <1>3, <1>5, <2>5, <2>9
    <3>2. ASSUME NEW i \in present, NEW j \in Range(all), i <= j, i \notin Range(all)
          PROVE  FALSE
      <4>1. <<j, i>> \in Ascending
        BY <2>7, <3>2 DEF After
      <4>2. i \in Nat /\ j \in Nat /\ j < i
        BY <4>1, OrderLemma, IdsAreFinite
      <4>. QED BY <3>2, <4>2
    <3>. QED BY <2>2, <2>3, <2>6, <3>1, <3>2
  <2>. QED BY <2>8, <2>9 DEF DealInv
<1>7. ReadInv(q)'
  BY <1>3, <1>5, <1>6 DEF ReadInv
<1>8. \A r \in Reads : r # q => ReadInv(r)'
  BY <1>3, <1>5, ReadStays DEF ReadsInv
<1>. QED BY <1>3, <1>5, <1>7, <1>8 DEF ReadsInv

LEMMA ReadsStep == ReadsInv /\ [Next]_vars => ReadsInv'
<1> SUFFICES ASSUME ReadsInv, [Next]_vars PROVE ReadsInv'
  OBVIOUS
<1>1. CASE UNCHANGED vars
  <2>1. UNCHANGED <<present, changes, phase, method, maxResults, items, cursor, kept, disturbed>>
    BY <1>1 DEF vars, read
  <2>. QED BY <2>1, ReadStays DEF ReadsInv
<1>. QED
  BY <1>1, ChangeKeepsReads, CallKeepsReads, SearchKeepsReads, ListKeepsReads, RaiseKeepsReads
     DEF Next, Step

LEMMA ReadsInvariant == Spec => []ReadsInv
<1>1. Init => ReadsInv
  <2> SUFFICES ASSUME Init PROVE ReadsInv
    OBVIOUS
  <2>1. /\ DOMAIN phase = Reads /\ DOMAIN maxResults = Reads /\ DOMAIN items = Reads
        /\ DOMAIN cursor = Reads /\ DOMAIN kept = Reads /\ DOMAIN disturbed = Reads
        /\ \A q \in Reads : /\ phase[q] = "idle" /\ maxResults[q] = 0 /\ items[q] = <<>>
                            /\ cursor[q] = NoCursor /\ kept[q] = {} /\ disturbed[q] = FALSE
    BY DEF Init
  <2>2. <<>> \in Seq(Ids) /\ Len(<<>>) = 0
    OBVIOUS
  <2>3. \A q \in Reads : ReadInv(q)
    <3>1. ASSUME NEW q \in Reads PROVE ReadShape(q)
      <4>1. /\ phase[q] = "idle" /\ maxResults[q] = 0 /\ items[q] = <<>>
            /\ cursor[q] = NoCursor /\ kept[q] = {} /\ disturbed[q] = FALSE
        BY <2>1
      <4>2. NoCursor \in Nat /\ 0 \in Nat /\ 0 <= 0
        BY DEF NoCursor
      <4>3. items[q] \in Seq(Ids) /\ Len(items[q]) <= maxResults[q]
        BY <2>2, <4>1
      <4>. QED BY <4>1, <4>2, <4>3 DEF ReadShape
    <3>2. \A q \in Reads : ListInv(q) /\ DealInv(q)
      BY <2>1 DEF ListInv, DealInv
    <3>. QED BY <3>1, <3>2 DEF ReadInv
  <2>4. present \subseteq Ids /\ changes \in 0..MaxChanges
        /\ method \in [Reads -> {"search_deals", "list_subscriptions"}]
    BY ReadsAssumption DEF Init
  <2>. QED BY <2>1, <2>3, <2>4 DEF ReadsInv
<1>. QED BY <1>1, ReadsStep, PTL DEF Spec

\* A paged read keeps its shape: it has objects of the remote, and no more than it was asked
\* for, also while the loop goes on.
THEOREM ReadsTypeCorrect == Spec => []TypeOK
<1>1. ReadsInv => TypeOK
  BY DEF ReadsInv, ReadInv, ReadShape, TypeOK, Range
<1>. QED BY <1>1, ReadsInvariant, PTL

\* A cursor that is the id of the last item survives any change of the list between pages:
\* list_subscriptions repeats nothing and misses nothing that was there all the while.
THEOREM SubscriptionReadsAreExact == Spec => []SubscriptionsAreExact
<1>1. ReadsInv => SubscriptionsAreExact
  BY ExactLemma DEF ReadsInv, ReadInv, ListInv, SubscriptionsAreExact
<1>. QED BY <1>1, ReadsInvariant, PTL

\* A cursor that is a position survives the changes ahead of it: search_deals is exact too,
\* unless a deal comes or goes among those already read.
THEOREM DealReadsAreExact == Spec => []DealsAreExact
<1>1. ReadsInv => DealsAreExact
  BY ExactLemma DEF ReadsInv, ReadInv, DealInv, DealsAreExact
<1>. QED BY <1>1, ReadsInvariant, PTL
=============================================================================
