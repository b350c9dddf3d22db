----------------------------- MODULE PagedReads -----------------------------
(***************************************************************************)
(* The reads of the connectors that take several requests: search_deals of *)
(* HubSpotConnector and list_subscriptions of StripeConnector.  The remote *)
(* list goes on changing between two pages.  HubSpot lists in the order of *)
(* creation and its cursor is a position; Stripe lists the newest first    *)
(* and its cursor is the id of the last item.                              *)
(***************************************************************************)
EXTENDS Integers, FiniteSets, SequencesExt

CONSTANTS
    Ids,         \* remote objects, numbered in the order of their creation
    Reads,       \* calls of the two; they share nothing but the remote list
    PageLimit,   \* the most that is asked of one page: 100
    Wanted,      \* values of max_results
    MaxChanges   \* bound: changes of the remote list

ASSUME ReadsAssumption ==
    /\ Ids \subseteq Nat \ {0} /\ IsFiniteSet(Ids)
    /\ PageLimit \in Nat \ {0} /\ Wanted \subseteq Nat
    /\ MaxChanges \in Nat

VARIABLES
    present,    \* the objects that the query matches now
    changes,    \* how often that has changed
    phase,      \* of each call
    method,     \* which of the two it is
    maxResults, \* its argument
    items,      \* what it has collected, and in the end returns
    cursor,     \* what it asks the next page with
    kept,       \* objects that matched from the call on (history)
    disturbed   \* an object came or went among those already read (history)

read == <<phase, method, maxResults, items, cursor>>
vars == <<present, changes, read, kept, disturbed>>

NoCursor == 0

Init ==
    /\ present \in SUBSET Ids
    /\ changes = 0
    /\ phase = [q \in Reads |-> "idle"]
    /\ method \in [Reads -> {"search_deals", "list_subscriptions"}]
    /\ maxResults = [q \in Reads |-> 0]
    /\ items = [q \in Reads |-> <<>>]
    /\ cursor = [q \in Reads |-> NoCursor]
    /\ kept = [q \in Reads |-> {}]
    /\ disturbed = [q \in Reads |-> FALSE]

-----------------------------------------------------------------------------
(* The remote list.                                                        *)

\* An object is created, or comes to match the query.
Enter(i) ==
    /\ changes < MaxChanges
    /\ i \notin present
    /\ present' = present \cup {i}
    /\ changes' = changes + 1
    /\ disturbed' = [q \in Reads |->
          disturbed[q] \/ (phase[q] = "waiting" /\ \E j \in Range(items[q]) : i <= j)]
    /\ UNCHANGED <<read, kept>>

\* An object is deleted, or no longer matches the query.
Leave(i) ==
    /\ changes < MaxChanges
    /\ i \in present
    /\ present' = present \ {i}
    /\ changes' = changes + 1
    /\ disturbed' = [q \in Reads |->
          disturbed[q] \/ (phase[q] = "waiting" /\ \E j \in Range(items[q]) : i <= j)]
    /\ kept' = [q \in Reads |-> IF phase[q] = "waiting" THEN kept[q] \ {i} ELSE kept[q]]
    /\ UNCHANGED read

Oldest(S) == [n \in 1..Cardinality(S) |-> CHOOSE i \in S : Cardinality({j \in S : j <= i}) = n]
Newest(S) == Reverse(Oldest(S))

Prefix(s, n) == SubSeq(s, 1, IF Len(s) < n THEN Len(s) ELSE n)

\* The body's or the params' limit.
Limit(q) == IF maxResults[q] < PageLimit THEN maxResults[q] ELSE PageLimit

\* HubSpot answers with the deals from the position of the cursor on, and a cursor if
\* there are more.
DealPage(q) ==
    Prefix(SubSeq(Oldest(present), cursor[q] + 1, Cardinality(present)), Limit(q))

DealCursor(q) ==
    LET next == cursor[q] + Len(DealPage(q))
    IN  IF next < Cardinality(present) THEN next ELSE NoCursor

\* Stripe answers with the subscriptions older than the cursor, and says if there are more.
Older(q) == {i \in present : cursor[q] # NoCursor => i < cursor[q]}

SubscriptionPage(q) == Prefix(Newest(Older(q)), Limit(q))

HasMore(q) == Cardinality(Older(q)) > Limit(q)

-----------------------------------------------------------------------------
(* The connectors.                                                         *)

\* The loop is not entered for max_results = 0.
Call(q, n) ==
    /\ phase[q] = "idle"
    /\ maxResults' = [maxResults EXCEPT ![q] = n]
    /\ phase' = [phase EXCEPT ![q] = IF n = 0 THEN "returned" ELSE "waiting"]
    /\ kept' = [kept EXCEPT ![q] = present]
    /\ UNCHANGED <<present, changes, method, items, cursor, disturbed>>

\* Mutant of TakePage: the result is not cut at max_results.
TakePageWhole(q, page, next) ==
    LET all == items[q] \o page
        over == next = NoCursor \/ Len(all) >= maxResults[q]
    IN  /\ items' = [items EXCEPT ![q] = all]
        /\ cursor' = [cursor EXCEPT ![q] = next]
        /\ phase' = [phase EXCEPT ![q] = IF over THEN "returned" ELSE @]

\* The loop takes a page and ends without a cursor for the next, or with enough.
TakePage(q, page, next) ==
    LET all == items[q] \o page
        over == next = NoCursor \/ Len(all) >= maxResults[q]
    IN  /\ items' = [items EXCEPT ![q] = IF over THEN Prefix(all, maxResults[q]) ELSE all]
        /\ cursor' = [cursor EXCEPT ![q] = next]
        /\ phase' = [phase EXCEPT ![q] = IF over THEN "returned" ELSE @]

\* Mutant of SearchPage: the cursor is not put into the next request.
SearchFirstPage(q) ==
    /\ phase[q] = "waiting" /\ method[q] = "search_deals"
    /\ TakePage(q, Prefix(Oldest(present), Limit(q)), DealCursor(q))
    /\ UNCHANGED <<present, changes, method, maxResults, kept, disturbed>>

\* A page of search_deals.
SearchPage(q) ==
    /\ phase[q] = "waiting" /\ method[q] = "search_deals"
    /\ TakePage(q, DealPage(q), DealCursor(q))
    /\ UNCHANGED <<present, changes, method, maxResults, kept, disturbed>>

\* Mutant of ListPage: the cursor is the first item of the page.
ListFromFirst(q) ==
    /\ phase[q] = "waiting" /\ method[q] = "list_subscriptions"
    /\ TakePage(q, SubscriptionPage(q),
                IF HasMore(q) THEN SubscriptionPage(q)[1] ELSE NoCursor)
    /\ UNCHANGED <<present, changes, method, maxResults, kept, disturbed>>

\* A page of list_subscriptions; the loop also ends with an empty page.
ListPage(q) ==
    /\ phase[q] = "waiting" /\ method[q] = "list_subscriptions"
    /\ TakePage(q, SubscriptionPage(q),
                IF HasMore(q) /\ SubscriptionPage(q) # <<>> THEN Last(SubscriptionPage(q))
                                                           ELSE NoCursor)
    /\ UNCHANGED <<present, changes, method, maxResults, kept, disturbed>>

\* Mutant of ReadRaises: the request is made again.
ReadRetries(q) ==
    /\ phase[q] = "waiting"
    /\ cursor' = [cursor EXCEPT ![q] = NoCursor]
    /\ items' = [items EXCEPT ![q] = <<>>]
    /\ UNCHANGED <<present, changes, phase, method, maxResults, kept, disturbed>>

\* The request fails or is refused: the call raises, with nothing of the pages it had.
ReadRaises(q) ==
    /\ phase[q] = "waiting"
    /\ phase' = [phase EXCEPT ![q] = "raised"]
    /\ items' = [items EXCEPT ![q] = <<>>]
    /\ UNCHANGED <<present, changes, method, maxResults, cursor, kept, disturbed>>

-----------------------------------------------------------------------------
Step(q) == SearchPage(q) \/ ListPage(q) \/ ReadRaises(q)

Next ==
    \/ \E i \in Ids : Enter(i) \/ Leave(i)
    \/ \E q \in Reads, n \in Wanted : Call(q, n)
    \/ \E q \in Reads : Step(q)

\* Each request has a timeout: the client gets an answer or raises.
Spec == Init /\ [][Next]_vars /\ \A q \in Reads : WF_vars(Step(q))
-----------------------------------------------------------------------------
(* Properties.                                                             *)

\* Shape of the state: a call that is still waiting has less than it was asked for.
TypeOK ==
    /\ present \subseteq Ids /\ changes \in 0..MaxChanges
    /\ \A q \in Reads :
          /\ phase[q] \in {"idle", "waiting", "returned", "raised"}
          /\ Range(items[q]) \subseteq Ids
          /\ phase[q] = "waiting" => Len(items[q]) < maxResults[q]
          /\ phase[q] # "waiting" => Len(items[q]) <= maxResults[q]
          /\ kept[q] \subseteq Ids /\ disturbed[q] \in BOOLEAN

\* The result s of a call is a list without repetition in the order Before, and what
\* matched all the while is in it, up to max_results.
Exact(q, Before(_, _)) ==
    LET s == items[q]
    IN  /\ \A m, n \in DOMAIN s : m < n => Before(s[m], s[n])
        /\ \A i \in kept[q] \ Range(s) :
              Len(s) = maxResults[q] /\ \A j \in Range(s) : Before(j, i)

\* list_subscriptions follows the pagination through any changes: no subscription twice,
\* and none missing that was there from the call to the return.
SubscriptionsAreExact ==
    \A q \in Reads :
        phase[q] = "returned" /\ method[q] = "list_subscriptions" => Exact(q, >)

\* search_deals follows it through changes ahead of it.  Only a deal that comes or goes
\* among those already read shifts the positions, and with them repeats or skips a deal.
DealsAreExact ==
    \A q \in Reads :
        phase[q] = "returned" /\ method[q] = "search_deals" /\ ~ disturbed[q] => Exact(q, <)

\* A read ends, although the list may grow while it is read.
EveryReadEnds ==
    \A q \in Reads : phase[q] = "waiting" ~> phase[q] \in {"returned", "raised"}
=============================================================================
