-------------------------- MODULE ToolReplayProofs --------------------------
(***************************************************************************)
(* What the ledger has of the tool calls of a run, and what a replay makes *)
(* of it, for every number of calls, tools, rounds and replays.            *)
(*                                                                         *)
(* The ledger and the calls are one invariant, LogInv: each event is of a  *)
(* completed call, no two are of one, and the rounds follow each other.    *)
(* What a replay has left to serve is compared with the calls that it has  *)
(* left to answer, by number (CountInv, ShortInv) and, where calls of one  *)
(* round use different tools, by seq (OrderInv).                           *)
(***************************************************************************)
EXTENDS ToolReplay, FiniteSetTheorems, WellFoundedInduction, TLAPS

-----------------------------------------------------------------------------
(* Queues and the ledger as data.                                          *)

\* popleft gives the event of the least seq.
LEMMA OldestLemma ==
    ASSUME NEW q \in SUBSET Nat, q # {}
    PROVE  Oldest(q) \in q /\ \A j \in q : Oldest(q) <= j
<1> DEFINE R == OpToRel(<, Nat)
<1>1. \E k \in q : \A j \in q : <<j, k>> \notin R
  <2>1. IsWellFoundedOn(R, Nat)
    BY NatLessThanWellFounded
  <2>. HIDE DEF R
  <2>. QED BY <2>1, WFMin
<1>2. PICK k \in q : \A j \in q : <<j, k>> \notin R
  BY <1>1
<1>3. \A j \in q : k <= j
  <2>1. ASSUME NEW j \in q PROVE k <= j
    <3>1. ~ (j < k) /\ j \in Nat /\ k \in Nat
      BY <1>2 DEF OpToRel
    <3>. QED BY <3>1
  <2>. QED BY <2>1
<1>. QED BY <1>3 DEF Oldest

\* A call completes, with an event and without one.
Answered(n) == (\E v \in Values : Return(n, v)) \/ \E e \in Errors : Raise(n, e)

Missed(n) == \E e \in Errors : Miss(n, e)

\* An event has its tool, its call and its result.
LEMMA EventLemma ==
    ASSUME TypeOK, NEW k \in DOMAIN events
    PROVE  events[k].tool \in Tools /\ events[k].call \in Calls /\ events[k].result \in Results
<1> DEFINE E == [tool : Tools, call : Calls, result : Results]
<1>1. events \in Seq(E) /\ k \in DOMAIN events
  BY DEF TypeOK
<1>2. events[k] \in E
  <2>. HIDE DEF E
  <2>. QED BY <1>1
<1>. QED BY <1>2

\* record_event appends: the events before it stay what and where they are.
LEMMA RecordLemma ==
    ASSUME TypeOK, NEW n \in Calls, NEW r \in Results, Record(n, r)
    PROVE  /\ events' \in Seq([tool : Tools, call : Calls, result : Results])
           /\ Len(events) \in Nat /\ DOMAIN events = 1..Len(events)
           /\ DOMAIN events' = DOMAIN events \cup {Len(events) + 1}
           /\ \A k \in DOMAIN events : events'[k] = events[k]
           /\ events'[Len(events) + 1] = [tool |-> ToolOf[n], call |-> n, result |-> r]
<1>1. ToolOf[n] \in Tools
  BY CallsAssumption
<1>. QED BY <1>1 DEF TypeOK, Record

\* A function of two arguments, from its values.
LEMMA QueueLemma ==
    ASSUME NEW f, NEW S,
           f = [p \in Replays |-> [t \in Tools |-> f[p][t]]],
           \A p \in Replays, t \in Tools : f[p][t] \in SUBSET S
    PROVE  f \in [Replays -> [Tools -> SUBSET S]]
<1>1. ASSUME NEW p \in Replays PROVE f[p] \in [Tools -> SUBSET S]
  <2>1. f[p] = [t \in Tools |-> f[p][t]]
    OBVIOUS
  <2>. QED BY <2>1
<1>. QED BY <1>1

\* The step of a replay looks at its queue of one tool, and changes no other.
LEMMA StepLemma ==
    ASSUME TypeOK, NEW p \in Replays, Step(p), NEW t, t = ToolOf[next[p]]
    PROVE  /\ phase[p] = "replaying" /\ next[p] \in Calls /\ t \in Tools
           /\ UNCHANGED <<agent, run, basis>>
           /\ queue' \in [Replays -> [Tools -> SUBSET DOMAIN events]]
           /\ queue'[p][t] = Rest(queue[p][t])
           /\ \A s \in Tools : s # t => queue'[p][s] = queue[p][s]
           /\ \A o \in Replays : o # p => queue'[o] = queue[o]
           /\ \/ \E r \in Answers :
                    /\ Serve(p, next[p], r)
                    /\ \/ Served(queue[p][t]) /\ r = First(queue[p][t])
                       \/ /\ ~ Served(queue[p][t]) /\ ReplayError \in catches
                          /\ r = ReplayError
              \/ /\ ~ Served(queue[p][t]) /\ ReplayError \notin catches
                 /\ phase' = [phase EXCEPT ![p] = "raised"]
                 /\ UNCHANGED <<next, replayed>>
<1> DEFINE q == queue[p][t]
<1>1. next[p] \in Calls
  BY DEF Step
<1>2. t \in Tools
  BY <1>1, CallsAssumption
<1>3. q \in SUBSET DOMAIN events /\ DOMAIN events \in SUBSET Nat
  BY <1>2 DEF TypeOK
<1>4. q # {} => First(q) \in Results
  <2>1. q # {} => Oldest(q) \in DOMAIN events
    <3>1. q \in SUBSET Nat
      BY <1>3
    <3>2. q # {} => Oldest(q) \in q
      BY <3>1, OldestLemma
    <3>. QED BY <1>3, <3>2
  <2>2. \A k \in DOMAIN events : events[k].result \in Results
    BY EventLemma
  <2>. QED BY <2>1, <2>2 DEF First
<1>5. ReplayError \in Answers
  BY DEF Answers
<1>6. queue' = [queue EXCEPT ![p][t] = Rest(q)]
  BY DEF Step
<1>7. /\ queue'[p][t] = Rest(q)
      /\ \A s \in Tools : s # t => queue'[p][s] = queue[p][s]
      /\ \A o \in Replays : o # p => queue'[o] = queue[o]
      /\ queue' = [o \in Replays |-> [s \in Tools |-> queue'[o][s]]]
  <2>1. queue \in [Replays -> [Tools -> SUBSET DOMAIN events]]
    BY DEF TypeOK
  <2>. QED BY <1>2, <1>6, <2>1
<1>8. queue' \in [Replays -> [Tools -> SUBSET DOMAIN events]]
  <2>1. Rest(q) \in SUBSET DOMAIN events
    BY <1>3 DEF Rest
  <2>2. \A o \in Replays, s \in Tools : queue[o][s] \in SUBSET DOMAIN events
    BY DEF TypeOK
  <2>3. \A o \in Replays, s \in Tools : queue'[o][s] \in SUBSET DOMAIN events
    BY <1>7, <2>1, <2>2
  <2>. QED BY <1>7, <2>3, QueueLemma
<1>9. /\ phase[p] = "replaying" /\ UNCHANGED <<agent, run, basis>>
      /\ \/ Served(q) /\ Serve(p, next[p], First(q))
         \/ ~ Served(q) /\ ReplayError \in catches /\ Serve(p, next[p], ReplayError)
         \/ /\ ~ Served(q) /\ ReplayError \notin catches
            /\ phase' = [phase EXCEPT ![p] = "raised"]
            /\ UNCHANGED <<next, replayed>>
  BY DEF Step
<1>10. Served(q) => First(q) \in Answers
  BY <1>4 DEF Served, Results, Answers
<1>. QED BY <1>1, <1>2, <1>5, <1>7, <1>8, <1>9, <1>10
-----------------------------------------------------------------------------
(* Type correctness.                                                       *)

LEMMA TypeStep == TypeOK /\ [Next]_vars => TypeOK'
<1> SUFFICES ASSUME TypeOK, [Next]_vars PROVE TypeOK'
  OBVIOUS
<1>1. /\ \A v \in Values : v \in Results /\ Json[v] \in Results
      /\ \A e \in Errors : e \in Results
  BY ValuesAssumption DEF Results
<1>2. ASSUME NEW n \in Calls, NEW r \in Results, Deliver(n, r)
      PROVE  /\ outstanding' \subseteq RoundCalls(round') /\ round' \in 0..N
             /\ got' \in [Calls -> Results \cup {None}]
             /\ runStatus' \in {"running", "succeeded", "failed"}
             /\ UNCHANGED <<agent, reps>>
  BY <1>2 DEF TypeOK, Deliver, RoundCalls
<1>3. ASSUME NEW n \in Calls, NEW r \in Results, NEW s \in Results,
             Deliver(n, r), Record(n, s), UNCHANGED unrecorded
      PROVE  TypeOK'
  <2>1. queue' \in [Replays -> [Tools -> SUBSET DOMAIN events']]
    <3>1. DOMAIN events \subseteq DOMAIN events' /\ queue' = queue
      BY <1>2, <1>3, RecordLemma DEF reps
    <3>2. \A p \in Replays, t \in Tools : queue[p][t] \in SUBSET DOMAIN events'
      BY <3>1 DEF TypeOK
    <3>3. queue = [p \in Replays |-> [t \in Tools |-> queue[p][t]]]
      BY DEF TypeOK
    <3>. QED BY <3>1, <3>2, <3>3, QueueLemma
  <2>2. events' \in Seq([tool : Tools, call : Calls, result : Results])
    BY <1>3, RecordLemma
  <2>. QED BY <1>2, <1>3, <2>1, <2>2 DEF TypeOK, reps, agent
<1>4. ASSUME NEW n \in Calls, Missed(n) PROVE TypeOK'
  BY <1>1, <1>2, <1>4 DEF Missed, Miss, TypeOK, reps, agent
<1>5. CASE MakeCalls
  <2>1. round + 1 \in 0..N
    BY <1>5, CallsAssumption DEF MakeCalls, RoundCalls, TypeOK
  <2>. QED BY <1>5, <2>1 DEF MakeCalls, TypeOK, reps, agent
<1>6. CASE Succeed
  BY <1>6 DEF Succeed, TypeOK, reps, agent
<1>7. ASSUME NEW p \in Replays, StartReplay(p) PROVE TypeOK'
  <2>1. [t \in Tools |-> Recorded(t)] \in [Tools -> SUBSET DOMAIN events]
    BY DEF Recorded
  <2>. QED BY <1>7, <2>1 DEF StartReplay, TypeOK, run, agent
<1>8. ASSUME NEW p \in Replays, Step(p) PROVE TypeOK'
  <2>1. /\ next[p] \in Calls /\ UNCHANGED <<agent, run, basis>>
        /\ queue' \in [Replays -> [Tools -> SUBSET DOMAIN events]]
        /\ \/ \E r \in Answers : Serve(p, next[p], r)
           \/ phase' = [phase EXCEPT ![p] = "raised"] /\ UNCHANGED <<next, replayed>>
    BY <1>8, StepLemma
  <2>4. /\ phase' \in [Replays -> {"idle", "replaying", "reported", "raised"}]
        /\ next' \in [Replays -> 1..(N + 1)]
        /\ replayed' \in [Replays -> [Calls -> Answers \cup {None}]]
    <3>1. next[p] + 1 \in 1..(N + 1)
      BY <2>1, CallsAssumption DEF Calls
    <3>2. ASSUME NEW r \in Answers, Serve(p, next[p], r)
          PROVE  replayed' \in [Replays -> [Calls -> Answers \cup {None}]]
      <4>1. [replayed[p] EXCEPT ![next[p]] = r] \in [Calls -> Answers \cup {None}]
        BY <2>1 DEF TypeOK
      <4>2. replayed' = [replayed EXCEPT ![p] = [replayed[p] EXCEPT ![next[p]] = r]]
        BY <3>2 DEF Serve
      <4>. QED BY <4>1, <4>2 DEF TypeOK
    <3>. QED BY <2>1, <3>1, <3>2 DEF TypeOK, Serve
  <2>. QED BY <2>1, <2>4 DEF TypeOK, run, agent
<1>9. ASSUME NEW p \in Replays, EndReplay(p) PROVE TypeOK'
  BY <1>9 DEF EndReplay, TypeOK, run, agent
<1>10. CASE UNCHANGED vars
  BY <1>10 DEF TypeOK, vars, run, reps, agent
<1>11. ASSUME NEW n \in Calls, Answered(n) PROVE TypeOK'
  BY <1>1, <1>3, <1>11 DEF Answered, Return, Raise
<1>. QED BY <1>4, <1>5, <1>6, <1>7, <1>8, <1>9, <1>10, <1>11 DEF Next, Answered, Missed

\* The state of a run and of its replays keeps its shape.
THEOREM TypeCorrect == Spec => []TypeOK
<1>1. Init => TypeOK
  <2> SUFFICES ASSUME Init PROVE TypeOK
    OBVIOUS
  <2>1. N \in Nat
    BY CallsAssumption
  <2>2. queue \in [Replays -> [Tools -> SUBSET DOMAIN events]]
    BY DEF Init
  <2>3. next \in [Replays -> 1..(N + 1)] /\ round \in 0..N
    BY <2>1 DEF Init
  <2>. QED BY <2>2, <2>3 DEF Init, TypeOK
<1>. QED BY <1>1, TypeStep, PTL DEF Spec
-----------------------------------------------------------------------------
(* The ledger and the calls.                                               *)

\* Each event is of a completed call and says what it gave; no two are of one call; a call
\* that is out, or that the run has not come to, has given nothing; and events of a round
\* come before those of later ones.
LogInv ==
    /\ \A k \in DOMAIN events :
          /\ events[k].tool = ToolOf[events[k].call]
          /\ events[k].result = AsRecorded(got[events[k].call])
          /\ got[events[k].call] # None /\ events[k].call \notin unrecorded
    /\ \A j, k \in DOMAIN events : events[j].call = events[k].call => j = k
    /\ \A n \in Calls : got[n] # None /\ n \notin unrecorded => EventsOf(n) # {}
    /\ \A n \in Calls :
          n \in outstanding \/ RoundOf[n] > round => got[n] = None /\ n \notin unrecorded
    /\ \A j, k \in DOMAIN events :
          j < k => RoundOf[events[j].call] <= RoundOf[events[k].call]

\* A run ends well when no call is out, and fails for an exception that it did not handle.
EndInv ==
    /\ runStatus = "succeeded" => outstanding = {}
    /\ runStatus = "failed" => \E n \in Calls : got[n] \in Errors \ catches

\* A call completes, and its result is recorded.
LEMMA AnswerLemma ==
    ASSUME TypeOK, LogInv, NEW n \in Calls, NEW r \in Results,
           Deliver(n, r), Record(n, AsRecorded(r)), unrecorded' = unrecorded,
           AsRecorded(r) \in Results
    PROVE  LogInv'
<1> DEFINE new == Len(events) + 1
<1>1. /\ Len(events) \in Nat /\ DOMAIN events = 1..Len(events)
      /\ DOMAIN events' = DOMAIN events \cup {new}
      /\ \A k \in DOMAIN events : events'[k] = events[k]
      /\ events'[new] = [tool |-> ToolOf[n], call |-> n, result |-> AsRecorded(r)]
  BY RecordLemma
<1>2. /\ n \in outstanding /\ outstanding' = outstanding \ {n} /\ round' = round
      /\ got' = [got EXCEPT ![n] = r] /\ got \in [Calls -> Results \cup {None}]
      /\ RoundOf[n] = round /\ round \in Nat
  BY DEF Deliver, TypeOK, RoundCalls
<1>3. got[n] = None /\ n \notin unrecorded /\ r # None
  BY <1>2, ValuesAssumption DEF LogInv
<1>4. \A k \in DOMAIN events : events[k].call # n /\ events[k].call \in Calls
  BY <1>3, EventLemma DEF LogInv
<1>5. /\ events'[new].call = n /\ events'[new].tool = ToolOf[n]
      /\ events'[new].result = AsRecorded(r)
  BY <1>1
<1>6. \A m \in Calls : AsRecorded(got[m])' = AsRecorded(got'[m])
  BY DEF AsRecorded
<1>7. ASSUME NEW k \in DOMAIN events'
      PROVE  /\ events'[k].tool = ToolOf[events'[k].call]
             /\ events'[k].result = AsRecorded(got'[events'[k].call])
             /\ got'[events'[k].call] # None /\ events'[k].call \notin unrecorded'
  <2>1. CASE k = new
    BY <1>2, <1>3, <1>5, <2>1
  <2>2. CASE k \in DOMAIN events
    <3>1. events'[k] = events[k] /\ got'[events[k].call] = got[events[k].call]
      BY <1>1, <1>2, <1>4, <2>2
    <3>. QED BY <2>2, <3>1 DEF LogInv
  <2>. QED BY <1>1, <2>1, <2>2
<1>8. ASSUME NEW j \in DOMAIN events', NEW k \in DOMAIN events',
             events'[j].call = events'[k].call
      PROVE  j = k
  BY <1>1, <1>4, <1>5, <1>8 DEF LogInv
<1>9. ASSUME NEW m \in Calls, got'[m] # None, m \notin unrecorded'
      PROVE  EventsOf(m)' # {}
  <2>1. CASE m = n
    BY <1>1, <1>5, <2>1 DEF EventsOf
  <2>2. CASE m # n
    <3>1. PICK k \in DOMAIN events : events[k].call = m
      BY <1>2, <1>9, <2>2 DEF LogInv, EventsOf
    <3>. QED BY <1>1, <3>1 DEF EventsOf
  <2>. QED BY <2>1, <2>2
<1>10. ASSUME NEW m \in Calls, m \in outstanding' \/ RoundOf[m] > round'
       PROVE  got'[m] = None /\ m \notin unrecorded'
  <2>1. m # n /\ (m \in outstanding \/ RoundOf[m] > round)
    BY <1>2, <1>10
  <2>. QED BY <1>2, <2>1 DEF LogInv
<1>11. ASSUME NEW j \in DOMAIN events', NEW k \in DOMAIN events', j < k
       PROVE  RoundOf[events'[j].call] <= RoundOf[events'[k].call]
  <2>1. j \in DOMAIN events
    BY <1>1, <1>11
  <2>2. CASE k \in DOMAIN events
    BY <1>1, <1>11, <2>1, <2>2 DEF LogInv
  <2>3. CASE k = new
    <3>1. got[events[j].call] # None /\ events[j].call \in Calls
      BY <1>4, <2>1 DEF LogInv
    <3>2. ~ (RoundOf[events[j].call] > round)
      BY <3>1 DEF LogInv
    <3>3. RoundOf[events[j].call] \in Nat
      BY <3>1, CallsAssumption
    <3>. QED BY <1>1, <1>2, <1>5, <2>1, <2>3, <3>2, <3>3
  <2>. QED BY <1>1, <2>2, <2>3
<1>12. AsRecorded(r)' = AsRecorded(r)
  BY DEF AsRecorded
<1>. QED BY <1>7, <1>8, <1>9, <1>10, <1>11 DEF LogInv, AsRecorded

LEMMA LogStep == TypeOK /\ LogInv /\ [Next]_vars => LogInv'
<1> SUFFICES ASSUME TypeOK, LogInv, [Next]_vars PROVE LogInv'
  OBVIOUS
<1>1. \A e \in Errors : e \in Results /\ AsRecorded(e) = e
  BY ValuesAssumption DEF Results, AsRecorded
<1>2. \A v \in Values : v \in Results /\ AsRecorded(v) = Json[v] /\ Json[v] \in Results
  BY ValuesAssumption DEF Results, AsRecorded
<1>3. ASSUME NEW n \in Calls, Answered(n) PROVE LogInv'
  BY <1>1, <1>2, <1>3, AnswerLemma DEF Answered, Return, Raise
<1>4. ASSUME NEW n \in Calls, Missed(n) PROVE LogInv'
  <2>0. PICK e \in Errors : Miss(n, e)
    BY <1>4 DEF Missed
  <2>1. /\ n \in outstanding /\ outstanding' = outstanding \ {n} /\ round' = round
        /\ got' = [got EXCEPT ![n] = e] /\ got \in [Calls -> Results \cup {None}]
        /\ unrecorded' = unrecorded \cup {n} /\ events' = events
        /\ RoundOf[n] = round /\ round \in Nat
    BY <2>0 DEF Miss, Deliver, TypeOK, RoundCalls
  <2>2. got[n] = None
    BY <2>1 DEF LogInv
  <2>3. \A k \in DOMAIN events : events[k].call # n /\ events[k].call \in Calls
    BY <2>2, EventLemma DEF LogInv
  <2>4. \A m \in Calls : m # n => got'[m] = got[m] /\ (m \in unrecorded' <=> m \in unrecorded)
    BY <2>1
  <2>5. \A m \in Calls : m \in outstanding' \/ RoundOf[m] > round' =>
            m # n /\ (m \in outstanding \/ RoundOf[m] > round)
    BY <2>1
  <2>6. n \in unrecorded'
    BY <2>1
  <2>. QED BY <2>1, <2>3, <2>4, <2>5, <2>6 DEF LogInv, EventsOf, AsRecorded
<1>5. CASE MakeCalls
  <2>1. /\ round' = round + 1 /\ outstanding' = {n \in Calls : RoundOf[n] = round + 1}
        /\ UNCHANGED <<got, unrecorded, events>> /\ round \in Nat
    BY <1>5 DEF MakeCalls, RoundCalls, TypeOK
  <2>2. \A n \in Calls : n \in outstanding' \/ RoundOf[n] > round' => RoundOf[n] > round
    BY <2>1, CallsAssumption
  <2>. QED BY <2>1, <2>2 DEF LogInv, EventsOf, AsRecorded
<1>6. CASE UNCHANGED <<outstanding, round, got, unrecorded, events>>
  BY <1>6 DEF LogInv, EventsOf, AsRecorded
<1>7. UNCHANGED run \/ Succeed => UNCHANGED <<outstanding, round, got, unrecorded, events>>
  BY DEF run, Succeed
<1>8. ASSUME NEW p \in Replays, StartReplay(p) \/ Step(p) \/ EndReplay(p) PROVE UNCHANGED run
  BY <1>8 DEF StartReplay, Step, EndReplay
<1>. QED BY <1>3, <1>4, <1>5, <1>6, <1>7, <1>8 DEF Next, vars, Answered, Missed

LEMMA LogInvariant == Spec => [](TypeOK /\ LogInv)
<1>1. Init => LogInv
  BY DEF Init, LogInv, EventsOf
<1>. QED BY <1>1, TypeCorrect, LogStep, PTL DEF Spec

\* No call that has completed is missing from the ledger, is there twice, or is there with
\* another result than the agent got, also when the run has failed before it completed.
THEOREM LedgerIsExact == Spec => []LedgerMatchesCalls
<1>1. TypeOK /\ LogInv => LedgerMatchesCalls
  <2> SUFFICES ASSUME TypeOK, LogInv, NEW n \in Calls
               PROVE  /\ \A k \in EventsOf(n) : events[k].result = AsRecorded(got[n])
                      /\ Cardinality(EventsOf(n)) = IF got[n] = None \/ n \in unrecorded THEN 0 ELSE 1
    BY DEF LedgerMatchesCalls
  <2>1. \A k \in EventsOf(n) : events[k].result = AsRecorded(got[n])
    BY DEF LogInv, EventsOf
  <2>2. CASE got[n] = None \/ n \in unrecorded
    <3>1. EventsOf(n) = {}
      BY <2>2 DEF LogInv, EventsOf
    <3>. QED BY <2>1, <2>2, <3>1, FS_EmptySet
  <2>3. CASE ~ (got[n] = None \/ n \in unrecorded)
    <3>1. PICK k : k \in EventsOf(n)
      BY <2>3 DEF LogInv
    <3>2. EventsOf(n) = {k}
      BY <3>1 DEF LogInv, EventsOf
    <3>. QED BY <2>1, <2>3, <3>2, FS_Singleton
  <2>. QED BY <2>2, <2>3
<1>. QED BY <1>1, LogInvariant, PTL
-----------------------------------------------------------------------------
(* What a step does to the run, and to one replay.                         *)

LEMMA EndStep == TypeOK /\ LogInv /\ EndInv /\ [Next]_vars => EndInv'
<1> SUFFICES ASSUME TypeOK, LogInv, EndInv, [Next]_vars PROVE EndInv'
  OBVIOUS
<1>2. ASSUME NEW n \in Calls, NEW r, Deliver(n, r) PROVE EndInv'
  <2>1. /\ n \in outstanding /\ outstanding' = outstanding \ {n} /\ catches' = catches
        /\ got' = [got EXCEPT ![n] = r] /\ DOMAIN got = Calls /\ got[n] = None
        /\ runStatus' = IF r \in Errors \ catches /\ runStatus = "running"
                        THEN "failed" ELSE runStatus
    BY <1>2 DEF Deliver, TypeOK, LogInv, agent
  <2>2. None \notin Errors
    BY ValuesAssumption DEF Results
  <2>3. runStatus # "succeeded" /\ runStatus \in {"running", "succeeded", "failed"}
    BY <2>1 DEF EndInv, TypeOK
  <2>4. got'[n] = r /\ \A m \in Calls : m # n => got'[m] = got[m]
    BY <2>1
  <2>5. CASE runStatus = "failed"
    <3>1. PICK m \in Calls : got[m] \in Errors \ catches
      BY <2>5 DEF EndInv
    <3>2. got'[m] \in Errors \ catches
      BY <2>1, <2>2, <2>4, <3>1
    <3>. QED BY <2>1, <2>5, <3>2 DEF EndInv
  <2>6. CASE runStatus # "failed"
    BY <2>1, <2>3, <2>4, <2>6 DEF EndInv
  <2>. QED BY <2>5, <2>6
<1>3. CASE UNCHANGED <<agent, run>>
  BY <1>3 DEF EndInv, run, agent
<1>4. CASE MakeCalls \/ Succeed
  BY <1>4 DEF EndInv, MakeCalls, Succeed, agent
<1>5. ASSUME NEW n \in Calls, Answered(n) \/ Missed(n)
      PROVE  EndInv'
  BY <1>2, <1>5 DEF Answered, Missed, Return, Raise, Miss
<1>6. ASSUME NEW p \in Replays, StartReplay(p) \/ Step(p) \/ EndReplay(p)
      PROVE  UNCHANGED <<agent, run>>
  BY <1>6 DEF StartReplay, Step, EndReplay
<1>. QED BY <1>3, <1>4, <1>5, <1>6 DEF Next, vars, Answered, Missed

\* What is recorded stays, a run that has failed stays so, and nothing at all happens to one
\* that has succeeded.
LEMMA RunLemma ==
    ASSUME TypeOK, LogInv, EndInv, [Next]_vars
    PROVE  /\ agent' = agent
           /\ runStatus = "succeeded" => UNCHANGED run
           /\ runStatus = "failed" => runStatus' = "failed"
           /\ \A k \in DOMAIN events : k \in DOMAIN events' /\ events'[k] = events[k]
<1> DEFINE Goal == /\ agent' = agent
                   /\ runStatus = "succeeded" => UNCHANGED run
                   /\ runStatus = "failed" => runStatus' = "failed"
                   /\ \A k \in DOMAIN events : k \in DOMAIN events' /\ events'[k] = events[k]
<1>1. ASSUME NEW n \in Calls, NEW r, Deliver(n, r),
             events' = events \/ \E s \in Results : Record(n, s)
      PROVE  Goal
  <2>1. runStatus # "succeeded" /\ agent' = agent
        /\ (runStatus = "failed" => runStatus' = "failed")
    BY <1>1 DEF Deliver, EndInv
  <2>2. \A k \in DOMAIN events : k \in DOMAIN events' /\ events'[k] = events[k]
    BY <1>1, RecordLemma
  <2>. QED BY <2>1, <2>2
<1>2. ASSUME UNCHANGED <<agent, run>> PROVE Goal
  BY <1>2 DEF run
<1>3. ASSUME MakeCalls \/ Succeed PROVE Goal
  BY <1>3 DEF MakeCalls, Succeed
<1>4. ASSUME NEW n \in Calls, Answered(n) \/ Missed(n)
      PROVE  Goal
  <2>1. (\A e \in Errors : e \in Results) /\ \A v \in Values : Json[v] \in Results
    BY ValuesAssumption DEF Results
  <2>. QED BY <1>1, <1>4, <2>1 DEF Answered, Missed, Return, Raise, Miss
<1>5. ASSUME NEW p \in Replays, StartReplay(p) \/ Step(p) \/ EndReplay(p)
      PROVE  UNCHANGED <<agent, run>>
  BY <1>5 DEF StartReplay, Step, EndReplay
<1>6. UNCHANGED vars => UNCHANGED <<agent, run>>
  BY DEF vars
<1>. HIDE DEF Goal
<1>7. Goal
  <2>1. CASE UNCHANGED vars
    BY <1>2, <1>6, <2>1
  <2>2. CASE Next
    BY <1>2, <1>3, <1>4, <1>5, <2>2 DEF Next, Answered, Missed
  <2>. QED BY <2>1, <2>2
<1>. QED BY <1>7 DEF Goal

\* Replay p, as a whole.
Replay(p) == <<phase[p], basis[p], queue[p], next[p], replayed[p]>>

LEMMA ReplayLemma ==
    ASSUME TypeOK, [Next]_vars, NEW p \in Replays
    PROVE  UNCHANGED Replay(p) \/ StartReplay(p) \/ Step(p) \/ EndReplay(p)
<1>1. CASE UNCHANGED reps
  BY <1>1 DEF Replay, reps
<1>2. ASSUME NEW o \in Replays, o # p, StartReplay(o) \/ Step(o) \/ EndReplay(o)
      PROVE  UNCHANGED Replay(p)
  <2>1. CASE StartReplay(o)
    BY <1>2, <2>1 DEF StartReplay, Replay, TypeOK
  <2>2. CASE EndReplay(o)
    BY <1>2, <2>2 DEF EndReplay, Replay, TypeOK
  <2>3. CASE Step(o)
    <3>1. queue'[p] = queue[p] /\ basis' = basis
      BY <1>2, <2>3, StepLemma
    <3>2. phase'[p] = phase[p] /\ next'[p] = next[p] /\ replayed'[p] = replayed[p]
      <4>1. \/ \E r : Serve(o, next[o], r)
            \/ phase' = [phase EXCEPT ![o] = "raised"] /\ UNCHANGED <<next, replayed>>
        BY <2>3 DEF Step
      <4>. QED BY <1>2, <4>1 DEF Serve, TypeOK
    <3>. QED BY <3>1, <3>2 DEF Replay
  <2>. QED BY <1>2, <2>1, <2>2, <2>3
<1>3. ASSUME NEW n \in Calls, Answered(n) \/ Missed(n)
      PROVE  UNCHANGED reps
  BY <1>3 DEF Answered, Missed, Return, Raise, Miss, Deliver
<1>4. MakeCalls \/ Succeed \/ UNCHANGED vars => UNCHANGED reps
  BY DEF MakeCalls, Succeed, vars
<1>. QED BY <1>1, <1>2, <1>3, <1>4 DEF Next, Answered, Missed

\* A replay that has not started is at its first call, and one that has started after the
\* end of the run knows how it ended.
StartInv ==
    \A p \in Replays :
        /\ phase[p] = "idle" => next[p] = 1
        /\ phase[p] # "idle" /\ basis[p] \in {"succeeded", "failed"} => runStatus = basis[p]

LEMMA StartStep == TypeOK /\ LogInv /\ EndInv /\ StartInv /\ [Next]_vars => StartInv'
<1> SUFFICES ASSUME TypeOK, LogInv, EndInv, StartInv, [Next]_vars, NEW p \in Replays
             PROVE  /\ phase'[p] = "idle" => next'[p] = 1
                    /\ phase'[p] # "idle" /\ basis'[p] \in {"succeeded", "failed"}
                          => runStatus' = basis'[p]
  BY DEF StartInv
<1>1. runStatus \in {"succeeded", "failed"} => runStatus' = runStatus
  BY RunLemma DEF run
<1>2. CASE UNCHANGED Replay(p)
  BY <1>1, <1>2 DEF StartInv, Replay
<1>3. CASE StartReplay(p)
  BY <1>3 DEF StartReplay, TypeOK, run
<1>4. CASE Step(p)
  <2>1. phase[p] = "replaying" /\ basis' = basis /\ runStatus' = runStatus
    BY <1>4 DEF Step, run
  <2>2. phase'[p] # "idle"
    <3>1. \/ \E r : Serve(p, next[p], r) \/ phase' = [phase EXCEPT ![p] = "raised"]
      BY <1>4 DEF Step
    <3>. QED BY <2>1, <3>1 DEF Serve, TypeOK
  <2>. QED BY <2>1, <2>2 DEF StartInv
<1>5. CASE EndReplay(p)
  BY <1>5 DEF EndReplay, TypeOK, StartInv, run
<1>. QED BY <1>2, <1>3, <1>4, <1>5, ReplayLemma

LEMMA StartInvariant == Spec => [](TypeOK /\ LogInv /\ EndInv /\ StartInv)
<1>1. Init => EndInv /\ StartInv
  <2> SUFFICES ASSUME Init PROVE EndInv /\ StartInv
    OBVIOUS
  <2>. QED BY DEF Init, EndInv, StartInv
<1>. QED BY <1>1, LogInvariant, EndStep, StartStep, PTL DEF Spec
-----------------------------------------------------------------------------
(* Counting what is left.                                                  *)

\* The calls of a tool from n on.
Left(t, n) == {m \in Calls : ToolOf[m] = t /\ m >= n}

LEMMA CallsAreFinite ==
    ASSUME NEW L \in SUBSET Calls
    PROVE  IsFiniteSet(L) /\ Cardinality(L) \in Nat
<1>1. N \in Int
  BY CallsAssumption
<1>2. IsFiniteSet(Calls)
  BY <1>1, FS_Interval DEF Calls
<1>. QED BY <1>2, FS_Subset, FS_CardinalityType

LEMMA LeftLemma ==
    ASSUME NEW n \in Calls
    PROVE  /\ n \in Left(ToolOf[n], n)
           /\ Cardinality(Left(ToolOf[n], n + 1)) = Cardinality(Left(ToolOf[n], n)) - 1
           /\ \A t : t # ToolOf[n] => Left(t, n + 1) = Left(t, n)
           /\ \A t, m : Cardinality(Left(t, m)) \in Nat
<1>1. n \in Nat /\ \A m \in Calls : m \in Nat
  BY CallsAssumption DEF Calls
<1>0. \A m \in Calls : m >= n + 1 <=> m >= n /\ m # n
  BY <1>1
<1>2. n \in Left(ToolOf[n], n) /\ Left(ToolOf[n], n + 1) = Left(ToolOf[n], n) \ {n}
  <2>1. n >= n
    BY <1>1
  <2>. QED BY <1>0, <2>1 DEF Left
<1>3. \A t, m : Left(t, m) \in SUBSET Calls
  BY DEF Left
<1>4. Cardinality(Left(ToolOf[n], n + 1)) = Cardinality(Left(ToolOf[n], n)) - 1
  BY <1>2, <1>3, CallsAreFinite, FS_RemoveElement
<1>5. \A t : t # ToolOf[n] => Left(t, n + 1) = Left(t, n)
  BY <1>0 DEF Left
<1>. QED BY <1>2, <1>3, <1>4, <1>5, CallsAreFinite

LEMMA EventsAreFinite ==
    ASSUME TypeOK, NEW q \in SUBSET DOMAIN events
    PROVE  IsFiniteSet(q) /\ Cardinality(q) \in Nat
<1>1. DOMAIN events = 1..Len(events) /\ Len(events) \in Int
  BY DEF TypeOK
<1>2. IsFiniteSet(DOMAIN events)
  BY <1>1, FS_Interval
<1>. QED BY <1>2, FS_Subset, FS_CardinalityType

\* What is left of a queue that was not empty.
LEMMA RestLemma ==
    ASSUME TypeOK, NEW q \in SUBSET DOMAIN events, q # {}
    PROVE  /\ Oldest(q) \in q /\ Oldest(q) \in DOMAIN events
           /\ \A j \in q : Oldest(q) <= j
           /\ Rest(q) = q \ {Oldest(q)}
           /\ Cardinality(Rest(q)) = Cardinality(q) - 1
<1>1. DOMAIN events \in SUBSET Nat
  BY DEF TypeOK
<1>2. Oldest(q) \in q /\ \A j \in q : Oldest(q) <= j
  BY <1>1, OldestLemma
<1>3. Rest(q) = q \ {Oldest(q)}
  BY DEF Rest
<1>. QED BY <1>2, <1>3, EventsAreFinite, FS_RemoveElement

\* No two events are of one call: there are no more events than calls that they are of.
LEMMA EventsOfCalls ==
    ASSUME TypeOK, LogInv, NEW K \in SUBSET DOMAIN events, NEW L \in SUBSET Calls,
           \A k \in K : events[k].call \in L
    PROVE  /\ Cardinality(K) <= Cardinality(L)
           /\ (\A n \in L : \E k \in K : events[k].call = n) => Cardinality(K) = Cardinality(L)
<1> DEFINE f == [k \in K |-> events[k].call]
<1>1. f \in Injection(K, L)
  <2>1. f \in [K -> L]
    OBVIOUS
  <2>2. \A j, k \in K : f[j] = f[k] => j = k
    BY DEF LogInv
  <2>. QED BY <2>1, <2>2 DEF Injection, IsInjective
<1>2. ASSUME \A n \in L : \E k \in K : events[k].call = n
      PROVE  f \in Surjection(K, L)
  BY <1>1, <1>2 DEF Injection, Surjection
<1>3. IsFiniteSet(L)
  BY CallsAreFinite
<1>. HIDE DEF f
<1>. QED BY <1>1, <1>2, <1>3, FS_Injection

\* An event has an error only of a call that the agent got an exception from.
LEMMA ErrorLemma ==
    ASSUME TypeOK, LogInv, NEW k \in DOMAIN events
    PROVE  events[k].result \in Errors <=> got[events[k].call] \in Errors
<1>1. events[k].call \in Calls
  BY EventLemma
<1>2. got[events[k].call] \in Values \cup Errors
  BY <1>1 DEF TypeOK, LogInv, Results
<1>3. \A v \in Values : Json[v] \notin Errors /\ v \notin Errors
  BY ValuesAssumption
<1>. QED BY <1>2, <1>3 DEF LogInv, AsRecorded

-----------------------------------------------------------------------------
(* The replay of a run that succeeded and is completely recorded.          *)

\* The agent would not notice that an exception has become a ReplayError.
Tolerant == ReplayError \in catches \/ \A n \in Calls : got[n] \notin Errors

\* It has as many events of a tool as it has calls to answer, and raises nothing before the
\* agent proposes.
CountInv ==
    \A p \in Replays : basis[p] = "succeeded" /\ FullyRecorded /\ ~ proposes /\ Tolerant =>
        /\ phase[p] # "raised"
        /\ phase[p] = "replaying" =>
              \A t \in Tools : Cardinality(queue[p][t]) = Cardinality(Left(t, next[p]))

LEMMA CountStart ==
    ASSUME TypeOK, LogInv, FullyRecorded, NEW t \in Tools
    PROVE  Cardinality(Recorded(t)) = Cardinality(Left(t, 1))
<1>1. Recorded(t) \in SUBSET DOMAIN events /\ Left(t, 1) \in SUBSET Calls
  BY DEF Recorded, Left
<1>2. \A k \in Recorded(t) : events[k].call \in Left(t, 1)
  <2>1. \A n \in Calls : n >= 1
    BY CallsAssumption DEF Calls
  <2>. QED BY <2>1, EventLemma DEF Recorded, Left, LogInv
<1>3. \A n \in Left(t, 1) : \E k \in Recorded(t) : events[k].call = n
  BY DEF FullyRecorded, EventsOf, Left, Recorded, LogInv
<1>. QED BY <1>1, <1>2, <1>3, EventsOfCalls

\* While it has a call to answer, it has an event to answer it with.
LEMMA NotExhausted ==
    ASSUME TypeOK, LogInv, Tolerant, NEW p \in Replays, next[p] \in Calls, NEW t, t = ToolOf[next[p]], t \in Tools,
           Cardinality(queue[p][t]) = Cardinality(Left(t, next[p]))
    PROVE  queue[p][t] # {} /\ (Served(queue[p][t]) \/ ReplayError \in catches)
<1> DEFINE q == queue[p][t]
<1>1. q \in SUBSET DOMAIN events
  BY DEF TypeOK
<1>2. q # {}
  <2>1. Cardinality(Left(t, next[p])) - 1 \in Nat
    BY LeftLemma
  <2>2. Cardinality(q) # 0
    BY <2>1
  <2>3. Cardinality({}) = 0
    BY FS_EmptySet
  <2>. QED BY <2>2, <2>3
<1>3. Oldest(q) \in DOMAIN events
  BY <1>1, <1>2, RestLemma
<1>4. events[Oldest(q)].result \in Errors => ReplayError \in catches
  BY <1>3, EventLemma, ErrorLemma DEF Tolerant
<1>. QED BY <1>2, <1>4 DEF Served, First

LEMMA CountStep ==
    ASSUME TypeOK, LogInv, EndInv, StartInv, CountInv, [Next]_vars
    PROVE  CountInv'
<1> SUFFICES ASSUME NEW p \in Replays, basis'[p] = "succeeded", FullyRecorded',
                    ~ proposes', Tolerant'
             PROVE  /\ phase'[p] # "raised"
                    /\ phase'[p] = "replaying" =>
                          \A t \in Tools : Cardinality(queue'[p][t]) = Cardinality(Left(t, next'[p]))
  BY DEF CountInv, Left
<1>1. ~ proposes /\ (UNCHANGED run => FullyRecorded /\ Tolerant)
  BY RunLemma DEF run, agent, FullyRecorded, EventsOf, Tolerant
<1>2. CASE UNCHANGED Replay(p)
  <2>1. CASE phase[p] = "idle"
    BY <1>2, <2>1 DEF Replay
  <2>2. CASE phase[p] # "idle"
    <3>1. UNCHANGED run
      BY <1>2, <2>2, RunLemma DEF StartInv, Replay
    <3>. QED BY <1>1, <1>2, <3>1 DEF Replay, CountInv
  <2>. QED BY <2>1, <2>2
<1>3. CASE StartReplay(p)
  <2>1. /\ phase'[p] = "replaying" /\ next'[p] = 1 /\ UNCHANGED run
        /\ queue'[p] = [t \in Tools |-> Recorded(t)]
    BY <1>3 DEF StartReplay, TypeOK, StartInv
  <2>2. \A t \in Tools : queue'[p][t] = Recorded(t)
    BY <2>1
  <2>. QED BY <1>1, <2>1, <2>2, CountStart
<1>4. CASE Step(p)
  <2> DEFINE t == ToolOf[next[p]]
             q == queue[p][t]
  <2>1. /\ phase[p] = "replaying" /\ next[p] \in Calls /\ t \in Tools
        /\ UNCHANGED <<agent, run, basis>>
        /\ queue'[p][t] = Rest(q)
        /\ \A s \in Tools : s # t => queue'[p][s] = queue[p][s]
        /\ \/ \E r \in Answers : Serve(p, next[p], r)
           \/ ~ Served(q) /\ ReplayError \notin catches
    BY <1>4, StepLemma
  <2>2. basis[p] = "succeeded" /\ FullyRecorded /\ Tolerant
    BY <1>1, <2>1
  <2>3. \A s \in Tools : Cardinality(queue[p][s]) = Cardinality(Left(s, next[p]))
    BY <1>1, <2>1, <2>2 DEF CountInv
  <2>4. q # {} /\ (Served(q) \/ ReplayError \in catches)
    BY <2>1, <2>2, <2>3, NotExhausted
  <2>5. next'[p] = next[p] + 1 /\ phase' = phase
    BY <2>1, <2>4 DEF Serve, TypeOK
  <2>6. Cardinality(queue'[p][t]) = Cardinality(q) - 1
    <3>1. q \in SUBSET DOMAIN events
      BY <2>1 DEF TypeOK
    <3>. QED BY <2>1, <2>4, <3>1, RestLemma
  <2>7. Cardinality(queue'[p][t]) = Cardinality(Left(t, next'[p]))
    BY <2>1, <2>3, <2>5, <2>6, LeftLemma
  <2>8. \A s \in Tools : s # t => Cardinality(queue'[p][s]) = Cardinality(Left(s, next'[p]))
    BY <2>1, <2>3, <2>5, LeftLemma
  <2>. QED BY <2>1, <2>5, <2>7, <2>8
<1>5. CASE EndReplay(p)
  BY <1>1, <1>5 DEF EndReplay, TypeOK
<1>. QED BY <1>2, <1>3, <1>4, <1>5, ReplayLemma

\* A run that succeeded and lost no event can be replayed to a report, whatever order its
\* calls completed in, if its agent proposes no write and handles a ReplayError or has
\* nothing to handle; replay_report shows a run that cannot.
THEOREM SucceededRunsReplay == Spec => []SucceededReplays
<1>1. Init => CountInv
  BY DEF Init, CountInv
<1>2. TypeOK /\ LogInv /\ EndInv /\ StartInv /\ CountInv /\ [Next]_vars => CountInv'
  BY CountStep
<1>3. CountInv => SucceededReplays
  BY DEF CountInv, SucceededReplays, Tolerant
<1>. QED BY <1>1, <1>2, <1>3, StartInvariant, PTL DEF Spec
-----------------------------------------------------------------------------
(* The replay of a run that failed.                                        *)

\* The results in a queue: what is left of it without the errors.
Good(p, t) == {k \in queue[p][t] : events[k].result \notin Errors}

\* Of some tool it has fewer results than it has calls to answer, so it ends before it has
\* answered them all.
ShortInv ==
    \A p \in Replays : basis[p] = "failed" /\ ReplayError \notin catches =>
        /\ phase[p] # "reported"
        /\ phase[p] = "replaying" =>
              \E t \in Tools : Cardinality(Good(p, t)) < Cardinality(Left(t, next[p]))

\* The call that has ended the run gave no result.
LEMMA ShortStart ==
    ASSUME TypeOK, LogInv, EndInv, runStatus = "failed"
    PROVE  \E t \in Tools :
               Cardinality({k \in Recorded(t) : events[k].result \notin Errors}) < Cardinality(Left(t, 1))
<1>1. PICK n \in Calls : got[n] \in Errors
  BY DEF EndInv
<1> DEFINE t == ToolOf[n]
           K == {k \in Recorded(t) : events[k].result \notin Errors}
           L == Left(t, 1) \ {n}
<1>2. t \in Tools /\ \A m \in Calls : m >= 1
  BY CallsAssumption DEF Calls
<1>3. K \in SUBSET DOMAIN events /\ L \in SUBSET Calls /\ Left(t, 1) \in SUBSET Calls
      /\ n \in Left(t, 1)
  BY <1>2 DEF Recorded, Left
<1>4. ASSUME NEW k \in K PROVE events[k].call \in L
  <2>1. k \in DOMAIN events /\ events[k].tool = t /\ events[k].result \notin Errors
    BY DEF Recorded
  <2>2. events[k].call \in Calls /\ events[k].call # n /\ ToolOf[events[k].call] = t
    BY <1>1, <2>1, EventLemma, ErrorLemma DEF LogInv
  <2>. QED BY <1>2, <2>2 DEF Left
<1>. HIDE DEF K, L
<1>5. Cardinality(K) <= Cardinality(L) /\ Cardinality(K) \in Nat
  BY <1>3, <1>4, EventsOfCalls, EventsAreFinite
<1>6. Cardinality(L) = Cardinality(Left(t, 1)) - 1 /\ Cardinality(Left(t, 1)) \in Nat
  BY <1>3, CallsAreFinite, FS_RemoveElement DEF L
<1>7. Cardinality(K) < Cardinality(Left(t, 1))
  BY <1>5, <1>6
<1>. QED BY <1>2, <1>7 DEF K

LEMMA ShortStep ==
    ASSUME TypeOK, LogInv, EndInv, StartInv, ShortInv, [Next]_vars
    PROVE  ShortInv'
<1> SUFFICES ASSUME NEW p \in Replays, basis'[p] = "failed", ReplayError \notin catches'
             PROVE  /\ phase'[p] # "reported"
                    /\ phase'[p] = "replaying" =>
                          \E t \in Tools : Cardinality(Good(p, t)') < Cardinality(Left(t, next'[p]))
  BY DEF ShortInv, Good, Left
<1>0. ReplayError \notin catches
  BY RunLemma DEF agent
<1>1. CASE UNCHANGED Replay(p)
  <2>1. \A t \in Tools : \A k \in queue[p][t] : events'[k] = events[k]
    BY RunLemma DEF TypeOK
  <2>2. \A t \in Tools : Good(p, t)' = Good(p, t)
    BY <1>1, <2>1 DEF Good, Replay
  <2>. QED BY <1>0, <1>1, <2>2 DEF Replay, ShortInv
<1>2. CASE StartReplay(p)
  <2>1. /\ phase'[p] = "replaying" /\ next'[p] = 1 /\ UNCHANGED run
        /\ queue'[p] = [t \in Tools |-> Recorded(t)] /\ runStatus = "failed"
    BY <1>2 DEF StartReplay, TypeOK, StartInv
  <2>2. \A t \in Tools : Good(p, t)' = {k \in Recorded(t) : events[k].result \notin Errors}
    BY <2>1 DEF Good, run
  <2>. QED BY <2>1, <2>2, ShortStart
<1>3. CASE Step(p)
  <2>0. PICK t : t = ToolOf[next[p]]
    OBVIOUS
  <2> DEFINE q == queue[p][t]
  <2>1. /\ phase[p] = "replaying" /\ next[p] \in Calls /\ t \in Tools
        /\ UNCHANGED <<agent, run, basis>>
        /\ queue'[p][t] = Rest(q)
        /\ \A s \in Tools : s # t => queue'[p][s] = queue[p][s]
        /\ \/ \E r \in Answers : Serve(p, next[p], r) /\ (Served(q) \/ ReplayError \in catches)
           \/ phase' = [phase EXCEPT ![p] = "raised"]
    BY <1>3, <2>0, StepLemma
  <2>2. basis[p] = "failed" /\ ReplayError \notin catches
    BY <1>0, <2>1
  <2>3. CASE phase' = [phase EXCEPT ![p] = "raised"]
    BY <2>3 DEF TypeOK
  <2>4. ASSUME NEW r \in Answers, Serve(p, next[p], r), Served(q)
        PROVE  /\ phase'[p] # "reported"
               /\ \E s \in Tools : Cardinality(Good(p, s)') < Cardinality(Left(s, next'[p]))
    <3>1. next'[p] = next[p] + 1 /\ phase' = phase
      BY <2>4 DEF Serve, TypeOK
    <3>2. PICK s \in Tools : Cardinality(Good(p, s)) < Cardinality(Left(s, next[p]))
      BY <2>1, <2>2 DEF ShortInv
    <3>3. events' = events
      BY <2>1 DEF run
    <3>4. CASE s # t
      <4>1. Good(p, s)' = Good(p, s)
        BY <2>1, <3>3, <3>4 DEF Good
      <4>. QED BY <2>0, <2>1, <3>1, <3>2, <3>4, <4>1, LeftLemma
    <3>5. CASE s = t
      <4>1. q \in SUBSET DOMAIN events /\ Good(p, t) \in SUBSET DOMAIN events
        BY <2>1 DEF TypeOK, Good
      <4>2. q # {} /\ events[Oldest(q)].result \notin Errors
        BY <2>4 DEF Served, First
      <4>3. Rest(q) = q \ {Oldest(q)} /\ Oldest(q) \in q
        BY <4>1, <4>2, RestLemma
      <4>4. Good(p, t)' = Good(p, t) \ {Oldest(q)} /\ Oldest(q) \in Good(p, t)
        BY <2>1, <3>3, <4>2, <4>3 DEF Good
      <4>5. /\ Cardinality(Good(p, t)') = Cardinality(Good(p, t)) - 1
            /\ Cardinality(Good(p, t)) \in Nat
        BY <4>1, <4>4, EventsAreFinite, FS_RemoveElement
      <4>6. /\ Cardinality(Left(t, next[p] + 1)) = Cardinality(Left(t, next[p])) - 1
            /\ Cardinality(Left(t, next[p])) \in Nat
        BY <2>0, <2>1, LeftLemma
      <4>7. Cardinality(Good(p, t)') < Cardinality(Left(t, next'[p]))
        BY <3>1, <3>2, <3>5, <4>5, <4>6
      <4>. QED BY <2>1, <3>1, <4>7
    <3>. QED BY <3>4, <3>5
  <2>. QED BY <2>1, <2>2, <2>3, <2>4
<1>4. CASE EndReplay(p)
  <2>1. phase[p] = "replaying" /\ next[p] \notin Calls /\ basis[p] = "failed"
    BY <1>4 DEF EndReplay
  <2>2. PICK t \in Tools : Cardinality(Good(p, t)) < Cardinality(Left(t, next[p]))
    BY <1>0, <2>1 DEF ShortInv
  <2>3. \A m \in Calls : ~ (m >= next[p])
    BY <2>1, CallsAssumption DEF TypeOK, Calls
  <2>4. Left(t, next[p]) = {}
    BY <2>3 DEF Left
  <2>5. Cardinality(Good(p, t)) < 0
    BY <2>2, <2>4, FS_EmptySet
  <2>6. Good(p, t) \in SUBSET DOMAIN events
    BY DEF TypeOK, Good
  <2>7. Cardinality(Good(p, t)) \in Nat
    BY <2>6, EventsAreFinite
  <2>. QED BY <2>5, <2>7
<1>. QED BY <1>1, <1>2, <1>3, <1>4, ReplayLemma

\* The replay of a failed run never makes up a report: not when the call that ended it left
\* no event, and not when calls of its round were recorded after its end.
THEOREM FailedRunsNeverReport == Spec => []FailedNeverReports
<1>1. Init => ShortInv
  BY DEF Init, ShortInv
<1>2. TypeOK /\ LogInv /\ EndInv /\ StartInv /\ ShortInv /\ [Next]_vars => ShortInv'
  BY ShortStep
<1>3. ShortInv => FailedNeverReports
  BY DEF ShortInv, FailedNeverReports
<1>. QED BY <1>1, <1>2, <1>3, StartInvariant, PTL DEF Spec
-----------------------------------------------------------------------------
(* The answers of a replay.                                                *)

\* Calls that go out together use different tools.
Apart == \A m, n \in Calls : m # n /\ RoundOf[m] = RoundOf[n] => ToolOf[m] # ToolOf[n]

\* The queues hold the events of the calls from next[p] on, and the calls before it have
\* their answers.
OrderInv ==
    \A p \in Replays :
        phase[p] \in {"replaying", "reported"} /\ basis[p] = "succeeded" /\ FullyRecorded =>
            /\ \A t \in Tools : \A k \in DOMAIN events :
                  k \in queue[p][t] <=> events[k].tool = t /\ events[k].call >= next[p]
            /\ \A n \in Calls : n < next[p] => replayed[p][n] = AsReplayed(got[n])
            /\ phase[p] = "reported" => next[p] \notin Calls

\* Events of one tool are then in the order of their calls.
LEMMA ToolOrder ==
    ASSUME Apart, TypeOK, LogInv, NEW j \in DOMAIN events, NEW k \in DOMAIN events,
           events[j].tool = events[k].tool, j < k
    PROVE  events[j].call < events[k].call
<1> DEFINE m == events[j].call
           n == events[k].call
<1>1. m \in Calls /\ n \in Calls /\ j \in Nat /\ k \in Nat
  BY EventLemma DEF TypeOK
<1>2. m # n /\ RoundOf[m] <= RoundOf[n] /\ ToolOf[m] = ToolOf[n]
  BY <1>1 DEF LogInv
<1>3. RoundOf[m] # RoundOf[n]
  BY <1>1, <1>2 DEF Apart
<1>4. RoundOf[m] \in Nat /\ RoundOf[n] \in Nat /\ m \in Nat /\ n \in Nat
  <2>1. RoundOf[m] \in 1..N /\ RoundOf[n] \in 1..N
    BY <1>1, CallsAssumption
  <2>. QED BY <1>1, <2>1 DEF Calls
<1>5. n <= m => RoundOf[n] <= RoundOf[m]
  BY <1>1, CallsAssumption
<1>. QED BY <1>2, <1>3, <1>4, <1>5

\* The oldest event left of the tool of the next call is the event of that call.
LEMMA NextEvent ==
    ASSUME Apart, TypeOK, LogInv, FullyRecorded, NEW p \in Replays, next[p] \in Calls,
           NEW t, t = ToolOf[next[p]], t \in Tools,
           \A k \in DOMAIN events :
               k \in queue[p][t] <=> events[k].tool = t /\ events[k].call >= next[p]
    PROVE  /\ queue[p][t] # {}
           /\ events[Oldest(queue[p][t])].call = next[p]
           /\ First(queue[p][t]) = AsRecorded(got[next[p]])
<1> DEFINE q == queue[p][t]
           o == Oldest(q)
<1>1. PICK k \in DOMAIN events : events[k].call = next[p]
  BY DEF FullyRecorded, EventsOf
<1>2. next[p] \in Nat /\ DOMAIN events \in SUBSET Nat
  BY DEF TypeOK
<1>3. events[k].tool = t
  BY <1>1 DEF LogInv
<1>4. k \in q
  BY <1>1, <1>2, <1>3
<1>5. q \in SUBSET DOMAIN events
  BY DEF TypeOK
<1>6. o \in q /\ o \in DOMAIN events /\ o <= k
  BY <1>4, <1>5, RestLemma
<1>7. events[o].tool = t /\ events[o].call >= next[p] /\ events[o].call \in Nat
  BY <1>6, EventLemma, CallsAssumption DEF Calls
<1>8. ~ (o < k)
  <2>1. o < k => events[o].call < events[k].call
    BY <1>1, <1>3, <1>6, <1>7, ToolOrder
  <2>. QED BY <1>1, <1>2, <1>7, <2>1
<1>9. o = k
  BY <1>1, <1>2, <1>6, <1>8
<1>. QED BY <1>1, <1>4, <1>9 DEF LogInv, First

\* Every call of a completely recorded run has given a value or an exception.
LEMMA GotLemma ==
    ASSUME TypeOK, LogInv, FullyRecorded, NEW n \in Calls
    PROVE  got[n] \in Values \cup Errors
<1>1. PICK k \in DOMAIN events : events[k].call = n
  BY DEF FullyRecorded, EventsOf
<1>2. got[n] # None
  BY <1>1 DEF LogInv
<1>. QED BY <1>2 DEF TypeOK, Results

LEMMA OrderStep ==
    ASSUME Apart, TypeOK, LogInv, EndInv, StartInv, OrderInv, [Next]_vars
    PROVE  OrderInv'
<1> SUFFICES ASSUME NEW p \in Replays, phase'[p] \in {"replaying", "reported"},
                    basis'[p] = "succeeded", FullyRecorded'
             PROVE  /\ \A t \in Tools : \A k \in DOMAIN events' :
                          k \in queue'[p][t] <=> events'[k].tool = t /\ events'[k].call >= next'[p]
                    /\ \A n \in Calls : n < next'[p] => replayed'[p][n] = AsReplayed(got'[n])
                    /\ phase'[p] = "reported" => next'[p] \notin Calls
  BY DEF OrderInv, AsReplayed
<1>1. UNCHANGED run => FullyRecorded /\ events' = events /\ got' = got
  BY DEF run, FullyRecorded, EventsOf
<1>2. CASE UNCHANGED Replay(p)
  <2>1. UNCHANGED run
    BY <1>2, RunLemma DEF StartInv, Replay
  <2>. QED BY <1>1, <1>2, <2>1 DEF Replay, OrderInv
<1>3. CASE StartReplay(p)
  <2>1. /\ phase'[p] = "replaying" /\ next'[p] = 1 /\ UNCHANGED run
        /\ queue'[p] = [t \in Tools |-> Recorded(t)]
    BY <1>3 DEF StartReplay, TypeOK, StartInv
  <2>2. \A n \in Calls : n >= 1 /\ ~ (n < 1)
    BY CallsAssumption DEF Calls
  <2>3. \A t \in Tools : \A k \in DOMAIN events :
            k \in queue'[p][t] <=> events[k].tool = t /\ events[k].call >= 1
    BY <2>1, <2>2, EventLemma DEF Recorded
  <2>. QED BY <1>1, <2>1, <2>2, <2>3
<1>4. CASE Step(p)
  <2> DEFINE n == next[p]
             t == ToolOf[n]
             q == queue[p][t]
  <2>1. /\ phase[p] = "replaying" /\ n \in Calls /\ t \in Tools
        /\ UNCHANGED <<agent, run, basis>>
        /\ queue'[p][t] = Rest(q)
        /\ \A s \in Tools : s # t => queue'[p][s] = queue[p][s]
    BY <1>4, StepLemma
  <2>2. FullyRecorded /\ events' = events /\ got' = got /\ basis[p] = "succeeded"
    BY <1>1, <2>1
  <2>3. /\ \A s \in Tools : \A k \in DOMAIN events :
              k \in queue[p][s] <=> events[k].tool = s /\ events[k].call >= n
        /\ \A m \in Calls : m < n => replayed[p][m] = AsReplayed(got[m])
    BY <2>1, <2>2 DEF OrderInv
  <2>4. q # {} /\ events[Oldest(q)].call = n /\ First(q) = AsRecorded(got[n])
    BY <2>1, <2>2, <2>3, NextEvent
  <2>5. PICK r \in Answers :
            /\ Serve(p, n, r)
            /\ \/ Served(q) /\ r = First(q)
               \/ ~ Served(q) /\ ReplayError \in catches /\ r = ReplayError
    <3>1. \/ \E r \in Answers :
                /\ Serve(p, n, r)
                /\ \/ Served(q) /\ r = First(q)
                   \/ ~ Served(q) /\ ReplayError \in catches /\ r = ReplayError
          \/ /\ ~ Served(q) /\ ReplayError \notin catches
             /\ phase' = [phase EXCEPT ![p] = "raised"]
             /\ UNCHANGED <<next, replayed>>
      BY <1>4, StepLemma
    <3>2. phase' # [phase EXCEPT ![p] = "raised"]
      BY DEF TypeOK
    <3>. QED BY <3>1, <3>2
  <2>6. r = AsReplayed(got[n])
    <3>1. got[n] \in Values \cup Errors
      BY <2>1, <2>2, GotLemma
    <3>2. \A v \in Values : Json[v] \notin Errors /\ v \notin Errors
      BY ValuesAssumption
    <3>3. CASE got[n] \in Values
      <4>1. First(q) = Json[got[n]] /\ First(q) \notin Errors
        BY <2>4, <3>2, <3>3 DEF AsRecorded
      <4>. QED BY <2>4, <2>5, <3>3, <4>1 DEF Served, AsReplayed
    <3>4. CASE got[n] \in Errors
      <4>1. First(q) = got[n] /\ got[n] \notin Values
        BY <2>4, <3>2, <3>4 DEF AsRecorded
      <4>. QED BY <2>4, <2>5, <3>4, <4>1 DEF Served, AsReplayed
    <3>. QED BY <3>1, <3>3, <3>4
  <2>7. /\ next'[p] = n + 1 /\ phase'[p] = "replaying"
        /\ replayed'[p][n] = r
        /\ \A m \in Calls : m # n => replayed'[p][m] = replayed[p][m]
    BY <2>1, <2>5 DEF Serve, TypeOK
  <2>8. \A m \in Calls : m < n + 1 => m < n \/ m = n
    BY <2>1, CallsAssumption DEF Calls
  <2>9. ASSUME NEW s \in Tools, NEW k \in DOMAIN events
        PROVE  k \in queue'[p][s] <=> events[k].tool = s /\ events[k].call >= n + 1
    <3>1. /\ events[k].call \in Nat /\ n \in Nat
          /\ events[k].tool = ToolOf[events[k].call]
      <4>1. events[k].call \in Calls
        BY EventLemma
      <4>2. events[k].tool = ToolOf[events[k].call]
        BY DEF LogInv
      <4>. QED BY <2>1, <4>1, <4>2, CallsAssumption DEF Calls
    <3>2. events[k].call >= n + 1 <=> events[k].call >= n /\ events[k].call # n
      BY <3>1
    <3>3. CASE s # t
      BY <2>1, <2>3, <3>1, <3>2, <3>3
    <3>4. CASE s = t
      <4>1. q \in SUBSET DOMAIN events
        BY <2>1 DEF TypeOK
      <4>2. Rest(q) = q \ {Oldest(q)} /\ Oldest(q) \in DOMAIN events
        BY <2>4, <4>1, RestLemma
      <4>3. events[k].call = n <=> k = Oldest(q)
        BY <2>4, <4>2 DEF LogInv
      <4>. QED BY <2>1, <2>3, <3>2, <3>4, <4>2, <4>3
    <3>. QED BY <3>3, <3>4
  <2>. QED BY <2>2, <2>3, <2>6, <2>7, <2>8, <2>9
<1>5. CASE EndReplay(p)
  <2>1. phase[p] = "replaying" /\ next[p] \notin Calls /\ UNCHANGED <<run, basis, queue, next, replayed>>
    BY <1>5 DEF EndReplay
  <2>. QED BY <1>1, <2>1 DEF OrderInv
<1>. QED BY <1>2, <1>3, <1>4, <1>5, ReplayLemma

\* A report of a replay comes from the answers of the run: true when calls that go out
\* together use different tools; replay_overlap shows what happens when they do not.
THEOREM ReplaysAreFaithful ==
    ASSUME Apart
    PROVE  Spec => []ReplayFaithful
<1>1. Init => OrderInv
  BY DEF Init, OrderInv
<1>2. TypeOK /\ LogInv /\ EndInv /\ StartInv /\ OrderInv /\ [Next]_vars => OrderInv'
  BY OrderStep
<1>3. TypeOK /\ OrderInv => ReplayFaithful
  <2> SUFFICES ASSUME TypeOK, OrderInv, NEW p \in Replays, phase[p] = "reported",
                      basis[p] = "succeeded", FullyRecorded, NEW n \in Calls
               PROVE  replayed[p][n] = AsReplayed(got[n])
    BY DEF ReplayFaithful
  <2>1. next[p] \notin Calls
    BY DEF OrderInv
  <2>2. n < next[p]
    BY <2>1, CallsAssumption DEF TypeOK, Calls
  <2>. QED BY <2>2 DEF OrderInv
<1>. QED BY <1>1, <1>2, <1>3, StartInvariant, PTL DEF Spec
=============================================================================
