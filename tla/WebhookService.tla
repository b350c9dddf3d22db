--------------------------- MODULE WebhookService ---------------------------
(***************************************************************************)
(* The webhook endpoint of create_api in front of the pipeline.            *)
(*                                                                         *)
(* A source delivers a body, and delivers it again when it is not content  *)
(* with the answer or does not get it; others may send what they made of   *)
(* it.  Each attempt is handled on its own: verify, extract the events,    *)
(* and await engine.run for every event that has a binding, one after the  *)
(* other.  Nothing is remembered of an earlier attempt: all runs are       *)
(* started again, and only the idempotency keys stand between a redelivery *)
(* and a second write.                                                     *)
(***************************************************************************)
EXTENDS WritePipeline, WebhookVerification

CONSTANTS
    Deliveries,   \* what is delivered
    Attempts,     \* <<delivery, how often>>; finite, which bounds the redeliveries
    Incoming,     \* Incoming[a]: the requests of which attempt a may be one
    EventsOf,     \* the types of the events of <<source, body>>, if it can be extracted
    Bindings,     \* <<source, event type>> with a task factory
    RunsOf        \* RunsOf[a]: the run of each event with a binding, by its place in the body

IsBound(q, n) == <<q.source, EventsOf[<<q.source, q.body>>][n]>> \in Bindings

ASSUME AttemptsAssumption ==
    /\ Attempts \subseteq Deliveries \X (Nat \ {0})
    /\ \A a \in Attempts : a[2] > 1 => <<a[1], a[2] - 1>> \in Attempts
    /\ \A a \in Attempts : \A n \in DOMAIN RunsOf[a] : n \in Nat \ {0} /\ RunsOf[a][n] \in Runs
    /\ \A a, b \in Attempts : \A m \in DOMAIN RunsOf[a], n \in DOMAIN RunsOf[b] :
          RunsOf[a][m] = RunsOf[b][n] => a = b /\ m = n

\* The requests of an attempt that have events have the same ones.
ASSUME IncomingAssumption ==
    /\ \A e \in DOMAIN EventsOf : e[1] = "stripe" => Len(EventsOf[e]) = 1
    /\ \A a \in Attempts : None \notin Incoming[a] /\ \A q \in Incoming[a] : q.at \in Int
    /\ \A a \in Attempts : \A q \in Incoming[a] :
          <<q.source, q.body>> \in DOMAIN EventsOf =>
              DOMAIN RunsOf[a] = {n \in DOMAIN EventsOf[<<q.source, q.body>>] : IsBound(q, n)}

\* Of an attempt without an answer.
ASSUME CodeAssumption == None \notin {200, 202, 401, 404, 500}

VARIABLES
    handling,  \* where the handler of each attempt is
    request,   \* the request of each attempt, once it was received
    cursor,    \* cursor[a]: the event of a that dispatch is at
    code       \* the HTTP status it was answered with

service     == <<handling, request, cursor, code>>
serviceVars == <<vars, service>>

Verdicts == {"unknown", "unverified", "unreadable", "verified"}

\* Mutant of Refusal: what is unreadable gets the status of a body that FastAPI refuses.
RefusalAsInvalid == [v \in Verdicts \ {"verified"} |->
    CASE v = "unknown" -> 404 [] v = "unverified" -> 401 [] v = "unreadable" -> 422]

\* The status of a request that is not dispatched.  Only WebhookVerificationError becomes
\* a 401; other exceptions of verify and extract_events are a 500.
Refusal == [v \in Verdicts \ {"verified"} |->
    CASE v = "unknown" -> 404 [] v = "unverified" -> 401 [] v = "unreadable" -> 500]

RunAt(a) == RunsOf[a][cursor[a]]

Dispatching(a) ==
    /\ turn = None
    /\ handling[a] = "dispatching"

AtEvent(a) == Dispatching(a) /\ cursor[a] \in DOMAIN RunsOf[a]

\* The first event from place n on that has a binding; dispatch passes over the others.
Seek(a, n) ==
    IF \E m \in DOMAIN RunsOf[a] : m >= n
    THEN CHOOSE m \in DOMAIN RunsOf[a] : m >= n /\ \A k \in DOMAIN RunsOf[a] : k >= n => m <= k
    ELSE 0

Reply(a, c) ==
    /\ handling' = [handling EXCEPT ![a] = "answered"]
    /\ code' = [code EXCEPT ![a] = c]

ServiceInit ==
    /\ Init
    /\ handling = [a \in Attempts |-> "away"]
    /\ request = [a \in Attempts |-> None]
    /\ cursor = [a \in Attempts |-> 0]
    /\ code = [a \in Attempts |-> None]

-----------------------------------------------------------------------------
\* A source sends a body again after any answer: it may be the answer that got lost.
Sends(a) ==
    /\ handling[a] = "away"
    /\ a[2] > 1 => handling[<<a[1], a[2] - 1>>] = "answered"

\* receive_webhook up to dispatch.  A body of which one event cannot be extracted gives none.
Receive(a) ==
    /\ turn = None
    /\ Sends(a)
    /\ \E q \in Incoming[a] :
          /\ request' = [request EXCEPT ![a] = q]
          /\ \/ /\ Outcome(q) = "verified" /\ <<q.source, q.body>> \in DOMAIN EventsOf
                /\ handling' = [handling EXCEPT ![a] = "dispatching"]
                /\ cursor' = [cursor EXCEPT ![a] = Seek(a, 1)]
                /\ UNCHANGED code
             \/ /\ Outcome(q) = "verified" /\ <<q.source, q.body>> \notin DOMAIN EventsOf
                /\ Reply(a, Refusal["unreadable"])
                /\ UNCHANGED cursor
             \/ /\ Outcome(q) # "verified"
                /\ Reply(a, Refusal[Outcome(q)])
                /\ UNCHANGED cursor
    /\ UNCHANGED vars

\* Mutant of StartEvent: the events are dispatched in a gather.
StartAnyEvent(a) ==
    /\ AtEvent(a)
    /\ \E n \in DOMAIN RunsOf[a] : StartRun(RunsOf[a][n])
    /\ UNCHANGED service

\* dispatch awaits engine.run for the event.
StartEvent(a) ==
    /\ AtEvent(a)
    /\ StartRun(RunAt(a))
    /\ UNCHANGED service

\* The task factory raises, or engine.run does before it ledgers the run: stale data, or
\* no agent for the task.
EventRefused(a) ==
    /\ AtEvent(a)
    /\ pc[RunAt(a)] = "idle"
    /\ Reply(a, 500)
    /\ UNCHANGED <<vars, request, cursor>>

RunReturned(a) ==
    /\ AtEvent(a)
    /\ pc[RunAt(a)] = "done"
    /\ runStatus[RunAt(a)] = "succeeded"
    /\ cursor' = [cursor EXCEPT ![a] = Seek(a, @ + 1)]
    /\ UNCHANGED <<vars, handling, request, code>>

\* Mutant of RunRaised: dispatch goes on with the next event.
RunRaisedIgnored(a) ==
    /\ AtEvent(a)
    /\ pc[RunAt(a)] = "done"
    /\ runStatus[RunAt(a)] # "succeeded"
    /\ cursor' = [cursor EXCEPT ![a] = Seek(a, @ + 1)]
    /\ UNCHANGED <<vars, handling, request, code>>

\* Mutant of RunRaised: the outcome is taken from the ledger.
RunRaisedIfFailed(a) ==
    /\ AtEvent(a)
    /\ pc[RunAt(a)] = "done"
    /\ runStatus[RunAt(a)] = "failed"
    /\ Reply(a, 500)
    /\ UNCHANGED <<vars, request, cursor>>

\* engine.run raises: later events of the body are not looked at.
RunRaised(a) ==
    /\ AtEvent(a)
    /\ pc[RunAt(a)] = "done"
    /\ runStatus[RunAt(a)] # "succeeded"
    /\ Reply(a, 500)
    /\ UNCHANGED <<vars, request, cursor>>

\* 200 with the run ids, or 202 if no event had a binding.
Acknowledge(a) ==
    /\ Dispatching(a)
    /\ cursor[a] \notin DOMAIN RunsOf[a]
    /\ Reply(a, IF DOMAIN RunsOf[a] = {} THEN 202 ELSE 200)
    /\ UNCHANGED <<vars, request, cursor>>

-----------------------------------------------------------------------------
Dispatch(a) ==
    StartEvent(a) \/ EventRefused(a) \/ RunReturned(a) \/ RunRaised(a) \/ Acknowledge(a)

Dispatched == UNION {{RunsOf[a][n] : n \in DOMAIN RunsOf[a]} : a \in Attempts}

\* The engine goes on, and takes the other calls of its API.
EngineStep ==
    \/ \E r \in Runs \ Dispatched : StartRun(r)
    \/ \E r \in Runs : RunStep(r)
    \/ \E c \in Approvals, i \in Intents : Approve(c, i)
    \/ \E i \in Intents : RejectIntent(i)
    \/ \E t \in Tasks : Answer(t) \/ Cancel(t)
    \/ \E t \in Tasks, i \in Intents : Land(t, i)

ServiceNext ==
    \/ \E a \in Attempts : Receive(a) \/ Dispatch(a)
    \/ EngineStep /\ UNCHANGED service

ServiceSpec == ServiceInit /\ [][ServiceNext]_serviceVars

\* Besides the fairness of the pipeline, a handler that can go on does.  No source has to
\* deliver anything.
FairServiceSpec ==
    /\ ServiceSpec
    /\ Fairness
    /\ \A a \in Attempts : WF_serviceVars(Dispatch(a))
-----------------------------------------------------------------------------
(* Properties.                                                             *)

\* Shape of the state: an attempt has a request once received, and a status once answered;
\* dispatch is at an event with a binding or past the last.
ServiceTypeOK ==
    /\ handling \in [Attempts -> {"away", "dispatching", "answered"}]
    /\ code \in [Attempts -> {200, 202, 401, 404, 500, None}]
    /\ \A a \in Attempts :
          /\ request[a] \in Incoming[a] \cup {None}
          /\ cursor[a] \in DOMAIN RunsOf[a] \cup {0}
          /\ request[a] = None <=> handling[a] = "away"
          /\ code[a] = None <=> handling[a] # "answered"

\* A source that got its 200 or 202 need not deliver again: every event of the body that
\* has a binding was run to its end, and the intents of these runs are in the ledger.
AcknowledgedIsDone ==
    \A a \in Attempts : code[a] \in {200, 202} =>
        \A n \in DOMAIN RunsOf[a] :
            /\ runStatus[RunsOf[a][n]] = "succeeded"
            /\ ProposedBy(RunsOf[a][n]) \subseteq ledgered

\* The events of a body are run in their order, and none after one that failed.
EventsInOrder ==
    \A a \in Attempts : \A m, n \in DOMAIN RunsOf[a] :
        m < n /\ runStatus[RunsOf[a][n]] # "none" => runStatus[RunsOf[a][m]] = "succeeded"

\* "Unsigned or tampered payloads are rejected with 401, never processed": what a webhook
\* run has ledgered or sent to the remote system comes from a request that the source has
\* signed, for this body and not long ago.  Any other request is answered at once, with 401
\* unless its source is unknown or it makes verify raise something else: a timestamp that is
\* no number, a Stripe body that is not UTF-8 and a signature that is not ASCII get a 500.
AuthenticOnly ==
    /\ \A a \in Attempts : \A n \in DOMAIN RunsOf[a] :
          runStatus[RunsOf[a][n]] # "none" \/ SentOf(RunsOf[a][n]) # {} =>
              request[a] # None /\ Authentic(request[a])
    /\ \A a \in Attempts : request[a] # None /\ ~ Authentic(request[a]) =>
          \/ code[a] = 401
          \/ code[a] = 404 /\ ~ Known(request[a])
          \/ code[a] = 500 /\ Unreadable(request[a])

\* A handler that has started to dispatch answers, whatever its runs end with.
EveryAttemptAnswered ==
    \A a \in Attempts : handling[a] = "dispatching" ~> handling[a] = "answered"
=============================================================================
