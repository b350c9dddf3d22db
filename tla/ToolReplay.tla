----------------------------- MODULE ToolReplay -----------------------------
(***************************************************************************)
(* The tool calls of one run, their recording, and replays of the run.     *)
(*                                                                         *)
(* Live, the agent makes its calls in rounds: a round is what it awaits    *)
(* together (one call, or several in a gather or in one model response).   *)
(* RecordingToolProxy ledgers a call when it completes, so the ledger has  *)
(* the order of completion.  A replay takes the events the ledger has, in  *)
(* a queue per tool, and serves them to the calls in the order in which    *)
(* the agent makes them.  Call n is the n-th that the agent makes; which   *)
(* ones it makes does not depend on their answers, so a replay makes the   *)
(* same ones.  Events have the order of their seq and are never changed,   *)
(* so a queue is the set of the seqs that were not served from it.         *)
(*                                                                         *)
(* An exception is modelled by its class.  What the run got from its tools *)
(* has the class that the tool raised; a replay has only the repr of it    *)
(* and raises a ReplayError, a RevOpsError that an agent may handle or not *)
(* whatever it does about the others.                                      *)
(***************************************************************************)
EXTENDS Integers, Sequences, FiniteSets

CONSTANTS
    N,          \* number of tool calls of the agent
    Tools,      \* a tool method of a role
    ToolOf,     \* the one that each call uses
    RoundOf,    \* the round of each call
    Values,     \* what tools return
    Json,       \* Json[v]: v after json.dumps(default=str) and json.loads
    Replays,    \* calls of engine.replay
    Errors,     \* classes of the exceptions that the run's calls raise
    ReplayError,\* what a replay raises instead
    None        \* no value yet

Calls == 1..N

Results == Values \cup Errors

Answers == Values \cup {ReplayError}

ASSUME CallsAssumption ==
    /\ N \in Nat
    /\ ToolOf \in [Calls -> Tools]
    /\ RoundOf \in [Calls -> 1..N]
    /\ \A m, n \in Calls : m <= n => RoundOf[m] <= RoundOf[n]
    /\ \A n \in Calls : \A k \in 1..RoundOf[n] : \E m \in Calls : RoundOf[m] = k

ASSUME ValuesAssumption ==
    /\ Values \cap Errors = {} /\ ReplayError \notin Results
    /\ None \notin Results \cup Answers
    /\ Json \in [Values -> Values]
    /\ \A v \in Values : Json[Json[v]] = Json[v]

VARIABLES
    catches,     \* classes of exceptions of its tool calls that the agent handles
    proposes,    \* does the agent propose a write at its end?
    runStatus,   \* ledger: status of the run
    round,       \* the round the run is in
    outstanding, \* calls made and not completed
    got,         \* got[n]: what call n gave the agent
    unrecorded,  \* calls that completed without an event (history)
    events,      \* ledger: the recorded calls of the run, by seq
    phase,       \* phase[p]: where replay p is
    basis,       \* basis[p]: status of the run when p took its events (history)
    queue,       \* queue[p][t]: seqs of the recorded calls of t that p has not served
    next,        \* next[p]: the call p serves next
    replayed     \* replayed[p][n]: what call n gave the agent in p

agent == <<catches, proposes>>
run  == <<runStatus, round, outstanding, got, unrecorded, events>>
reps == <<phase, basis, queue, next, replayed>>
vars == <<agent, run, reps>>

RoundCalls(k) == {n \in Calls : RoundOf[n] = k}

Init ==
    /\ catches \in SUBSET (Errors \cup {ReplayError})
    /\ proposes \in BOOLEAN
    /\ runStatus = "running"
    /\ round = 0
    /\ outstanding = {}
    /\ got = [n \in Calls |-> None]
    /\ unrecorded = {}
    /\ events = <<>>
    /\ phase = [p \in Replays |-> "idle"]
    /\ basis = [p \in Replays |-> None]
    /\ queue = [p \in Replays |-> [t \in Tools |-> {}]]
    /\ next = [p \in Replays |-> 1]
    /\ replayed = [p \in Replays |-> [n \in Calls |-> None]]

-----------------------------------------------------------------------------
(* The live run.                                                           *)

\* The agent has all answers of a round and makes the calls of the next one.
MakeCalls ==
    /\ runStatus = "running"
    /\ outstanding = {}
    /\ RoundCalls(round + 1) # {}
    /\ round' = round + 1
    /\ outstanding' = RoundCalls(round + 1)
    /\ UNCHANGED <<agent, runStatus, got, unrecorded, events, reps>>

\* The arguments are recorded too: they tell which call it was.
Record(n, r) == events' = Append(events, [tool |-> ToolOf[n], call |-> n, result |-> r])

\* A call gives the agent its result r.  An exception of a class that it does not handle
\* ends the run; the other calls of the round are not cancelled by that.
Deliver(n, r) ==
    /\ n \in outstanding
    /\ outstanding' = outstanding \ {n}
    /\ got' = [got EXCEPT ![n] = r]
    /\ runStatus' = IF r \in Errors \ catches /\ runStatus = "running"
                    THEN "failed" ELSE runStatus
    /\ UNCHANGED <<agent, round, reps>>

\* The tool returns; the agent gets the value itself and the ledger its JSON.
Return(n, v) == Deliver(n, v) /\ Record(n, Json[v]) /\ UNCHANGED unrecorded

\* Mutant of Raise: only results are recorded.
RaiseUnrecorded(n, e) == Deliver(n, e) /\ UNCHANGED <<unrecorded, events>>

\* The tool raises; the agent gets the exception itself and the ledger its repr.
Raise(n, e) == Deliver(n, e) /\ Record(n, e) /\ UNCHANGED unrecorded

\* The call gives an exception past the recording: json.dumps refuses the arguments or the
\* result, or the agent stops to wait for the call and cancels it.
Miss(n, e) ==
    /\ Deliver(n, e)
    /\ unrecorded' = unrecorded \cup {n}
    /\ UNCHANGED events

\* The agent returns its report after the last round.
Succeed ==
    /\ runStatus = "running"
    /\ outstanding = {}
    /\ RoundCalls(round + 1) = {}
    /\ runStatus' = "succeeded"
    /\ UNCHANGED <<agent, round, outstanding, got, unrecorded, events, reps>>

-----------------------------------------------------------------------------
(* A replay, at any time after the run was ledgered.                       *)

\* Mutant of Recorded: a dictionary that keeps the last event of a method.
RecordedLast(t) ==
    {k \in DOMAIN events :
        /\ events[k].tool = t
        /\ \A j \in DOMAIN events : events[j].tool = t => j <= k}

\* The recorded calls of a tool, by seq.
Recorded(t) == {k \in DOMAIN events : events[k].tool = t}

\* engine.replay builds its proxies from the events of this moment.
StartReplay(p) ==
    /\ phase[p] = "idle"
    /\ phase' = [phase EXCEPT ![p] = "replaying"]
    /\ basis' = [basis EXCEPT ![p] = runStatus]
    /\ queue' = [queue EXCEPT ![p] = [t \in Tools |-> Recorded(t)]]
    /\ UNCHANGED <<agent, run, next, replayed>>

\* Call n of replay p gives the agent r, which goes on to its next call.
Serve(p, n, r) ==
    /\ replayed' = [replayed EXCEPT ![p][n] = r]
    /\ next' = [next EXCEPT ![p] = n + 1]
    /\ UNCHANGED phase

\* Mutant of Oldest: the queue is taken from the wrong end.
Newest(q) == CHOOSE k \in q : \A j \in q : k >= j

Oldest(q) == CHOOSE k \in q : \A j \in q : k <= j

Rest(q) == {k \in q : k # Oldest(q)}

\* Mutant of First: the event in place of its result.
FirstEvent(q) == events[Oldest(q)]

\* What the oldest event left in a queue has recorded.
First(q) == events[Oldest(q)].result

\* Is it a result?
Served(q) == q # {} /\ First(q) \notin Errors

\* Mutant of Step: a call that cannot be answered gives the agent the error as its result.
StepLenient(p) ==
    LET n == next[p]
        t == ToolOf[n]
        q == queue[p][t]
    IN  /\ phase[p] = "replaying"
        /\ n \in Calls
        /\ queue' = [queue EXCEPT ![p][t] = Rest(q)]
        /\ Serve(p, n, IF Served(q) THEN First(q) ELSE ReplayError)
        /\ UNCHANGED <<agent, run, basis>>

\* The next call of the agent takes the oldest event of its tool, whatever its arguments.
\* With no event left, or one of an error, a ReplayError is raised whatever the run got.
Step(p) ==
    LET n == next[p]
        t == ToolOf[n]
        q == queue[p][t]
    IN  /\ phase[p] = "replaying"
        /\ n \in Calls
        /\ queue' = [queue EXCEPT ![p][t] = Rest(q)]
        /\ \/ Served(q) /\ Serve(p, n, First(q))
           \/ ~ Served(q) /\ ReplayError \in catches /\ Serve(p, n, ReplayError)
           \/ /\ ~ Served(q) /\ ReplayError \notin catches
              /\ phase' = [phase EXCEPT ![p] = "raised"]
              /\ UNCHANGED <<next, replayed>>
        /\ UNCHANGED <<agent, run, basis>>

\* The agent has made its calls.  To propose a write it has to ask the tool for its granted
\* capabilities, and the replay proxy answers with a coroutine function: a TypeError.
EndReplay(p) ==
    /\ phase[p] = "replaying"
    /\ next[p] \notin Calls
    /\ phase' = [phase EXCEPT ![p] = IF proposes THEN "raised" ELSE "reported"]
    /\ UNCHANGED <<agent, run, basis, queue, next, replayed>>

Next ==
    \/ MakeCalls \/ Succeed
    \/ \E n \in Calls : \/ \E v \in Values : Return(n, v)
                      \/ \E e \in Errors : Raise(n, e) \/ Miss(n, e)
    \/ \E p \in Replays : StartReplay(p) \/ Step(p) \/ EndReplay(p)

Spec == Init /\ [][Next]_vars
-----------------------------------------------------------------------------
(* Properties.                                                             *)

\* Shape of the state: calls are outstanding only in the current round, and the queues of
\* a replay hold recorded calls.
TypeOK ==
    /\ catches \subseteq Errors \cup {ReplayError} /\ proposes \in BOOLEAN
    /\ runStatus \in {"running", "succeeded", "failed"}
    /\ round \in 0..N
    /\ outstanding \subseteq RoundCalls(round)
    /\ got \in [Calls -> Results \cup {None}]
    /\ unrecorded \subseteq Calls
    /\ events \in Seq([tool : Tools, call : Calls, result : Results])
    /\ phase \in [Replays -> {"idle", "replaying", "reported", "raised"}]
    /\ basis \in [Replays -> {"running", "succeeded", "failed", None}]
    /\ queue \in [Replays -> [Tools -> SUBSET DOMAIN events]]
    /\ next \in [Replays -> 1..(N + 1)]
    /\ replayed \in [Replays -> [Calls -> Answers \cup {None}]]

\* What the ledger makes of a result.
AsRecorded(r) == IF r \in Values THEN Json[r] ELSE r

\* What a replay can make of it: of a result the JSON, of an exception not even the class.
AsReplayed(r) == IF r \in Values THEN Json[r] ELSE ReplayError

EventsOf(n) == {k \in DOMAIN events : events[k].call = n}

\* Every completed call is in the ledger once, with what the agent got, errors included and
\* also when the run failed meanwhile; only a call that JSON refuses or the agent cancels is
\* missing.
LedgerMatchesCalls ==
    \A n \in Calls :
        /\ \A k \in EventsOf(n) : events[k].result = AsRecorded(got[n])
        /\ Cardinality(EventsOf(n)) = IF got[n] = None \/ n \in unrecorded THEN 0 ELSE 1

FullyRecorded == \A n \in Calls : EventsOf(n) # {}

\* "Tools return exactly what they returned during the original run, in the original order":
\* a report from the replay of a completely recorded run comes from the answers of that run,
\* as JSON keeps them, and from a ReplayError where the run got an exception.
ReplayFaithful ==
    \A p \in Replays :
        phase[p] = "reported" /\ basis[p] = "succeeded" /\ FullyRecorded =>
            \A n \in Calls : replayed[p][n] = AsReplayed(got[n])

\* "Deterministic agents reproduce their report exactly": the replay of a completely recorded
\* run that succeeded gives a report.
ReportsReproduced ==
    \A p \in Replays : basis[p] = "succeeded" /\ FullyRecorded => phase[p] # "raised"

\* What holds of it: the agent proposes no write, and it handles a ReplayError, whatever it
\* handles in the run, or has got no exception in the run.
SucceededReplays ==
    \A p \in Replays :
        /\ basis[p] = "succeeded" /\ FullyRecorded /\ ~ proposes
        /\ ReplayError \in catches \/ \A n \in Calls : got[n] \notin Errors
        => phase[p] # "raised"

\* The replay of a run that an exception has ended never makes up a report, although calls
\* of the run may complete and be recorded after its end; unless the agent handles the
\* ReplayError that stands for the exception it did not handle.
FailedNeverReports ==
    \A p \in Replays :
        basis[p] = "failed" /\ ReplayError \notin catches => phase[p] # "reported"
=============================================================================
