--------------------------- MODULE WritePipeline ---------------------------
(***************************************************************************)
(* The write-intent pipeline of RevOpsEngine: engine.run with its policy   *)
(* loop, approve_intent and reject_intent, over the in-memory ledger and a *)
(* connector whose apply_write is one HTTP request to a remote system.     *)
(*                                                                         *)
(* Everything runs on one asyncio event loop.  A task keeps the loop (turn)*)
(* until it awaits: the agent's process_task, or apply_write.  Only there  *)
(* can the step of another task come in between.  Each run and each call   *)
(* of approve_intent is one task and is made once; reject_intent never     *)
(* awaits, so it is one step.                                              *)
(***************************************************************************)
EXTENDS Integers, Sequences, FiniteSets

CONSTANTS
    Runs,            \* calls of engine.run that get past the freshness check
    Approvals,       \* calls of engine.approve_intent
    Intents,         \* write intents
    Proposals,       \* Proposals[r]: what the agent of run r proposes, in order
    Keys, KeyOf,     \* idempotency keys, and the key of each intent
    Allowed,         \* intents that WritePolicy.violation accepts
    Writable,        \* intents whose role is write-granted and write-capable
    Verdict,         \* what auto_approve answers: "yes", "no" or "raises"
    MaxWrites,       \* WritePolicy.max_writes_per_run
    Unserialisable,  \* runs whose final report model_dump_json() refuses
    MaxTasks,        \* bound: API calls in progress at once
    MayLoseAnswer,   \* may apply_write raise although the remote write happens?
    MayCancel,       \* may a task be cancelled at an await?
    None             \* no task, no intent, no key

Tasks == Runs \cup Approvals
Calls == Tasks \X Intents      \* an apply_write: who made it, for what

\* The intents of a run.
ProposedBy(r) == {Proposals[r][n] : n \in DOMAIN Proposals[r]}

ASSUME TasksAssumption ==
    /\ IsFiniteSet(Tasks)
    /\ Runs \cap Approvals = {}
    /\ None \notin Tasks \cup Intents \cup Keys
    /\ MaxTasks \in Nat \ {0}
    /\ MayLoseAnswer \in BOOLEAN /\ MayCancel \in BOOLEAN

\* Agents create their intents: no intent is proposed twice.
ASSUME ProposalsAssumption ==
    /\ Proposals \in [Runs -> Seq(Intents)]
    /\ \A r, q \in Runs : r # q => ProposedBy(r) \cap ProposedBy(q) = {}
    /\ \A r \in Runs : \A m, n \in DOMAIN Proposals[r] :
          Proposals[r][m] = Proposals[r][n] => m = n

\* The key is a hash of the role, the operation, the target and the new values.
ASSUME IntentsAssumption == KeyOf \in [Intents -> Keys]

ASSUME PolicyAssumption ==
    /\ Allowed \subseteq Intents
    /\ Writable \subseteq Intents
    /\ Verdict \in [Intents -> {"yes", "no", "raises"}]
    /\ MaxWrites \in Nat
    /\ Unserialisable \subseteq Runs

VARIABLES
    config,      \* the engine as assembled: has it a policy, and its write_mode
    turn,        \* the task that holds the event loop, or None
    pc,          \* where each task is
    position,    \* position[r]: index of the intent the loop of run r is at
    accepted,    \* accepted[r]: intents counted by the loop (the code keeps their number)
    approves,    \* approves[c]: the intent approval c is about
    runStatus,   \* ledger: status of each run record
    status,      \* status of each intent; the ledger holds the object itself
    ledgered,    \* ledger: intents recorded
    appliedKeys, \* ledger: idempotency keys marked as applied
    inTransit,   \* requests sent that have not taken effect
    landed,      \* requests that took effect: the history of the remote system
    answered     \* requests whose success was delivered to the engine (history)

flow   == <<turn, pc, position, accepted, approves>>
ledger == <<runStatus, status, ledgered, appliedKeys>>
world  == <<inTransit, landed, answered>>
vars   == <<config, flow, ledger, world>>

-----------------------------------------------------------------------------
Configs == [policy : BOOLEAN, mode : {"dry_run", "apply"}]

PcValues == {"idle", "agent", "loop", "applying", "done"}

Active == {t \in Tasks : pc[t] \notin {"idle", "done"}}

\* A call of the API is taken up when the loop is free.
CanEnter == turn = None /\ Cardinality(Active) < MaxTasks

Current(r) == Proposals[r][position[r]]

\* The intent that a task in _apply_intent works on.
Subject(t) == IF t \in Runs THEN Current(t) ELSE approves[t]

Init ==
    /\ config \in Configs
    /\ turn = None
    /\ pc = [t \in Tasks |-> "idle"]
    /\ position = [r \in Runs |-> 1]
    /\ accepted = [r \in Runs |-> {}]
    /\ approves = [c \in Approvals |-> None]
    /\ runStatus = [r \in Runs |-> "none"]
    /\ status = [i \in Intents |-> "proposed"]
    /\ ledgered = {}
    /\ appliedKeys = {}
    /\ inTransit = {} /\ landed = {} /\ answered = {}

-----------------------------------------------------------------------------
(* The run up to its intents.                                              *)

\* engine.run ledgers the run and awaits the agent.
StartRun(r) ==
    /\ CanEnter
    /\ pc[r] = "idle"
    /\ pc' = [pc EXCEPT ![r] = "agent"]
    /\ runStatus' = [runStatus EXCEPT ![r] = "running"]
    /\ UNCHANGED <<config, turn, position, accepted, approves,
                   status, ledgered, appliedKeys, world>>

CloseRun(r, s) ==
    /\ pc' = [pc EXCEPT ![r] = "done"]
    /\ turn' = None
    /\ runStatus' = [runStatus EXCEPT ![r] = s]

\* Mutant of AgentFails: no except clause around the agent.
AgentFailsUnrecorded(r) ==
    /\ turn = None
    /\ pc[r] = "agent"
    /\ CloseRun(r, runStatus[r])
    /\ UNCHANGED <<config, position, accepted, approves,
                   status, ledgered, appliedKeys, world>>

\* The agent raises, or returns a report of another type: its proposals are dropped.
AgentFails(r) ==
    /\ turn = None
    /\ pc[r] = "agent"
    /\ CloseRun(r, "failed")
    /\ UNCHANGED <<config, position, accepted, approves,
                   status, ledgered, appliedKeys, world>>

\* The agent returns its report; _process_intents starts at the first proposal.
AgentReturns(r) ==
    /\ turn = None
    /\ pc[r] = "agent"
    /\ turn' = r
    /\ pc' = [pc EXCEPT ![r] = "loop"]
    /\ position' = [position EXCEPT ![r] = 1]
    /\ accepted' = [accepted EXCEPT ![r] = {}]
    /\ UNCHANGED <<config, approves, ledger, world>>

-----------------------------------------------------------------------------
(* _process_intents: one action per branch, for the intent at position.    *)

AtIntent(r) ==
    /\ turn = r
    /\ pc[r] = "loop"
    /\ position[r] \in DOMAIN Proposals[r]

\* Mutant of Permitted: the limit is compared with > instead of >=.
PermittedOneMore(r) ==
    /\ config.policy
    /\ Current(r) \in Allowed
    /\ Cardinality(accepted[r]) <= MaxWrites

\* Allowlist first, then the blast-radius limit of the run.
Permitted(r) ==
    /\ config.policy
    /\ Current(r) \in Allowed
    /\ Cardinality(accepted[r]) < MaxWrites

Accept(r) == accepted' = [accepted EXCEPT ![r] = @ \cup {Current(r)}]

\* The intent of task t has its status s: the ledger records it and t goes on, an
\* approval by returning, a run with its next intent.
Settle(t, i, s) ==
    /\ status' = [status EXCEPT ![i] = s]
    /\ ledgered' = ledgered \cup {i}
    /\ \/ /\ t \in Runs
          /\ position' = [position EXCEPT ![t] = @ + 1]
          /\ pc' = [pc EXCEPT ![t] = "loop"]
          /\ turn' = t
       \/ /\ t \in Approvals
          /\ pc' = [pc EXCEPT ![t] = "done"]
          /\ turn' = None
          /\ UNCHANGED position

\* No policy, not allowlisted, or over the limit.
RejectByPolicy(r) ==
    /\ AtIntent(r)
    /\ ~ Permitted(r)
    /\ Settle(r, Current(r), "rejected")
    /\ UNCHANGED <<config, accepted, approves, runStatus, appliedKeys, world>>

\* write_mode is "dry_run": the intent stays proposed.
KeepProposed(r) ==
    /\ AtIntent(r)
    /\ Permitted(r)
    /\ config.mode = "dry_run"
    /\ Accept(r)
    /\ Settle(r, Current(r), "proposed")
    /\ UNCHANGED <<config, approves, runStatus, appliedKeys, world>>

\* auto_approve says no, or there is none: a human has to decide.
QueueForApproval(r) ==
    /\ AtIntent(r)
    /\ Permitted(r)
    /\ config.mode = "apply"
    /\ Verdict[Current(r)] = "no"
    /\ Accept(r)
    /\ Settle(r, Current(r), "pending")
    /\ UNCHANGED <<config, approves, runStatus, appliedKeys, world>>

\* Mutant of AutoApproveRaises: the loop logs the exception and goes on.
AutoApproveSkips(r) ==
    /\ AtIntent(r)
    /\ Permitted(r)
    /\ config.mode = "apply"
    /\ Verdict[Current(r)] = "raises"
    /\ Accept(r)
    /\ position' = [position EXCEPT ![r] = @ + 1]
    /\ UNCHANGED <<config, turn, pc, approves, ledger, world>>

\* The auto_approve callback raises: the run fails with its later intents unseen.
AutoApproveRaises(r) ==
    /\ AtIntent(r)
    /\ Permitted(r)
    /\ config.mode = "apply"
    /\ Verdict[Current(r)] = "raises"
    /\ Accept(r)
    /\ CloseRun(r, "failed")
    /\ UNCHANGED <<config, position, approves, status, ledgered, appliedKeys, world>>

-----------------------------------------------------------------------------
(* _apply_intent, called by the loop of a run or by an approval.           *)

\* Mutant of NeedsWrite: was_applied is not asked.
NeedsWriteAlways(i) == i \in Writable

\* Neither unwritable nor already applied: apply_write has to be called.
NeedsWrite(i) == i \in Writable /\ KeyOf[i] \notin appliedKeys

\* The status when it need not be called.
StatusWithoutWrite(i) == IF i \in Writable THEN "applied" ELSE "failed"

\* Mutant of Send: the key is marked before the write, to close the window of the await.
SendMarked(t, i) ==
    /\ pc' = [pc EXCEPT ![t] = "applying"]
    /\ turn' = None
    /\ inTransit' = inTransit \cup {<<t, i>>}
    /\ appliedKeys' = appliedKeys \cup {KeyOf[i]}
    /\ UNCHANGED <<position, runStatus, status, ledgered, landed, answered>>

\* The request goes out and the task waits for the answer.
Send(t, i) ==
    /\ pc' = [pc EXCEPT ![t] = "applying"]
    /\ turn' = None
    /\ inTransit' = inTransit \cup {<<t, i>>}
    /\ UNCHANGED <<position, ledger, landed, answered>>

ApplyIntent(t, i) ==
    \/ /\ NeedsWrite(i)
       /\ Send(t, i)
    \/ /\ ~ NeedsWrite(i)
       /\ Settle(t, i, StatusWithoutWrite(i))
       /\ UNCHANGED <<runStatus, appliedKeys, world>>

\* auto_approve says yes.
AutoApply(r) ==
    /\ AtIntent(r)
    /\ Permitted(r)
    /\ config.mode = "apply"
    /\ Verdict[Current(r)] = "yes"
    /\ Accept(r)
    /\ ApplyIntent(r, Current(r))
    /\ UNCHANGED <<config, approves>>

\* Mutant of IsPending: the status is not looked at.
IsLedgered(i) == i \in ledgered

IsPending(i) == i \in ledgered /\ status[i] = "pending"

\* approve_intent: any other intent is refused and nothing changes.
Approve(c, i) ==
    /\ CanEnter
    /\ pc[c] = "idle"
    /\ IsPending(i)
    /\ approves' = [approves EXCEPT ![c] = i]
    /\ ApplyIntent(c, i)
    /\ UNCHANGED <<config, accepted>>

\* reject_intent: it does not await.
RejectIntent(i) ==
    /\ CanEnter
    /\ IsPending(i)
    /\ status' = [status EXCEPT ![i] = "rejected"]
    /\ ledgered' = ledgered \cup {i}
    /\ UNCHANGED <<config, flow, runStatus, appliedKeys, world>>

\* apply_write returns: the key is marked and the intent is applied.
ApplySucceeds(t) ==
    /\ turn = None
    /\ pc[t] = "applying"
    /\ <<t, Subject(t)>> \in landed
    /\ answered' = answered \cup {<<t, Subject(t)>>}
    /\ appliedKeys' = appliedKeys \cup {KeyOf[Subject(t)]}
    /\ Settle(t, Subject(t), "applied")
    /\ UNCHANGED <<config, accepted, approves, runStatus, inTransit, landed>>

\* Mutant of ApplyRaises: _apply_intent does not catch what apply_write raises.
ApplyRaisesUncaught(t) ==
    /\ turn = None
    /\ pc[t] = "applying"
    /\ \/ /\ <<t, Subject(t)>> \in inTransit
          /\ inTransit' = inTransit \ {<<t, Subject(t)>>}
       \/ /\ MayLoseAnswer
          /\ UNCHANGED inTransit
    /\ pc' = [pc EXCEPT ![t] = "done"]
    /\ runStatus' = [r \in Runs |-> IF r = t THEN "failed" ELSE runStatus[r]]
    /\ UNCHANGED <<config, turn, position, accepted, approves, status, ledgered,
                   appliedKeys, landed, answered>>

\* Mutant of ApplyRaises: the intent goes back to the queue to be tried again.
ApplyRaisesRequeued(t) ==
    /\ turn = None
    /\ pc[t] = "applying"
    /\ \/ /\ <<t, Subject(t)>> \in inTransit
          /\ inTransit' = inTransit \ {<<t, Subject(t)>>}
       \/ /\ MayLoseAnswer
          /\ UNCHANGED inTransit
    /\ Settle(t, Subject(t), "pending")
    /\ UNCHANGED <<config, accepted, approves, runStatus, appliedKeys,
                   landed, answered>>

\* apply_write raises: the remote system refused the request, or no answer came to a
\* request that has taken effect, still will, or never does.
ApplyRaises(t) ==
    /\ turn = None
    /\ pc[t] = "applying"
    /\ \/ /\ <<t, Subject(t)>> \in inTransit
          /\ inTransit' = inTransit \ {<<t, Subject(t)>>}
       \/ /\ MayLoseAnswer
          /\ UNCHANGED inTransit
    /\ Settle(t, Subject(t), "failed")
    /\ UNCHANGED <<config, accepted, approves, runStatus, appliedKeys,
                   landed, answered>>

-----------------------------------------------------------------------------
(* The end of a run, cancellation, and the remote system.                  *)

LoopOver(r) ==
    /\ turn = r
    /\ pc[r] = "loop"
    /\ position[r] \notin DOMAIN Proposals[r]

FinishRun(r) ==
    /\ LoopOver(r)
    /\ r \notin Unserialisable
    /\ CloseRun(r, "succeeded")
    /\ UNCHANGED <<config, position, accepted, approves,
                   status, ledgered, appliedKeys, world>>

\* Mutant of FinishRaises: an outcome the ledger's RunStatus does not have.
FinishAsError(r) ==
    /\ LoopOver(r)
    /\ r \in Unserialisable
    /\ CloseRun(r, "error")
    /\ UNCHANGED <<config, position, accepted, approves,
                   status, ledgered, appliedKeys, world>>

\* The report cannot be dumped: this is past the try block, so the record stays open.
FinishRaises(r) ==
    /\ LoopOver(r)
    /\ r \in Unserialisable
    /\ CloseRun(r, runStatus[r])
    /\ UNCHANGED <<config, position, accepted, approves,
                   status, ledgered, appliedKeys, world>>

\* CancelledError at an await is no Exception: no handler of the engine sees it.  A
\* request that was sent stays on its way.
Cancel(t) ==
    /\ MayCancel
    /\ turn = None
    /\ pc[t] \in {"agent", "applying"}
    /\ pc' = [pc EXCEPT ![t] = "done"]
    /\ UNCHANGED <<config, turn, position, accepted, approves, ledger, world>>

\* A request takes effect, whether or not its sender still waits.
Land(t, i) ==
    /\ <<t, i>> \in inTransit
    /\ inTransit' = inTransit \ {<<t, i>>}
    /\ landed' = landed \cup {<<t, i>>}
    /\ UNCHANGED <<config, flow, ledger, answered>>

-----------------------------------------------------------------------------
RunStep(r) ==
    \/ AgentFails(r) \/ AgentReturns(r)
    \/ RejectByPolicy(r) \/ KeepProposed(r) \/ QueueForApproval(r)
    \/ AutoApproveRaises(r) \/ AutoApply(r)
    \/ FinishRun(r) \/ FinishRaises(r)

Answer(t) == ApplySucceeds(t) \/ ApplyRaises(t)

Next ==
    \/ \E r \in Runs : StartRun(r) \/ RunStep(r)
    \/ \E c \in Approvals, i \in Intents : Approve(c, i)
    \/ \E i \in Intents : RejectIntent(i)
    \/ \E t \in Tasks : Answer(t) \/ Cancel(t)
    \/ \E t \in Tasks, i \in Intents : Land(t, i)

Spec == Init /\ [][Next]_vars

\* Agents end, the event loop runs what is ready, and the HTTP client gives up a
\* request after its timeout.  Nobody has to call the API, and no human has to decide.
Fairness ==
    /\ \A r \in Runs : WF_vars(RunStep(r))
    /\ \A t \in Tasks : WF_vars(Answer(t))

FairSpec == Spec /\ Fairness
-----------------------------------------------------------------------------
(* Properties.                                                             *)

\* Shape of the state: the loop is at an intent of the run or just past the last one,
\* and the ledger has one of the three statuses of RunStatus once a run has started.
TypeOK ==
    /\ config \in Configs
    /\ turn \in Tasks \cup {None}
    /\ pc \in [Tasks -> PcValues]
    /\ position \in [Runs -> Nat]
    /\ \A r \in Runs : position[r] \in 1..(Len(Proposals[r]) + 1)
    /\ accepted \in [Runs -> SUBSET Intents]
    /\ approves \in [Approvals -> Intents \cup {None}]
    /\ runStatus \in [Runs -> {"none", "running", "succeeded", "failed"}]
    /\ status \in [Intents -> {"proposed", "pending", "rejected", "applied", "failed"}]
    /\ ledgered \subseteq Intents
    /\ appliedKeys \subseteq Keys
    /\ inTransit \subseteq Calls
    /\ landed \subseteq Calls
    /\ answered \subseteq Calls

\* The policy let this apply_write through: mode, allowlist and capability, and either
\* auto_approve for a proposal of the calling run, or a human for an intent that
\* auto_approve had left to one.
Gated(t, i) ==
    /\ config.policy
    /\ config.mode = "apply"
    /\ i \in Allowed \cap Writable
    /\ \/ t \in Runs /\ i \in ProposedBy(t) /\ Verdict[i] = "yes"
       \/ t \in Approvals /\ i = approves[t] /\ Verdict[i] = "no"

\* No code path reaches apply_write without an approved intent (PLAN.md, quality gate):
\* whatever was sent or has taken effect passed every gate, however the runs, the
\* approvals, lost answers and cancellations interleave.
GatedWrites == \A call \in inTransit \cup landed : Gated(call[1], call[2])

\* The intents of a run that were ever sent, by its loop or by a later approval.
SentOf(r) == {i \in ProposedBy(r) : \E t \in Tasks : <<t, i>> \in inTransit \cup landed}

\* The blast radius: at most max_writes_per_run intents of one run ever reach the remote
\* system, counting those that were queued and approved after the run had ended.
BlastRadius == \A r \in Runs : Cardinality(SentOf(r)) <= MaxWrites

\* An intent the ledger shows as applied has its key marked, and a write of that key took
\* effect and was confirmed: a refused, unanswered or cancelled write never counts, also
\* when the intent itself was skipped as a duplicate.
AppliedIsBacked ==
    \A i \in Intents : status[i] = "applied" =>
        /\ KeyOf[i] \in appliedKeys
        /\ \E call \in landed \cap answered : KeyOf[call[2]] = KeyOf[i]

\* The confirmed writes of a key.
Confirmed(k) == {call \in answered : KeyOf[call[2]] = k}

\* Idempotency under concurrency: only calls that were in flight together can repeat a
\* write that was confirmed, so a key is confirmed at most once per task in progress.
DuplicatesBounded == \A k \in Keys : Cardinality(Confirmed(k)) <= MaxTasks

\* The loop ledgers the intents of a run in order and without a gap, however it ends.
LedgeredInOrder ==
    \A r \in Runs : \A n \in DOMAIN Proposals[r] :
        Proposals[r][n] \in ledgered => \A m \in 1..n : Proposals[r][m] \in ledgered

\* What the agent of a run that ended well proposed is in the ledger, to the last intent,
\* and so is every intent that a finished task has sent, also when its write has failed.
EveryWriteIsLedgered ==
    /\ \A r \in Runs : runStatus[r] = "succeeded" => ProposedBy(r) \subseteq ledgered
    /\ \A call \in inTransit \cup landed : pc[call[1]] = "done" => call[2] \in ledgered

\* An intent offered to a human as pending has not been sent, unless somebody is applying
\* it right now: a failed attempt does not go back to the queue.
PendingIsUntouched ==
    \A i \in Intents : status[i] = "pending" =>
        \A call \in inTransit \cup landed :
            call[2] = i => pc[call[1]] = "applying" /\ Subject(call[1]) = i

\* A run that was ledgered as started gets its outcome.
EveryRunCloses ==
    \A r \in Runs : runStatus[r] = "running" ~> runStatus[r] \in {"succeeded", "failed"}

\* A human's approval settles the intent: it does not stay pending.
ApprovalSettles ==
    \A c \in Approvals, i \in Intents : approves[c] = i ~> status[i] # "pending"

\* With the calls one after the other and every answer delivered, the pipeline keeps the
\* promise of IntentLifecycle: one decision per intent, one write per key.
Lifecycle == INSTANCE IntentLifecycle WITH
    writes <- [i \in Intents |-> Cardinality({t \in Tasks : <<t, i>> \in landed})]

ImplementsLifecycle == Lifecycle!Spec

\* "Approving twice is a 409, not a double write": two approvals never write one intent.
ApprovedWritesOnce ==
    \A i \in Intents : Cardinality({c \in Approvals : <<c, i>> \in landed}) <= 1

\* An intent that a human has rejected stays rejected, and is not written afterwards.
RejectionIsFinal ==
    [][\A i \in Intents : status[i] = "rejected" =>
          /\ status'[i] = "rejected"
          /\ \A t \in Tasks : <<t, i>> \in landed' => <<t, i>> \in landed]_vars

\* "Replays and webhook retries can't double-write": a key is written once.
KeyWrittenOnce ==
    \A p, q \in landed : KeyOf[p[2]] = KeyOf[q[2]] => p = q
=============================================================================
