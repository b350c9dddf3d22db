-------------------------- MODULE LifecycleProofs --------------------------
(***************************************************************************)
(* What WritePipeline promises when the calls of its API are made one      *)
(* after the other and no task is cancelled, and that it implements        *)
(* IntentLifecycle when, besides, every answer arrives.                    *)
(***************************************************************************)
EXTENDS WritePipelineProofs

-----------------------------------------------------------------------------
(* One call at a time.                                                     *)

Sent == inTransit \cup landed

Unsent(i) == \A call \in Sent : call[2] # i

Undecided == {"proposed", "pending"}

NobodyWaits == \A t \in Tasks : pc[t] # "applying"

\* An intent is undecided until the loop has passed it and as long as somebody applies it;
\* a rejected one was never sent, and one that was sent has one sender.
OneCallInv ==
    /\ \A i \in Intents : i \notin ledgered => status[i] = "proposed"
    /\ \A t \in Tasks : pc[t] = "applying" => status[Subject(t)] \in Undecided
    /\ \A i \in Intents : status[i] = "rejected" => Unsent(i)
    /\ \A p, q \in Sent : p[2] = q[2] => p = q

\* All that is known of a state of such a pipeline.
SerialState == TypeInv /\ GateInv /\ BackedInv /\ LossInv /\ IdempotencyInv /\ OneCallInv

\* A task in progress is the only one.
LEMMA SoleLemma ==
    ASSUME IdempotencyInv, MaxTasks = 1, NEW t \in Active
    PROVE  Active = {t}
<1>1. IsFiniteSet(Active) /\ Cardinality(Active) \in Nat
  BY TasksFinite DEF Active
<1>2. {t} \in SUBSET Active /\ Cardinality({t}) = 1
  BY FS_Singleton
<1>3. Cardinality({t}) <= Cardinality(Active) /\ (Cardinality(Active) = Cardinality({t}) => Active = {t})
  BY <1>1, <1>2, FS_Subset
<1>4. Cardinality(Active) <= 1
  BY DEF IdempotencyInv
<1>. QED BY <1>1, <1>2, <1>3, <1>4

\* The API takes up a call when no other is in progress.
LEMMA EntryIsFree ==
    ASSUME MaxTasks = 1, CanEnter
    PROVE  Active = {} /\ NobodyWaits
<1>1. IsFiniteSet(Active) /\ Cardinality(Active) \in Nat
  BY TasksFinite DEF Active
<1>2. Cardinality(Active) = 0
  BY <1>1 DEF CanEnter
<1>3. Active = {}
  BY <1>1, <1>2, FS_EmptySet
<1>. QED BY <1>3 DEF Active, NobodyWaits

\* While a run is with its agent or in its loop, nobody waits for an answer.
LEMMA LoopIsAlone ==
    ASSUME IdempotencyInv, MaxTasks = 1, NEW r \in Tasks, pc[r] \in {"agent", "loop"}
    PROVE  NobodyWaits
<1>1. r \in Active
  BY DEF Active
<1>2. \A t \in Tasks : pc[t] = "applying" => t \in Active
  BY DEF Active
<1>. QED BY <1>1, <1>2, SoleLemma DEF NobodyWaits

\* While a task waits for its answer, only that comes in, or the write takes effect.
LEMMA WaitingIsAlone ==
    ASSUME IdempotencyInv, MaxTasks = 1, ~ MayCancel, [Next]_vars,
           NEW t \in Tasks, pc[t] = "applying"
    PROVE  \/ Answer(t)
           \/ \E u \in Tasks, i \in Intents : Land(u, i)
           \/ UNCHANGED vars
<1>1. t \in Active /\ Active = {t}
  BY SoleLemma DEF Active
<1>2. ~ CanEnter
  BY <1>1, EntryIsFree
<1>3. ASSUME NEW r \in Runs, StartRun(r) \/ RunStep(r)
      PROVE  FALSE
  <2>1. r \in Tasks /\ pc[r] \in {"agent", "loop"}
    BY <1>2, <1>3 DEF StartRun, RunStep, AgentFails, AgentReturns, RejectByPolicy, KeepProposed,
       QueueForApproval, AutoApproveRaises, AutoApply, FinishRun, FinishRaises, AtIntent,
       LoopOver, Tasks
  <2>. QED BY <2>1, LoopIsAlone DEF NobodyWaits
<1>4. ASSUME NEW u \in Tasks, Answer(u)
      PROVE  u = t
  <2>1. u \in Active
    BY <1>4 DEF Answer, ApplySucceeds, ApplyRaises, Active
  <2>. QED BY <1>1, <2>1
<1>5. \A c \in Approvals, i \in Intents : ~ Approve(c, i)
  BY <1>2 DEF Approve
<1>6. \A i \in Intents : ~ RejectIntent(i)
  BY <1>2 DEF RejectIntent
<1>7. \A u \in Tasks : ~ Cancel(u)
  BY DEF Cancel
<1>. QED BY <1>3, <1>4, <1>5, <1>6, <1>7 DEF Next

\* The intent at the position of a loop is as the agent made it, and was not sent.
LEMMA LoopIntentIsFresh ==
    ASSUME SerialState, MaxTasks = 1, NEW r \in Runs, AtIntent(r)
    PROVE  /\ Current(r) \in Intents /\ r \in Tasks
           /\ NobodyWaits
           /\ status[Current(r)] = "proposed"
           /\ Unsent(Current(r))
<1>1. /\ TypeInv /\ LossInv /\ IdempotencyInv /\ OneCallInv
      /\ OrderInv /\ SentInv
  BY DEF SerialState, LossInv
<1>2. r \in Tasks /\ pc[r] = "loop" /\ position[r] \in DOMAIN Proposals[r] /\ position[r] \in Nat
  BY <1>1 DEF AtIntent, Tasks, TypeInv, TypeOK
<1>3. Current(r) \in Intents
  BY <1>1, <1>2, PositionLemma DEF TypeInv
<1>4. NobodyWaits
  BY <1>1, <1>2, LoopIsAlone
<1>5. Current(r) \notin ledgered
  BY <1>1, <1>2 DEF OrderInv, Current
<1>6. \A call \in Sent : call[1] \in Tasks
  BY <1>1 DEF Sent, TypeInv, TypeOK, Calls
<1>7. Unsent(Current(r))
  BY <1>1, <1>4, <1>5, <1>6 DEF SentInv, Sent, Unsent, NobodyWaits
<1>. QED BY <1>1, <1>2, <1>3, <1>4, <1>5, <1>7 DEF OneCallInv

\* An intent that a human decides about was not sent.
LEMMA QueuedIntentIsFresh ==
    ASSUME SerialState, MaxTasks = 1, CanEnter, NEW i \in Intents, IsPending(i)
    PROVE  NobodyWaits /\ Unsent(i)
<1>1. TypeInv /\ PendingIsUntouched
  BY DEF SerialState, LossInv
<1>2. NobodyWaits
  BY EntryIsFree
<1>3. \A call \in Sent : call[1] \in Tasks
  BY <1>1 DEF Sent, TypeInv, TypeOK, Calls
<1>. QED BY <1>1, <1>2, <1>3 DEF PendingIsUntouched, IsPending, Sent, Unsent, NobodyWaits

-----------------------------------------------------------------------------
(* The steps, by what they do to the intents and to the remote system.     *)

\* Nothing happens to them.
Works ==
    /\ NobodyWaits /\ NobodyWaits'
    /\ UNCHANGED <<status, ledgered, appliedKeys, inTransit, landed>>

\* The change of an intent is sent.
SendsCall(t, i) ==
    /\ NobodyWaits /\ NeedsWrite(i) /\ Unsent(i) /\ status[i] \in Undecided
    /\ pc'[t] = "applying" /\ Subject(t)' = i
    /\ \A u \in Tasks : pc'[u] = "applying" => u = t
    /\ UNCHANGED <<status, ledgered, appliedKeys, landed>>
    /\ inTransit' = inTransit \cup {<<t, i>>}

\* An intent gets its status without a request, nobody waiting for one.
Settles(i, s) ==
    /\ NobodyWaits /\ NobodyWaits'
    /\ status[i] \in Undecided /\ Unsent(i)
    /\ s = "pending" => status[i] = "proposed"
    /\ s = "proposed" => status[i] = "proposed"
    /\ s = "applied" => KeyOf[i] \in appliedKeys
    /\ status' = [status EXCEPT ![i] = s]
    /\ ledgered' = ledgered \cup {i}
    /\ UNCHANGED <<appliedKeys, inTransit, landed>>

\* The answer to a request arrives, or an exception in its place.
Answers(t) ==
    /\ pc[t] = "applying" /\ Answer(t)
    /\ status[Subject(t)] \in Undecided
    /\ NobodyWaits'
    /\ status' = [status EXCEPT ![Subject(t)] = IF ApplySucceeds(t) THEN "applied" ELSE "failed"]
    /\ ledgered' = ledgered \cup {Subject(t)}
    /\ inTransit' \subseteq inTransit /\ landed' = landed

LEMMA AnswersLemma ==
    ASSUME SerialState, MaxTasks = 1, NEW t \in Tasks, Answer(t)
    PROVE  Answers(t)
<1>1. TypeInv /\ IdempotencyInv /\ OneCallInv
  BY DEF SerialState
<1>2. pc[t] = "applying"
  BY DEF Answer, ApplySucceeds, ApplyRaises
<1>3. Subject(t) \in Intents
  BY <1>1, <1>2, SubjectLemma
<1>4. PICK s \in {"applied", "failed"} :
          /\ Settle(t, Subject(t), s)
          /\ s = IF ApplySucceeds(t) THEN "applied" ELSE "failed"
  <2>1. CASE ApplySucceeds(t)
    BY <2>1 DEF ApplySucceeds
  <2>2. CASE ~ ApplySucceeds(t)
    BY <2>2 DEF Answer, ApplyRaises
  <2>. QED BY <2>1, <2>2
<1>5. inTransit' \subseteq inTransit /\ landed' = landed
  BY DEF Answer, ApplySucceeds, ApplyRaises
<1>6. pc'[t] # "applying" /\ \A u \in Tasks : u # t => pc'[u] = pc[u]
  BY <1>1, <1>4 DEF Settle, TypeInv, TypeOK
<1>7. \A u \in Tasks : u # t => pc[u] # "applying"
  <2>1. Active = {t}
    BY <1>1, <1>2, SoleLemma DEF Active
  <2>. QED BY <2>1 DEF Active
<1>8. NobodyWaits'
  BY <1>6, <1>7 DEF NobodyWaits
<1>. QED BY <1>1, <1>2, <1>4, <1>5, <1>8 DEF Answers, Settle, OneCallInv

\* What _apply_intent does for a task that nobody else interferes with.
LEMMA ApplyLemma ==
    ASSUME SerialState, NEW t \in Tasks, NEW i \in Intents, ApplyIntent(t, i),
           NobodyWaits, Unsent(i), status[i] \in Undecided,
           t \in Runs => i = Current(t),
           t \notin Runs => approves'[t] = i
    PROVE  SendsCall(t, i) \/ \E s : Settles(i, s)
<1>1. pc \in [Tasks -> PcValues]
  BY DEF SerialState, TypeInv, TypeOK
<1>2. CASE NeedsWrite(i) /\ Send(t, i)
  <2>1. pc'[t] = "applying" /\ \A u \in Tasks : u # t => pc'[u] # "applying"
    BY <1>1, <1>2 DEF Send, NobodyWaits
  <2>2. Subject(t)' = i
    BY <1>2 DEF Subject, Current, Send
  <2>. QED BY <1>2, <2>1, <2>2 DEF SendsCall, Send, ledger
<1>3. CASE /\ ~ NeedsWrite(i)
           /\ Settle(t, i, StatusWithoutWrite(i))
           /\ UNCHANGED <<runStatus, appliedKeys, world>>
  <2> DEFINE s == StatusWithoutWrite(i)
  <2>1. s \in {"applied", "failed"} /\ (s = "applied" => KeyOf[i] \in appliedKeys)
    BY <1>3 DEF StatusWithoutWrite, NeedsWrite
  <2>2. NobodyWaits'
    BY <1>1, <1>3 DEF NobodyWaits, Settle
  <2>3. Settles(i, s)
    BY <1>3, <2>1, <2>2 DEF Settles, Settle, world
  <2>. QED BY <2>3
<1>. QED BY <1>2, <1>3 DEF ApplyIntent

LEMMA StepsLemma ==
    ASSUME SerialState, MaxTasks = 1, ~ MayCancel, [Next]_vars
    PROVE  \/ Works \/ UNCHANGED vars
           \/ \E t \in Tasks, i \in Intents : SendsCall(t, i) \/ Land(t, i)
           \/ \E i \in Intents : \E s : Settles(i, s)
           \/ \E t \in Tasks : Answers(t)
<1> DEFINE Goal == \/ Works \/ UNCHANGED vars
                   \/ \E t \in Tasks, i \in Intents : SendsCall(t, i) \/ Land(t, i)
                   \/ \E i \in Intents : \E s : Settles(i, s)
                   \/ \E t \in Tasks : Answers(t)
<1>1. /\ TypeInv /\ IdempotencyInv /\ OneCallInv
      /\ pc \in [Tasks -> PcValues] /\ status \in [Intents -> {"proposed", "pending", "rejected", "applied", "failed"}]
      /\ \A r \in Runs : r \in Tasks
  BY DEF SerialState, TypeInv, TypeOK, Tasks
<1>2. ASSUME NEW r \in Runs, StartRun(r)
      PROVE  Works
  BY <1>1, <1>2, EntryIsFree DEF StartRun, Works, NobodyWaits, world
<1>3. ASSUME NEW r \in Runs,
             AgentFails(r) \/ AgentReturns(r) \/ AutoApproveRaises(r) \/ FinishRun(r) \/ FinishRaises(r)
      PROVE  Works
  <2>1. NobodyWaits
    BY <1>1, <1>3, LoopIsAlone
       DEF AgentFails, AgentReturns, AutoApproveRaises, FinishRun, FinishRaises, AtIntent, LoopOver
  <2>2. NobodyWaits'
    BY <1>1, <1>3, <2>1 DEF AgentFails, AgentReturns, AutoApproveRaises, FinishRun, FinishRaises,
       CloseRun, NobodyWaits
  <2>3. UNCHANGED <<status, ledgered, appliedKeys, inTransit, landed>>
    BY <1>3 DEF AgentFails, AgentReturns, AutoApproveRaises, FinishRun, FinishRaises,
       ledger, world
  <2>. QED BY <2>1, <2>2, <2>3 DEF Works
<1>4. ASSUME NEW r \in Runs, RejectByPolicy(r) \/ KeepProposed(r) \/ QueueForApproval(r)
      PROVE  \E s : Settles(Current(r), s) /\ Current(r) \in Intents
  <2>1. /\ Current(r) \in Intents /\ r \in Tasks /\ NobodyWaits
        /\ status[Current(r)] = "proposed" /\ Unsent(Current(r))
    BY <1>4, LoopIntentIsFresh DEF RejectByPolicy, KeepProposed, QueueForApproval
  <2>2. PICK s \in {"rejected", "proposed", "pending"} : Settle(r, Current(r), s)
    BY <1>4 DEF RejectByPolicy, KeepProposed, QueueForApproval
  <2>3. NobodyWaits'
    BY <1>1, <2>1, <2>2 DEF NobodyWaits, Settle
  <2>4. UNCHANGED <<appliedKeys, inTransit, landed>>
    BY <1>4 DEF RejectByPolicy, KeepProposed, QueueForApproval, world
  <2>5. Settles(Current(r), s)
    BY <2>1, <2>2, <2>3, <2>4 DEF Settles, Settle, Undecided
  <2>. QED BY <2>1, <2>5
<1>5. ASSUME NEW r \in Runs, AutoApply(r)
      PROVE  Goal
  <2>1. /\ Current(r) \in Intents /\ r \in Tasks /\ NobodyWaits
        /\ status[Current(r)] = "proposed" /\ Unsent(Current(r))
    BY <1>5, LoopIntentIsFresh DEF AutoApply
  <2>2. ApplyIntent(r, Current(r))
    BY <1>5 DEF AutoApply
  <2>3. SendsCall(r, Current(r)) \/ \E s : Settles(Current(r), s)
    BY <2>1, <2>2, ApplyLemma DEF Undecided
  <2>. QED BY <2>1, <2>3
<1>6. ASSUME NEW c \in Approvals, NEW i \in Intents, Approve(c, i)
      PROVE  Goal
  <2>1. NobodyWaits /\ Unsent(i) /\ status[i] = "pending"
    BY <1>6, QueuedIntentIsFresh DEF Approve, IsPending
  <2>2. c \in Tasks /\ c \notin Runs /\ approves'[c] = i
    BY <1>1, <1>6, TasksAssumption DEF Approve, Tasks, TypeInv, TypeOK
  <2>3. SendsCall(c, i) \/ \E s : Settles(i, s)
    BY <1>6, <2>1, <2>2, ApplyLemma DEF Approve, Undecided
  <2>. QED BY <2>2, <2>3
<1>7. ASSUME NEW i \in Intents, RejectIntent(i)
      PROVE  Settles(i, "rejected")
  <2>1. NobodyWaits /\ Unsent(i) /\ status[i] = "pending"
    BY <1>7, QueuedIntentIsFresh DEF RejectIntent, IsPending
  <2>2. NobodyWaits'
    BY <1>7, <2>1 DEF RejectIntent, flow, NobodyWaits
  <2>. QED BY <1>7, <2>1, <2>2 DEF RejectIntent, Settles, Undecided, world
<1>8. ASSUME NEW t \in Tasks, Answer(t)
      PROVE  Answers(t)
  BY <1>8, AnswersLemma
<1>9. \A t \in Tasks : ~ Cancel(t)
  BY DEF Cancel
<1>10. ASSUME NEW r \in Runs, StartRun(r) \/ RunStep(r)
       PROVE  Goal
  BY <1>2, <1>3, <1>4, <1>5, <1>10 DEF RunStep
<1>11. ASSUME NEW i \in Intents, RejectIntent(i)
       PROVE  Goal
  BY <1>7, <1>11
<1>12. ASSUME NEW t \in Tasks, Answer(t) \/ Cancel(t)
       PROVE  Goal
  BY <1>8, <1>9, <1>12
<1>13. ASSUME NEW t \in Tasks, NEW i \in Intents, Land(t, i)
       PROVE  Goal
  BY <1>13
<1>14. UNCHANGED vars => Goal
  OBVIOUS
<1>. HIDE DEF Goal
<1>15. Goal
  BY <1>6, <1>10, <1>11, <1>12, <1>13, <1>14 DEF Next
<1>. QED BY <1>15 DEF Goal

-----------------------------------------------------------------------------
(* The invariant.                                                          *)

LEMMA OneCallStep ==
    ASSUME SerialState, MaxTasks = 1, ~ MayCancel, [Next]_vars
    PROVE  OneCallInv'
<1>1. /\ TypeInv /\ OneCallInv
      /\ status \in [Intents -> {"proposed", "pending", "rejected", "applied", "failed"}]
      /\ \A call \in Sent : call[1] \in Tasks /\ call[2] \in Intents
  BY DEF SerialState, TypeInv, TypeOK, Sent, Calls
<1>2. CASE Works \/ UNCHANGED vars
  <2>1. /\ status' = status /\ ledgered' = ledgered /\ Sent' = Sent
        /\ NobodyWaits' \/ (pc' = pc /\ position' = position /\ approves' = approves)
    BY <1>2 DEF Works, vars, flow, ledger, world, Sent
  <2>. QED BY <1>1, <2>1 DEF OneCallInv, Unsent, NobodyWaits, Subject, Current
<1>3. ASSUME NEW t \in Tasks, NEW i \in Intents, SendsCall(t, i)
      PROVE  OneCallInv'
  <2>1. /\ status' = status /\ ledgered' = ledgered /\ Sent' = Sent \cup {<<t, i>>}
        /\ \A call \in Sent : call[2] # i
        /\ status[i] \in Undecided
        /\ \A u \in Tasks : pc'[u] = "applying" => Subject(u)' = i
    BY <1>3 DEF SendsCall, Sent, Unsent
  <2>2. \A j \in Intents : status[j] = "rejected" => j # i
    BY <2>1 DEF Undecided
  <2>3. \A j \in Intents : status'[j] = "rejected" => Unsent(j)'
    <3>1. <<t, i>>[2] = i
      OBVIOUS
    <3>. QED BY <1>1, <2>1, <2>2, <3>1 DEF OneCallInv, Unsent
  <2>4. \A p, q \in Sent' : p[2] = q[2] => p = q
    BY <1>1, <2>1 DEF OneCallInv
  <2>5. \A u \in Tasks : pc'[u] = "applying" => status'[Subject(u)'] \in Undecided
    BY <2>1
  <2>6. \A j \in Intents : j \notin ledgered' => status'[j] = "proposed"
    BY <1>1, <2>1 DEF OneCallInv
  <2>. QED BY <2>3, <2>4, <2>5, <2>6 DEF OneCallInv
<1>4. ASSUME NEW t \in Tasks, NEW i \in Intents, Land(t, i)
      PROVE  OneCallInv'
  <2>1. /\ status' = status /\ ledgered' = ledgered /\ Sent' = Sent
        /\ pc' = pc /\ position' = position /\ approves' = approves
    BY <1>4 DEF Land, flow, ledger, Sent
  <2>. QED BY <1>1, <2>1 DEF OneCallInv, Unsent, Subject, Current
<1>5. ASSUME NEW i \in Intents, NEW s, Settles(i, s)
      PROVE  OneCallInv'
  <2>1. /\ status' = [status EXCEPT ![i] = s] /\ ledgered' = ledgered \cup {i} /\ Sent' = Sent
        /\ NobodyWaits' /\ Unsent(i)
    BY <1>5 DEF Settles, Sent
  <2>. QED BY <1>1, <2>1 DEF OneCallInv, Unsent, NobodyWaits
<1>6. ASSUME NEW t \in Tasks, Answers(t)
      PROVE  OneCallInv'
  <2>1. PICK s \in {"applied", "failed"} : status' = [status EXCEPT ![Subject(t)] = s]
    BY <1>6 DEF Answers
  <2>2. /\ ledgered' = ledgered \cup {Subject(t)} /\ Sent' \subseteq Sent /\ NobodyWaits'
        /\ Subject(t) \in Intents
    BY <1>1, <1>6, SubjectLemma DEF Answers, Sent
  <2>. QED BY <1>1, <2>1, <2>2 DEF OneCallInv, Unsent, NobodyWaits
<1>. QED BY <1>2, <1>3, <1>4, <1>5, <1>6, StepsLemma

LEMMA SerialInvariant ==
    ASSUME MaxTasks = 1, ~ MayCancel
    PROVE  Spec => []SerialState
<1>1. Init => OneCallInv
  BY DEF Init, OneCallInv, Sent, Unsent
<1>2. TypeInv /\ GateInv /\ BackedInv /\ LossInv /\ IdempotencyInv /\ OneCallInv /\ [Next]_vars
        => OneCallInv'
  BY OneCallStep DEF SerialState
<1>. QED
  BY <1>1, <1>2, TypeInvariant, GateInvariant, BackedInvariant, LossInvariant,
     IdempotencyInvariant, PTL DEF Spec, SerialState

\* Two approvals never write the same intent, although an answer may get lost, provided
\* that calls do not overlap; double_approval shows what happens when they do.
THEOREM ApprovalsWriteOnce ==
    ASSUME MaxTasks = 1, ~ MayCancel
    PROVE  Spec => []ApprovedWritesOnce
<1>1. SerialState => ApprovedWritesOnce
  <2> SUFFICES ASSUME SerialState, NEW i \in Intents
               PROVE  Cardinality({c \in Approvals : <<c, i>> \in landed}) <= 1
    BY DEF ApprovedWritesOnce
  <2> DEFINE C == {c \in Approvals : <<c, i>> \in landed}
  <2>1. \A p, q \in Sent : p[2] = q[2] => p = q
    BY DEF SerialState, OneCallInv
  <2>2. ASSUME NEW c \in C, NEW d \in C
        PROVE  c = d
    <3>1. <<c, i>> \in Sent /\ <<d, i>> \in Sent /\ <<c, i>>[2] = <<d, i>>[2]
      BY DEF Sent
    <3>. QED BY <2>1, <3>1
  <2>3. C = {} \/ \E c : C = {c}
    BY <2>2
  <2>. HIDE DEF C
  <2>4. ASSUME C = {}
        PROVE  Cardinality(C) <= 1
    BY <2>4, FS_EmptySet
  <2>5. ASSUME NEW c, C = {c}
        PROVE  Cardinality(C) <= 1
    <3>1. Cardinality({c}) = 1
      BY FS_Singleton
    <3>. QED BY <2>5, <3>1
  <2>6. Cardinality(C) <= 1
    BY <2>3, <2>4, <2>5
  <2>. QED BY <2>6 DEF C
<1>. QED BY <1>1, SerialInvariant, PTL

\* What a human has rejected stays rejected and is not written, although an answer may get
\* lost, provided that calls do not overlap; late_rejection shows what happens when they do.
THEOREM RejectionsAreFinal ==
    ASSUME MaxTasks = 1, ~ MayCancel
    PROVE  Spec => RejectionIsFinal
<1>1. ASSUME SerialState, [Next]_vars, NEW i \in Intents, status[i] = "rejected"
      PROVE  /\ status'[i] = "rejected"
             /\ \A t \in Tasks : <<t, i>> \in landed' => <<t, i>> \in landed
  <2>1. /\ TypeInv /\ Unsent(i) /\ i \notin {j \in Intents : status[j] \in Undecided}
        /\ status \in [Intents -> {"proposed", "pending", "rejected", "applied", "failed"}]
    BY <1>1 DEF SerialState, OneCallInv, TypeInv, TypeOK, Undecided
  <2>2. CASE Works \/ UNCHANGED vars
    BY <1>1, <2>2 DEF Works, vars, ledger, world
  <2>3. ASSUME NEW t \in Tasks, NEW j \in Intents, SendsCall(t, j)
        PROVE  status'[i] = "rejected" /\ landed' = landed
    BY <1>1, <2>3 DEF SendsCall
  <2>4. ASSUME NEW t \in Tasks, NEW j \in Intents, Land(t, j)
        PROVE  status'[i] = "rejected" /\ landed' = landed \cup {<<t, j>>} /\ j # i
    BY <1>1, <2>1, <2>4 DEF Land, ledger, Unsent, Sent
  <2>5. ASSUME NEW j \in Intents, NEW s, Settles(j, s)
        PROVE  status'[i] = "rejected" /\ landed' = landed
    BY <1>1, <2>1, <2>5 DEF Settles
  <2>6. ASSUME NEW t \in Tasks, Answers(t)
        PROVE  status'[i] = "rejected" /\ landed' = landed
    <3>1. Subject(t) \in Intents /\ status[Subject(t)] \in Undecided /\ landed' = landed
      BY <2>1, <2>6, SubjectLemma DEF Answers
    <3>2. PICK s : status' = [status EXCEPT ![Subject(t)] = s]
      BY <2>6 DEF Answers
    <3>. QED BY <1>1, <2>1, <3>1, <3>2
  <2>. QED BY <1>1, <2>2, <2>3, <2>4, <2>5, <2>6, StepsLemma
<1>2. SerialState /\ [Next]_vars =>
        [\A i \in Intents : status[i] = "rejected" =>
            /\ status'[i] = "rejected"
            /\ \A t \in Tasks : <<t, i>> \in landed' => <<t, i>> \in landed]_vars
  BY <1>1
<1>. QED BY <1>2, SerialInvariant, PTL DEF Spec, RejectionIsFinal

-----------------------------------------------------------------------------
(* Every answer arrives: the pipeline implements its abstract specification. *)

Waits(call) == pc[call[1]] = "applying" /\ Subject(call[1]) = call[2]

\* A request on its way is awaited, and the first of its key; one that took effect is
\* awaited or has its key marked; and there is one of a key.
OnceInv ==
    /\ \A call \in inTransit : Waits(call)
    /\ \A call \in inTransit, p \in landed : KeyOf[p[2]] # KeyOf[call[2]]
    /\ \A call \in landed : KeyOf[call[2]] \in appliedKeys \/ Waits(call)
    /\ KeyWrittenOnce

\* There is at most one request that is awaited, that of the waiting task.
LEMMA AwaitedLemma ==
    ASSUME TypeInv, IdempotencyInv, MaxTasks = 1, NEW t \in Tasks, pc[t] = "applying",
           NEW call \in Sent, Waits(call)
    PROVE  call = <<t, Subject(t)>>
<1>1. call \in Calls /\ call = <<call[1], call[2]>> /\ call[1] \in Tasks
  BY DEF TypeInv, TypeOK, Sent, Calls
<1>2. Active = {t} /\ call[1] \in Active
  BY <1>1, SoleLemma DEF Active, Waits
<1>. QED BY <1>1, <1>2 DEF Waits

LEMMA OnceStep ==
    ASSUME SerialState, OnceInv, MaxTasks = 1, ~ MayCancel, ~ MayLoseAnswer, [Next]_vars
    PROVE  OnceInv'
<1>1. /\ TypeInv /\ IdempotencyInv /\ OneCallInv
      /\ \A call \in Sent : call = <<call[1], call[2]>> /\ call[1] \in Tasks /\ call[2] \in Intents
  BY DEF SerialState, TypeInv, TypeOK, Sent, Calls
<1>2. NobodyWaits => inTransit = {} /\ \A call \in landed : KeyOf[call[2]] \in appliedKeys
  BY <1>1 DEF OnceInv, NobodyWaits, Waits, Sent
<1>3. CASE Works
  BY <1>2, <1>3 DEF Works, OnceInv, KeyWrittenOnce
<1>4. CASE UNCHANGED vars
  BY <1>4 DEF vars, flow, ledger, world, OnceInv, KeyWrittenOnce, Waits, Subject, Current
<1>5. ASSUME NEW t \in Tasks, NEW i \in Intents, SendsCall(t, i)
      PROVE  OnceInv'
  <2>1. /\ inTransit' = {<<t, i>>} /\ landed' = landed /\ appliedKeys' = appliedKeys
        /\ pc'[t] = "applying" /\ Subject(t)' = i
        /\ KeyOf[i] \notin appliedKeys
        /\ \A call \in landed : KeyOf[call[2]] \in appliedKeys
    BY <1>2, <1>5 DEF SendsCall, NeedsWrite
  <2>2. <<t, i>>[1] = t /\ <<t, i>>[2] = i
    OBVIOUS
  <2>3. \A call \in inTransit' : Waits(call)'
    BY <2>1, <2>2 DEF Waits, Subject, Current
  <2>. QED BY <2>1, <2>2, <2>3 DEF OnceInv, KeyWrittenOnce
<1>6. ASSUME NEW i \in Intents, NEW s, Settles(i, s)
      PROVE  OnceInv'
  BY <1>2, <1>6 DEF Settles, OnceInv, KeyWrittenOnce
<1>7. ASSUME NEW t \in Tasks, NEW i \in Intents, Land(t, i)
      PROVE  OnceInv'
  <2>1. /\ <<t, i>> \in inTransit /\ inTransit' = inTransit \ {<<t, i>>}
        /\ landed' = landed \cup {<<t, i>>} /\ appliedKeys' = appliedKeys
        /\ pc' = pc /\ position' = position /\ approves' = approves
    BY <1>7 DEF Land, flow, ledger
  <2>2. \A call \in Sent : Waits(call)' <=> Waits(call)
    BY <2>1 DEF Waits, Subject, Current
  <2>3. inTransit' = {}
    <3>1. pc[t] = "applying"
      BY <2>1 DEF OnceInv, Waits
    <3>2. \A call \in inTransit : call = <<t, Subject(t)>>
      BY <1>1, <3>1, AwaitedLemma DEF OnceInv, Sent
    <3>. QED BY <2>1, <3>2
  <2>4. \A p \in landed : KeyOf[p[2]] # KeyOf[i]
    BY <2>1 DEF OnceInv
  <2>5. KeyWrittenOnce'
    BY <2>1, <2>4 DEF OnceInv, KeyWrittenOnce
  <2>6. \A call \in landed' : KeyOf[call[2]] \in appliedKeys' \/ Waits(call)'
    BY <2>1, <2>2 DEF OnceInv, Sent
  <2>. QED BY <2>3, <2>5, <2>6 DEF OnceInv
<1>8. ASSUME NEW t \in Tasks, Answers(t)
      PROVE  OnceInv'
  <2> DEFINE c == <<t, Subject(t)>>
  <2>1. pc[t] = "applying" /\ \A call \in Sent : Waits(call) => call = c
    BY <1>1, <1>8, AwaitedLemma DEF Answers
  <2>2. \A call \in inTransit : call = c
    BY <2>1 DEF OnceInv, Sent
  <2>3. c \notin inTransit \/ c \notin landed
    BY DEF OnceInv
  <2>4. CASE ApplySucceeds(t)
    <3>1. inTransit' = {}
      BY <2>2, <2>3, <2>4 DEF ApplySucceeds
    <3>2. KeyOf[c[2]] \in appliedKeys' /\ appliedKeys \subseteq appliedKeys' /\ landed' = landed
      BY <2>4 DEF ApplySucceeds
    <3>3. \A call \in landed' : KeyOf[call[2]] \in appliedKeys'
      BY <2>1, <3>2 DEF OnceInv, Sent
    <3>. QED BY <3>1, <3>2, <3>3 DEF OnceInv, KeyWrittenOnce
  <2>5. CASE ApplyRaises(t)
    <3>1. c \in inTransit /\ inTransit' = inTransit \ {c} /\ landed' = landed
          /\ appliedKeys' = appliedKeys
      BY <2>5 DEF ApplyRaises
    <3>2. inTransit' = {}
      BY <2>2, <3>1
    <3>3. \A call \in landed' : KeyOf[call[2]] \in appliedKeys'
      BY <2>1, <2>3, <3>1 DEF OnceInv, Sent
    <3>. QED BY <3>1, <3>2, <3>3 DEF OnceInv, KeyWrittenOnce
  <2>. QED BY <1>8, <2>4, <2>5 DEF Answers, Answer
<1>. QED BY <1>3, <1>4, <1>5, <1>6, <1>7, <1>8, StepsLemma

LEMMA OnceInvariant ==
    ASSUME MaxTasks = 1, ~ MayCancel, ~ MayLoseAnswer
    PROVE  Spec => []OnceInv
<1>1. Init => OnceInv
  BY DEF Init, OnceInv, KeyWrittenOnce
<1>2. SerialState /\ OnceInv /\ [Next]_vars => OnceInv'
  BY OnceStep
<1>. QED BY <1>1, <1>2, SerialInvariant, PTL DEF Spec

\* "Replays and webhook retries can't double-write": true when calls do not overlap and
\* every answer arrives; webhook_retry shows what happens when one is lost.
THEOREM KeysAreWrittenOnce ==
    ASSUME MaxTasks = 1, ~ MayCancel, ~ MayLoseAnswer
    PROVE  Spec => []KeyWrittenOnce
<1>1. OnceInv => KeyWrittenOnce
  BY DEF OnceInv
<1>. QED BY <1>1, OnceInvariant, PTL

\* The refinement mapping: how often the change of an intent was written.
Writes == [i \in Intents |-> Cardinality({t \in Tasks : <<t, i>> \in landed})]

\* Of calls of which no two are for one intent, none or one is for intent i.
LEMMA CountLemma ==
    ASSUME NEW L \in SUBSET Calls, NEW i \in Intents,
           \A p, q \in L : p[2] = q[2] => p = q
    PROVE  /\ (\A call \in L : call[2] # i) => Cardinality({t \in Tasks : <<t, i>> \in L}) = 0
           /\ (\E call \in L : call[2] = i) => Cardinality({t \in Tasks : <<t, i>> \in L}) = 1
<1> DEFINE T == {t \in Tasks : <<t, i>> \in L}
<1>1. ASSUME \A call \in L : call[2] # i
      PROVE  Cardinality(T) = 0
  <2>1. \A t \in Tasks : <<t, i>>[2] = i
    OBVIOUS
  <2>2. T = {}
    BY <1>1, <2>1
  <2>. QED BY <2>2, FS_EmptySet
<1>2. ASSUME NEW call \in L, call[2] = i
      PROVE  Cardinality(T) = 1
  <2>1. call = <<call[1], i>> /\ call[1] \in Tasks
    BY <1>2 DEF Calls
  <2>2. \A t \in T : t = call[1]
    <3>1. ASSUME NEW t \in T PROVE t = call[1]
      <4>1. <<t, i>> \in L /\ <<t, i>>[2] = i /\ <<t, i>>[1] = t
        OBVIOUS
      <4>. QED BY <1>2, <4>1
    <3>. QED BY <3>1
  <2>3. T = {call[1]}
    BY <2>1, <2>2
  <2>4. Cardinality({call[1]}) = 1
    BY FS_Singleton
  <2>. QED BY <2>3, <2>4
<1>. QED BY <1>1, <1>2

\* An intent that has not landed was written not at all, one that has, once.
LEMMA WritesLemma ==
    ASSUME SerialState, NEW i \in Intents
    PROVE  /\ (\A call \in landed : call[2] # i) => Writes[i] = 0
           /\ (\E call \in landed : call[2] = i) => Writes[i] = 1
<1>1. landed \in SUBSET Calls /\ \A p, q \in landed : p[2] = q[2] => p = q
  BY DEF SerialState, TypeInv, TypeOK, OneCallInv, Sent
<1>2. Writes[i] = Cardinality({t \in Tasks : <<t, i>> \in landed})
  BY DEF Writes
<1>. QED BY <1>1, <1>2, CountLemma

\* An intent is decided in a way that IntentLifecycle allows.
LEMMA DecisionLemma ==
    ASSUME SerialState, NEW i \in Intents, NEW s,
           status' = [status EXCEPT ![i] = s], Writes' = Writes,
           status[i] \in Undecided,
           \/ s = "proposed" /\ status[i] = "proposed"
           \/ s = "pending" /\ status[i] = "proposed" /\ Writes[i] = 0
           \/ s \in {"rejected", "failed"} /\ Writes[i] = 0
           \/ s = "applied" /\ \E j \in Intents : KeyOf[j] = KeyOf[i] /\ Writes[j] = 1
    PROVE  [Lifecycle!Next]_<<status, Writes>>
<1>1. status \in [Intents -> {"proposed", "pending", "rejected", "applied", "failed"}]
  BY DEF SerialState, TypeInv, TypeOK
<1>2. CASE s = "proposed" /\ status[i] = "proposed"
  BY <1>1, <1>2
<1>3. CASE \/ s = "pending" /\ status[i] = "proposed" /\ Writes[i] = 0
           \/ s \in {"rejected", "failed"} /\ Writes[i] = 0
  <2>1. Lifecycle!Decline(i)
    BY <1>3 DEF Lifecycle!Decline, Lifecycle!Decide, Lifecycle!Open, Undecided, Writes
  <2>. QED BY <2>1 DEF Lifecycle!Next
<1>4. CASE s = "applied" /\ \E j \in Intents : KeyOf[j] = KeyOf[i] /\ Writes[j] = 1
  <2>1. Lifecycle!Apply(i)
    BY <1>4 DEF Lifecycle!Apply, Lifecycle!Decide, Lifecycle!Open, Lifecycle!SameKey, Undecided, Writes
  <2>. QED BY <2>1 DEF Lifecycle!Next
<1>. QED BY <1>2, <1>3, <1>4

\* A key that is marked was written.
LEMMA MarkedIsWritten ==
    ASSUME SerialState, NEW i \in Intents, KeyOf[i] \in appliedKeys
    PROVE  \E j \in Intents : KeyOf[j] = KeyOf[i] /\ Writes[j] = 1
<1>1. PICK call \in landed : KeyOf[call[2]] = KeyOf[i]
  BY DEF SerialState, BackedInv
<1>2. call[2] \in Intents
  BY DEF SerialState, TypeInv, TypeOK, Calls
<1>. QED BY <1>1, <1>2, WritesLemma

LEMMA RefinementStep ==
    ASSUME SerialState, SerialState', OnceInv, MaxTasks = 1, ~ MayCancel, ~ MayLoseAnswer,
           [Next]_vars
    PROVE  [Lifecycle!Next]_<<status, Writes>>
<1>1. /\ TypeInv /\ OneCallInv
      /\ \A call \in Sent : call[1] \in Tasks /\ call[2] \in Intents
  BY DEF SerialState, TypeInv, TypeOK, Sent, Calls
<1>2. landed' = landed => Writes' = Writes
  BY DEF Writes
<1>3. CASE Works \/ UNCHANGED vars
  BY <1>2, <1>3 DEF Works, vars, ledger, world
<1>4. ASSUME NEW t \in Tasks, NEW i \in Intents, SendsCall(t, i)
      PROVE  UNCHANGED <<status, Writes>>
  BY <1>2, <1>4 DEF SendsCall
<1>5. ASSUME NEW t \in Tasks, NEW i \in Intents, Land(t, i)
      PROVE  [Lifecycle!Next]_<<status, Writes>>
  <2>1. /\ <<t, i>> \in inTransit /\ landed' = landed \cup {<<t, i>>} /\ status' = status
        /\ <<t, i>>[1] = t /\ <<t, i>>[2] = i
    BY <1>5 DEF Land, ledger
  <2>2. status[i] \in Undecided
    BY <1>1, <2>1 DEF OnceInv, Waits, OneCallInv
  <2>3. \A j \in Intents : KeyOf[j] = KeyOf[i] => Writes[j] = 0
    BY <2>1, WritesLemma DEF OnceInv
  <2>4. Writes' = [Writes EXCEPT ![i] = 1]
    <3>1. ASSUME NEW j \in Intents, j # i
          PROVE  Writes'[j] = Writes[j]
      <4>1. \A u \in Tasks : <<u, j>> \in landed' <=> <<u, j>> \in landed
        BY <2>1, <3>1
      <4>2. {u \in Tasks : <<u, j>> \in landed'} = {u \in Tasks : <<u, j>> \in landed}
        BY <4>1
      <4>. QED BY <4>2 DEF Writes
    <3>2. Writes'[i] = 1
      <4>1. <<t, i>> \in landed'
        BY <2>1
      <4>2. landed' \in SUBSET Calls /\ \A p, q \in landed' : p[2] = q[2] => p = q
        BY DEF SerialState, TypeInv, TypeOK, OneCallInv, Sent
      <4>3. Writes'[i] = Cardinality({u \in Tasks : <<u, i>> \in landed'})
        BY DEF Writes
      <4>. QED BY <2>1, <4>1, <4>2, <4>3, CountLemma
    <3>3. DOMAIN Writes = Intents /\ DOMAIN Writes' = Intents
      BY DEF Writes
    <3>4. Writes = [j \in Intents |-> Writes[j]] /\ Writes' = [j \in Intents |-> Writes'[j]]
      BY DEF Writes
    <3>. QED BY <3>1, <3>2, <3>3, <3>4
  <2>5. Lifecycle!Write(i)
    BY <2>1, <2>2, <2>3, <2>4
       DEF Lifecycle!Write, Lifecycle!Open, Lifecycle!SameKey, Undecided, Writes
  <2>. QED BY <2>5 DEF Lifecycle!Next
<1>6. ASSUME NEW i \in Intents, NEW s, Settles(i, s), s \in {"proposed", "pending", "rejected", "applied", "failed"}
      PROVE  [Lifecycle!Next]_<<status, Writes>>
  <2>1. Writes[i] = 0
    BY <1>6, WritesLemma DEF Settles, Unsent, Sent
  <2>2. s = "applied" => \E j \in Intents : KeyOf[j] = KeyOf[i] /\ Writes[j] = 1
    BY <1>6, MarkedIsWritten DEF Settles
  <2>3. /\ status' = [status EXCEPT ![i] = s] /\ Writes' = Writes /\ status[i] \in Undecided
        /\ s \in {"proposed", "pending"} => status[i] = "proposed"
    BY <1>2, <1>6 DEF Settles
  <2>. QED BY <1>6, <2>1, <2>2, <2>3, DecisionLemma
<1>7. ASSUME NEW i \in Intents, NEW s, Settles(i, s)
      PROVE  [Lifecycle!Next]_<<status, Writes>>
  <2>1. status' \in [Intents -> {"proposed", "pending", "rejected", "applied", "failed"}]
    BY DEF SerialState, TypeInv, TypeOK
  <2>2. status'[i] = s
    BY <1>1, <1>7 DEF Settles, TypeInv, TypeOK
  <2>. QED BY <1>6, <1>7, <2>1, <2>2
<1>8. ASSUME NEW t \in Tasks, Answers(t)
      PROVE  [Lifecycle!Next]_<<status, Writes>>
  <2> DEFINE i == Subject(t)
  <2>1. i \in Intents /\ Writes' = Writes /\ status[i] \in Undecided
    BY <1>1, <1>2, <1>8, SubjectLemma DEF Answers
  <2>2. <<t, i>>[2] = i
    OBVIOUS
  <2>3. CASE ApplySucceeds(t)
    <3>1. status' = [status EXCEPT ![i] = "applied"] /\ <<t, i>> \in landed
      BY <1>8, <2>3 DEF Answers, ApplySucceeds
    <3>2. Writes[i] = 1
      BY <2>1, <2>2, <3>1, WritesLemma
    <3>. QED BY <2>1, <3>1, <3>2, DecisionLemma
  <2>4. CASE ~ ApplySucceeds(t)
    <3>1. ApplyRaises(t) /\ status' = [status EXCEPT ![i] = "failed"]
      BY <1>8, <2>4 DEF Answers, Answer
    <3>2. <<t, i>> \in inTransit
      BY <3>1 DEF ApplyRaises
    <3>3. \A call \in landed : call[2] # i
      BY <2>2, <3>2 DEF OnceInv
    <3>4. Writes[i] = 0
      BY <2>1, <3>3, WritesLemma
    <3>. QED BY <2>1, <3>1, <3>4, DecisionLemma
  <2>. QED BY <2>3, <2>4
<1>. QED BY <1>3, <1>4, <1>5, <1>7, <1>8, StepsLemma

\* The pipeline implements IntentLifecycle, when calls do not overlap and every answer
\* arrives: intents are decided once, only undecided ones are written, those of one key
\* once, and "applied" means that.
THEOREM PipelineImplementsLifecycle ==
    ASSUME MaxTasks = 1, ~ MayCancel, ~ MayLoseAnswer
    PROVE  Spec => ImplementsLifecycle
<1>1. Init => Lifecycle!Init
  <2> SUFFICES ASSUME Init PROVE Lifecycle!Init
    OBVIOUS
  <2>1. \A i \in Intents : {t \in Tasks : <<t, i>> \in landed} = {}
    BY DEF Init
  <2>2. Writes = [i \in Intents |-> 0]
    BY <2>1, FS_EmptySet DEF Writes
  <2>. QED BY <2>2 DEF Init, Lifecycle!Init, Writes
<1>2. SerialState /\ SerialState' /\ OnceInv /\ [Next]_vars => [Lifecycle!Next]_(Lifecycle!vars)
  BY RefinementStep DEF Lifecycle!vars, Writes
<1>. QED
  BY <1>1, <1>2, SerialInvariant, OnceInvariant, PTL
     DEF Spec, ImplementsLifecycle, Lifecycle!Spec
-----------------------------------------------------------------------------
(* What IntentLifecycle promises, and with it the pipeline.                *)

\* The status of an intent tells what the remote system has: a rejected or failed intent
\* was not written, the key of an applied one was, and no two of a key were.
StatusIsTrue ==
    \A i \in Intents :
        /\ status[i] \in {"rejected", "failed"} => Writes[i] = 0
        /\ status[i] = "applied" => \E j \in Intents : KeyOf[j] = KeyOf[i] /\ Writes[j] = 1
        /\ \A j \in Intents : KeyOf[j] = KeyOf[i] /\ Writes[i] # 0 /\ Writes[j] # 0 => i = j

PromiseInv ==
    /\ DOMAIN status = Intents
    /\ DOMAIN Writes = Intents /\ \A i \in Intents : Writes[i] \in {0, 1}
    /\ StatusIsTrue

LEMMA PromiseStep == PromiseInv /\ [Lifecycle!Next]_(Lifecycle!vars) => PromiseInv'
<1> SUFFICES ASSUME PromiseInv, [Lifecycle!Next]_(Lifecycle!vars) PROVE PromiseInv'
  OBVIOUS
<1>1. ASSUME NEW i \in Intents, Lifecycle!Write(i) PROVE PromiseInv'
  <2>1. /\ status[i] \in {"proposed", "pending"} /\ status' = status
        /\ \A j \in Intents : KeyOf[j] = KeyOf[i] => Writes[j] = 0
        /\ Writes' = [Writes EXCEPT ![i] = 1]
    BY <1>1 DEF Lifecycle!Write, Lifecycle!Open, Lifecycle!SameKey, Writes
  <2>2. /\ DOMAIN Writes' = Intents /\ Writes'[i] = 1
        /\ \A j \in Intents : j # i => Writes'[j] = Writes[j]
    BY <2>1 DEF PromiseInv
  <2>. QED BY <2>1, <2>2 DEF PromiseInv, StatusIsTrue
<1>2. ASSUME NEW i \in Intents, NEW s, status' = [status EXCEPT ![i] = s], Writes' = Writes,
             s \in {"rejected", "failed"} => Writes[i] = 0,
             s = "applied" => \E j \in Intents : KeyOf[j] = KeyOf[i] /\ Writes[j] = 1
      PROVE  PromiseInv'
  <2>1. /\ DOMAIN status' = Intents /\ status'[i] = s
        /\ \A j \in Intents : j # i => status'[j] = status[j]
    BY <1>2 DEF PromiseInv
  <2>. QED BY <1>2, <2>1 DEF PromiseInv, StatusIsTrue
<1>3. ASSUME NEW i \in Intents, Lifecycle!Decline(i) PROVE PromiseInv'
  <2>1. PICK s \in {"pending", "rejected", "failed"} : status' = [status EXCEPT ![i] = s]
    BY <1>3 DEF Lifecycle!Decline, Lifecycle!Decide
  <2>2. Writes[i] = 0 /\ Writes' = Writes
    BY <1>3 DEF Lifecycle!Decline, Lifecycle!Decide, Writes
  <2>. QED BY <1>2, <2>1, <2>2
<1>4. ASSUME NEW i \in Intents, Lifecycle!Apply(i) PROVE PromiseInv'
  <2>1. /\ status' = [status EXCEPT ![i] = "applied"] /\ Writes' = Writes
        /\ \E j \in Intents : KeyOf[j] = KeyOf[i] /\ Writes[j] = 1
    BY <1>4 DEF Lifecycle!Apply, Lifecycle!Decide, Lifecycle!SameKey, Writes
  <2>. QED BY <1>2, <2>1
<1>5. CASE UNCHANGED Lifecycle!vars
  <2>1. status' = status /\ Writes' = Writes
    BY <1>5 DEF Lifecycle!vars, Writes
  <2>. QED BY <2>1 DEF PromiseInv, StatusIsTrue
<1>. QED BY <1>1, <1>3, <1>4, <1>5 DEF Lifecycle!Next

LEMMA PromiseInvariant == Lifecycle!Spec => []PromiseInv
<1>1. Lifecycle!Init => PromiseInv
  <2> SUFFICES ASSUME Lifecycle!Init PROVE PromiseInv
    OBVIOUS
  <2>1. status = [i \in Intents |-> "proposed"] /\ Writes = [i \in Intents |-> 0]
    BY DEF Lifecycle!Init, Writes
  <2>. QED BY <2>1 DEF PromiseInv, StatusIsTrue
<1>. QED BY <1>1, PromiseStep, PTL DEF Lifecycle!Spec

\* When calls do not overlap and every answer arrives, the ledger tells the truth about the
\* remote system: this follows from the refinement alone.
THEOREM LedgerTellsTheTruth ==
    ASSUME MaxTasks = 1, ~ MayCancel, ~ MayLoseAnswer
    PROVE  Spec => []StatusIsTrue
<1>1. PromiseInv => StatusIsTrue
  BY DEF PromiseInv
<1>2. Spec => Lifecycle!Spec
  BY PipelineImplementsLifecycle DEF ImplementsLifecycle
<1>. QED BY <1>1, <1>2, PromiseInvariant, PTL

\* When calls do not overlap and every answer arrives, a decision is final: an intent that
\* was rejected, applied or has failed stays so.
THEOREM DecisionsAreFinal ==
    ASSUME MaxTasks = 1, ~ MayCancel, ~ MayLoseAnswer
    PROVE  Spec => [][\A i \in Intents : status[i] \in {"rejected", "applied", "failed"} =>
                                             status'[i] = status[i]]_vars
<1>1. ASSUME PromiseInv, [Lifecycle!Next]_(Lifecycle!vars), NEW i \in Intents,
             status[i] \in {"rejected", "applied", "failed"}
      PROVE  status'[i] = status[i]
  <2>1. ASSUME NEW j \in Intents, Lifecycle!Write(j) \/ Lifecycle!Decline(j) \/ Lifecycle!Apply(j)
        PROVE  status'[i] = status[i]
    <3>1. \/ status' = status
          \/ \E s : status' = [status EXCEPT ![j] = s] /\ status[j] \in {"proposed", "pending"}
      BY <2>1 DEF Lifecycle!Write, Lifecycle!Decline, Lifecycle!Apply, Lifecycle!Decide, Lifecycle!Open
    <3>. QED BY <1>1, <3>1 DEF PromiseInv
  <2>. QED BY <1>1, <2>1 DEF Lifecycle!Next, Lifecycle!vars
<1>2. PromiseInv /\ [Lifecycle!Next]_(Lifecycle!vars)
        => [\A i \in Intents : status[i] \in {"rejected", "applied", "failed"} =>
                                   status'[i] = status[i]]_vars
  BY <1>1
<1>3. Spec => Lifecycle!Spec
  BY PipelineImplementsLifecycle DEF ImplementsLifecycle
<1>. QED BY <1>2, <1>3, PromiseInvariant, PTL DEF Lifecycle!Spec
=============================================================================
